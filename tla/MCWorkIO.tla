------------------------------ MODULE MCWorkIO ------------------------------
(***************************************************************************)
(* Configurations of the workio thread for TLC.                            *)
(***************************************************************************)
EXTENDS WorkIO

Config(n, r, limit, by) ==
    [pools |-> n, retries |-> r, failover |-> TRUE, limit |-> limit, by |-> by]

\* One pool with a time limit; two pools, rotated by thread 0, or by the API too;
\* one pool whose node fails for good; two pools with failover.
PassConfigs == {Config(1, -1, TRUE, {}), Config(2, -1, FALSE, {First}),
                Config(2, -1, FALSE, {First, Api}), Config(1, 1, FALSE, {}),
                Config(2, 0, FALSE, {})}

\* Two pools with failover, as two URLs on the command line give them.
FailoverConfigs == {Config(2, 1, FALSE, {})}

\* One pool with a time limit.
LimitConfigs == {Config(1, -1, TRUE, {})}
=============================================================================
