----------------------------- MODULE MCStratum -----------------------------
(***************************************************************************)
(* A stratum session for TLC: every second job is a new block, and the     *)
(* second job has the ntime of the first.                                  *)
(***************************************************************************)
EXTENDS Stratum

Heights == [j \in 1..MaxJob |-> (j + 1) \div 2]
NTimes == [j \in 1..MaxJob |-> IF j <= 2 THEN 1 ELSE 3]

\* A bound: a session either keeps its xnonce1, or it changes while nothing is
\* submitted and the difficulty stays.
FirstXnonce1 == /\ xnonce1 = NoHeader.xnonce1
                /\ \A t \in Miners : work[t].h.xnonce1 = NoHeader.xnonce1
OnePurpose == FirstXnonce1 \/ (submits = 0 /\ nextDiff = FirstDiff)
=============================================================================
