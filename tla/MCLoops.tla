------------------------------ MODULE MCLoops ------------------------------
(***************************************************************************)
(* The mining loop for TLC, with each source of work: solo, with the       *)
(* threads and nonces of the constants; on a stratum pool whose jobs       *)
(* change and whose connection is lost; on a getwork node with the thermal *)
(* governor running.  source says which; they never mix.                   *)
(***************************************************************************)
EXTENDS MinerLoop

CONSTANT PoolHeaders  \* the headers of the pools

\* A header is never the one of g_work without a job.
ASSUME BlankAssumption == Blank \notin PoolHeaders

VARIABLE source

OnStratum == INSTANCE MinerLoop WITH
    N <- 1, MaxNonce <- 12, EndSlack <- 2, LowWater <- 1, TailSlack <- 1,
    Spans <- {1, 5, 13}, Throughput <- 3, Source <- "stratum",
    Governor <- FALSE, Rejecting <- {}, Headers <- PoolHeaders,
    MaxHeight <- 2, MaxQueue <- 1

OnGetwork == INSTANCE MinerLoop WITH
    N <- 1, MaxNonce <- 8, EndSlack <- 2, LowWater <- 1, TailSlack <- 1,
    Spans <- {1, 9}, Throughput <- 2, Source <- "getwork",
    Governor <- TRUE, Rejecting <- {}, Headers <- PoolHeaders,
    MaxHeight <- 2, MaxQueue <- 1

loops == <<source, vars>>

LoopsInit == \/ source = "solo" /\ Init
             \/ source = "stratum" /\ OnStratum!Init
             \/ source = "getwork" /\ OnGetwork!Init

\* A miner thread of solo mining: without the governor nothing else moves.
SoloThread(t) == /\ source = "solo"
                 /\ \/ TakeWork(t) \/ Hold(t) \/ StartScan(t)
                    \/ Launch(t) \/ FinishScan(t)
                 /\ UNCHANGED source

\* The actions of MinerLoop for the pool in use; both have thread 0 only.
PoolJob == source = "stratum" /\ OnStratum!NewJob /\ UNCHANGED source
PoolLost == source = "stratum" /\ OnStratum!Disconnected /\ UNCHANGED source
PoolShare == source = "stratum" /\ OnStratum!TakeShare /\ UNCHANGED source
PoolFlag == source = "stratum" /\ OnStratum!RaiseNext /\ UNCHANGED source
NodeGoverned == source = "getwork" /\ OnGetwork!GovernorStep /\ UNCHANGED source
NodeGets == source = "getwork" /\ OnGetwork!Deliver /\ UNCHANGED source

Either(onStratum, onGetwork) == /\ \/ source = "stratum" /\ onStratum
                                   \/ source = "getwork" /\ onGetwork
                                /\ UNCHANGED source

PoolTakes == Either(OnStratum!TakeWork(0), OnGetwork!TakeWork(0))
PoolHolds == Either(OnStratum!Hold(0), OnGetwork!Hold(0))
PoolStarts == Either(OnStratum!StartScan(0), OnGetwork!StartScan(0))
PoolLaunches == Either(OnStratum!Launch(0), OnGetwork!Launch(0))
PoolFinishes == Either(OnStratum!FinishScan(0), OnGetwork!FinishScan(0))

LoopsNext == \/ \E t \in Threads : SoloThread(t)
             \/ PoolJob \/ PoolLost \/ PoolShare \/ PoolFlag
             \/ NodeGoverned \/ NodeGets
             \/ PoolTakes \/ PoolHolds \/ PoolStarts \/ PoolLaunches \/ PoolFinishes

\* The fairness of MinerLoop, for the pools.
LoopsSpec == /\ LoopsInit /\ [][LoopsNext]_loops
             /\ WF_loops(PoolTakes) /\ WF_loops(PoolStarts)
             /\ WF_loops(PoolLaunches) /\ WF_loops(PoolFinishes)
-----------------------------------------------------------------------------
\* The properties of module MinerLoop, each for the sources it is about.  In
\* solo the branch of gbxminer.cpp:2140 ("should not happen") is not taken, ...
BeforeEnd == source = "solo" => StartsBeforeEnd

\* ... a thread launches inside its share (2123-2144) until a result of it is
\* refused, ...
InShare == source = "solo" => LaunchesInShare

\* ... and does not scan on with a header it has submitted a block for (2385).
Once == source = "solo" => BlockOnce

\* On a stratum pool the test of 2255 drops only results whose header g_work
\* has left or used up, unless workio was late to raise the flag.  (With the
\* governor good results are dropped too; solo work is only used up by blocks.)
OnlySpent == source = "stratum" => OnStratum!DropsOnlySpent

\* On a pool of either kind a thread always leaves a header that has been
\* replaced, for all the lost flags (2002) and torn copies (1884-1928); the
\* instance for getwork would say the same.
LeavesOld == source # "solo" => OnStratum!CatchesUp
=============================================================================
