---------------------------- MODULE LoopsProofs ----------------------------
(***************************************************************************)
(* MinerLoopProofs carries over to MCLoops: its solo steps are steps of    *)
(* the mining loop as it stands; for its stratum steps the constants meet  *)
(* the assumptions made there, and they are steps of the mining loop with  *)
(* one thread.                                                             *)
(***************************************************************************)
EXTENDS MCLoops, MinerLoopProofs

\* The proofs about the loop at the values of OnStratum.
Loop == INSTANCE MinerLoopProofs WITH
    N <- 1, MaxNonce <- 12, EndSlack <- 2, LowWater <- 1, TailSlack <- 1,
    Spans <- {1, 5, 13}, Throughput <- 3, Source <- "stratum",
    Governor <- FALSE, Rejecting <- {}, Headers <- PoolHeaders,
    MaxHeight <- 2, MaxQueue <- 1

\* Thirteen nonces for one thread meet the assumptions of the loop.
LEMMA Sizes == Loop!LoopAssumption /\ Loop!RangeAssumption
  BY BlankAssumption, SMT DEF Loop!LoopAssumption, Loop!RangeAssumption, Loop!Quota

\* The two instances define the same loop, first the locked part.
LEMMA SameTakeWork == OnStratum!TakeWork(0) => Loop!TakeWork(0)
  BY Zenon DEF OnStratum!TakeWork, OnStratum!Refresh, OnStratum!Generate, OnStratum!Fresh,
       OnStratum!MustRefresh, OnStratum!CopyWork, OnStratum!MayScan, OnStratum!Stratum,
       OnStratum!Threads, OnStratum!Start, OnStratum!Quota, OnStratum!Wrap,
       OnStratum!shared, OnStratum!repeat, OnStratum!scanning,
       Loop!TakeWork, Loop!Refresh, Loop!Generate, Loop!Fresh, Loop!MustRefresh,
       Loop!CopyWork, Loop!MayScan, Loop!Stratum, Loop!Threads, Loop!Start,
       Loop!Quota, Loop!Wrap, Loop!shared, Loop!repeat, Loop!scanning

\* A launch of the kernel.
LEMMA SameLaunch == OnStratum!Launch(0) => Loop!Launch(0)
  BY Zenon DEF OnStratum!Launch, OnStratum!NothingFound, OnStratum!ValidFound,
       OnStratum!InvalidFound, OnStratum!Launched, OnStratum!Wrap, OnStratum!shared, OnStratum!repeat,
       Loop!Launch, Loop!NothingFound, Loop!ValidFound, Loop!InvalidFound,
       Loop!Launched, Loop!Wrap, Loop!shared, Loop!repeat

\* The rest of a turn.
LEMMA SameTurn ==
    /\ OnStratum!Hold(0) => Loop!Hold(0)
    /\ OnStratum!StartScan(0) => Loop!StartScan(0)
    /\ OnStratum!FinishScan(0) => Loop!FinishScan(0)
<1>1. OnStratum!Hold(0) => Loop!Hold(0)
  BY Zenon DEF OnStratum!Hold, OnStratum!shared, OnStratum!repeat, Loop!Hold, Loop!shared, Loop!repeat
<1>2. OnStratum!StartScan(0) => Loop!StartScan(0)
  BY Zenon DEF OnStratum!StartScan, OnStratum!ClearRestart, OnStratum!ClampedEnd, OnStratum!shared, OnStratum!repeat,
       Loop!StartScan, Loop!ClearRestart, Loop!ClampedEnd, Loop!shared, Loop!repeat
<1>3. OnStratum!FinishScan(0) => Loop!FinishScan(0)
  BY Zenon DEF OnStratum!FinishScan, OnStratum!SpendWork, OnStratum!Stratum,
       OnStratum!Submissions, OnStratum!repeat, Loop!repeat,
       Loop!FinishScan, Loop!SpendWork, Loop!Stratum, Loop!Submissions
<1>. QED  BY <1>1, <1>2, <1>3

\* The steps of the stratum thread, and of workio with a share.
LEMMA SamePool ==
    /\ OnStratum!NewJob => Loop!NewJob
    /\ OnStratum!Disconnected => Loop!Disconnected
    /\ OnStratum!TakeShare => Loop!TakeShare
    /\ OnStratum!RaiseNext => Loop!RaiseNext
<1>1. OnStratum!NewJob => Loop!NewJob
  BY Zenon DEF OnStratum!NewJob, OnStratum!Generate, OnStratum!Fresh, OnStratum!Stratum,
       OnStratum!Threads, OnStratum!RestartThreads, OnStratum!scanning,
       OnStratum!repeat, Loop!repeat,
       Loop!NewJob, Loop!Generate, Loop!Fresh, Loop!Stratum, Loop!Threads,
       Loop!RestartThreads, Loop!scanning
<1>2. OnStratum!Disconnected => Loop!Disconnected
  BY Zenon DEF OnStratum!Disconnected, OnStratum!Stratum, OnStratum!Threads,
       OnStratum!RestartThreads, OnStratum!scanning, OnStratum!repeat, Loop!repeat,
       Loop!Disconnected, Loop!Stratum, Loop!Threads, Loop!RestartThreads, Loop!scanning
<1>3. OnStratum!TakeShare => Loop!TakeShare
  BY Zenon DEF OnStratum!TakeShare, OnStratum!Stratum, OnStratum!scanning,
       Loop!TakeShare, Loop!Stratum, Loop!scanning
<1>4. OnStratum!RaiseNext => Loop!RaiseNext
  BY Zenon DEF OnStratum!RaiseNext, OnStratum!Stratum, OnStratum!Spent, OnStratum!shared,
       OnStratum!scanning,
       Loop!RaiseNext, Loop!Stratum, Loop!Spent, Loop!shared, Loop!scanning
<1>. QED  BY <1>1, <1>2, <1>3, <1>4

\* It starts where the loop starts.
LEMMA SameInit == OnStratum!Init => Loop!Init
  BY Zenon DEF OnStratum!Init, OnStratum!Threads, OnStratum!FirstEnd, OnStratum!Quota,
       Loop!Init, Loop!Threads, Loop!FirstEnd, Loop!Quota

-----------------------------------------------------------------------------
\* The source of work never changes; on a stratum pool the steps are those of
\* the loop.
LEMMA LoopStep ==
    ASSUME [LoopsNext]_loops, source' = "stratum"
    PROVE  source = "stratum" /\ [Loop!Next]_(Loop!vars)
<1>1. source = "stratum"
  BY DEF LoopsNext, SoloThread, PoolJob, PoolLost, PoolShare, PoolFlag, NodeGoverned, NodeGets,
         Either, PoolTakes, PoolHolds, PoolStarts, PoolLaunches, PoolFinishes, loops
<1>2. 0 \in Loop!Threads
  BY SMT DEF Loop!Threads
<1>3. CASE UNCHANGED loops
  BY <1>3 DEF loops, vars, shared, repeat, scanning,
              Loop!vars, Loop!shared, Loop!repeat, Loop!scanning
<1>4. CASE PoolJob \/ PoolLost \/ PoolShare \/ PoolFlag
  BY <1>4, SamePool DEF PoolJob, PoolLost, PoolShare, PoolFlag, Loop!Next
<1>5. CASE NodeGoverned \/ NodeGets \/ \E t \in Threads : SoloThread(t)
  BY <1>1, <1>5 DEF NodeGoverned, NodeGets, SoloThread
<1>6. CASE PoolTakes \/ PoolHolds \/ PoolStarts \/ PoolLaunches \/ PoolFinishes
  <2>1. \/ Loop!TakeWork(0) \/ Loop!Hold(0) \/ Loop!StartScan(0)
        \/ Loop!Launch(0) \/ Loop!FinishScan(0)
    BY <1>1, <1>6, SameTakeWork, SameTurn, SameLaunch
       DEF PoolTakes, PoolHolds, PoolStarts, PoolLaunches, PoolFinishes, Either
  <2>. QED  BY <1>1, <1>2, <2>1 DEF Loop!Next
<1>. QED  BY <1>1, <1>3, <1>4, <1>5, <1>6 DEF LoopsNext

\* On a stratum pool the invariant of the loop holds.
PoolInv == source = "stratum" =>
    Loop!TypeOK /\ Loop!JobInHand /\ Loop!RaisedIsSpent

\* It holds at the start, and a step keeps it.
LEMMA PoolInit == LoopsInit => PoolInv
<1>1. Loop!Init => Loop!TypeOK
  BY Loop!TypeInit, Sizes DEF Loop!LoopAssumption, Loop!RangeAssumption
<1>2. Loop!Init => Loop!JobInHand
  BY Loop!JobInit, Sizes DEF Loop!LoopAssumption, Loop!RangeAssumption
<1>3. Loop!Init => Loop!RaisedIsSpent
  BY Loop!FlagInit, Sizes DEF Loop!LoopAssumption, Loop!RangeAssumption
<1>. QED  BY <1>1, <1>2, <1>3, SameInit DEF LoopsInit, PoolInv

LEMMA PoolStep == PoolInv /\ [LoopsNext]_loops => PoolInv'
<1>1. Loop!TypeOK /\ [Loop!Next]_(Loop!vars) => Loop!TypeOK'
  BY Loop!TypeStep, Sizes DEF Loop!LoopAssumption, Loop!RangeAssumption
<1>2. Loop!TypeOK /\ Loop!JobInHand /\ [Loop!Next]_(Loop!vars) => Loop!JobInHand'
  BY Loop!JobStep, Sizes DEF Loop!LoopAssumption, Loop!RangeAssumption
<1>3. /\ Loop!TypeOK /\ Loop!JobInHand /\ Loop!RaisedIsSpent
      /\ [Loop!Next]_(Loop!vars)
      => Loop!RaisedIsSpent'
  BY Loop!FlagStep, Sizes DEF Loop!LoopAssumption, Loop!RangeAssumption
<1>. QED  BY <1>1, <1>2, <1>3, LoopStep DEF PoolInv

\* A restart flag drops a result only if g_work has moved on or is used up
\* (the test of gbxminer.cpp:2255), or workio was late to raise it, in the
\* configuration TLC checks.
THEOREM OnlySpentHolds == LoopsSpec => []OnlySpent
<1>1. PoolInv => OnlySpent
  BY DEF PoolInv, OnlySpent, Loop!RaisedIsSpent, Loop!Spent,
         OnStratum!DropsOnlySpent, OnStratum!Drops, OnStratum!Spent, OnStratum!Threads, Loop!Threads
<1>. QED  BY <1>1, PoolInit, PoolStep, PTL DEF LoopsSpec
-----------------------------------------------------------------------------
\* In solo the steps are those of MinerLoop.
LEMMA SoloThreadStep ==
    ASSUME [LoopsNext]_loops, source' = "solo"
    PROVE  source = "solo" /\ [Next]_vars
<1>1. source = "solo"
  BY DEF LoopsNext, SoloThread, PoolJob, PoolLost, PoolShare, PoolFlag, NodeGoverned, NodeGets,
         Either, PoolTakes, PoolHolds, PoolStarts, PoolLaunches, PoolFinishes, loops
<1>2. CASE UNCHANGED loops
  BY <1>2 DEF loops
<1>3. CASE \E t \in Threads : SoloThread(t)
  BY <1>3 DEF SoloThread, Next
<1>4. CASE \/ PoolJob \/ PoolLost \/ PoolShare \/ PoolFlag \/ NodeGoverned \/ NodeGets
           \/ PoolTakes \/ PoolHolds \/ PoolStarts \/ PoolLaunches \/ PoolFinishes
  BY <1>1, <1>4 DEF PoolJob, PoolLost, PoolShare, PoolFlag, NodeGoverned, NodeGets,
         Either, PoolTakes, PoolHolds, PoolStarts, PoolLaunches, PoolFinishes
<1>. QED  BY <1>1, <1>2, <1>3, <1>4 DEF LoopsNext

\* In solo the invariants of the loop hold.
ThreadInv == source = "solo" => TypeOK /\ SoloInv /\ NoFlags /\ PositionFits

LEMMA ThreadInit == LoopsInit => ThreadInv
BY TypeInit, SoloInit, PositionInit DEF LoopsInit, ThreadInv

LEMMA ThreadStep ==
    ASSUME Source = "solo", ~Governor
    PROVE  ThreadInv /\ [LoopsNext]_loops => ThreadInv'
BY TypeStep, SoloStep, NoFlagsStep, PositionStep, SoloThreadStep DEF ThreadInv

LEMMA ThreadInvHolds ==
    ASSUME Source = "solo", ~Governor
    PROVE  LoopsSpec => []ThreadInv
BY ThreadInit, ThreadStep, PTL DEF LoopsSpec

\* The branch of gbxminer.cpp:2140 ("should not happen") is never taken in
\* solo: see SoloStartsBeforeEnd.
THEOREM BeforeEndHolds ==
    ASSUME Source = "solo", ~Governor
    PROVE  LoopsSpec => []BeforeEnd
<1>1. ThreadInv => BeforeEnd
  BY DEF ThreadInv, SoloInv, BeforeEnd
<1>. QED  BY <1>1, ThreadInvHolds, PTL

\* In solo every launch begins in the share of its thread, also after results
\* found past its end (gbxminer.cpp:2123-2144): see SoloLaunchesInShare.
THEOREM InShareHolds ==
    ASSUME Source = "solo", ~Governor
    PROVE  LoopsSpec => []InShare
<1>1. ThreadInv => InShare
  BY DEF ThreadInv, SoloInv, WindowInShare, PositionFits, LaunchesInShare, InShare
<1>. QED  BY <1>1, ThreadInvHolds, PTL

\* No thread scans on with a header it has submitted a block for
\* (gbxminer.cpp:2385): see SoloBlockOnce.
THEOREM OnceHolds ==
    ASSUME Source = "solo", ~Governor
    PROVE  LoopsSpec => []Once
<1>1. ThreadInv => Once
  BY DEF ThreadInv, SoloInv, SubmittedIsSpent, BlockOnce, Once
<1>. QED  BY <1>1, ThreadInvHolds, PTL
=============================================================================
