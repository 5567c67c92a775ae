--------------------------- MODULE HardwareProofs ---------------------------
(***************************************************************************)
(* Proofs about the governor beside the miner threads and the monitor: the *)
(* types, that a configured intensity is never lost, and that only enough  *)
(* cool readings give it back.                                             *)
(***************************************************************************)
EXTENDS Hardware, TLAPS

\* The ticks of a throttled thread are its cool readings since the last hot
\* one.
TicksAreCalm == \A t \in Threads : Throttled(t) => ticks[t] = calm[t]

\* What the assumptions say of the constants.
LEMMA Bounds == /\ N \in Nat \ {0} /\ Default \in Nat \ {0}
                /\ MinThroughput \in Nat \ {0} /\ CoolTicks \in Nat \ {0}
                /\ MaxLoops \in Nat \ {0}
                /\ Configured \subseteq Nat
                /\ NotThrottled \notin Nat
BY GovernorAssumption, HardwareAssumption DEF GovernorAssumption, HardwareAssumption

USE DEF Threads, Mon!Threads
-----------------------------------------------------------------------------
\* The steps that leave the governor's table alone: scans, conditional mining,
\* and all steps of monitor, miner threads and main.
OtherStep == \/ \E t \in Threads : StartScan(t) \/ MinerStep(t) \/ Hold(t)
             \/ NewJob \/ MonitorStep \/ Spurious
             \/ MainStep \/ WorkioEnds \/ JoinLast

\* Only a poll changes the governor's table.
LEMMA OthersLeaveTable == ASSUME OtherStep \/ UNCHANGED vars
                          PROVE  UNCHANGED govTable
<1>1. ASSUME NEW t \in Threads, StartScan(t) \/ MinerStep(t) \/ Hold(t)
      PROVE  UNCHANGED govTable
  BY <1>1 DEF StartScan, ScanRecords, MinerStep, Hold, FreeBuffers, govVars
<1>2. ASSUME \/ NewJob \/ MonitorStep \/ Spurious
             \/ MainStep \/ WorkioEnds \/ JoinLast
             \/ UNCHANGED vars
      PROVE  UNCHANGED govTable
  BY <1>2 DEF NewJob, MonitorStep, Spurious, MainStep, WorkioEnds, JoinLast,
              govVars, vars
<1> QED
  BY <1>1, <1>2 DEF OtherStep

\* A scan runs with a number of nonces.
LEMMA ScanThroughputType == ASSUME GovTypes, NEW t \in Threads
                            PROVE  ScanThroughput(t) \in Nat
BY Bounds DEF GovTypes, ScanThroughput

\* Half of a throughput is one, and no less than the least one.
LEMMA SteppedType == ASSUME NEW n \in Nat
                     PROVE  Stepped(n) \in Nat /\ Stepped(n) >= MinThroughput
BY Bounds DEF Stepped

\* gov_throttle keeps the types.
LEMMA ThrottleTypes ==
    ASSUME GovTypes, NEW t \in Threads, Throttle(t)
    PROVE  /\ intensity' \in [Threads -> Nat]
           /\ base' \in [Threads -> Nat \union {NotThrottled}]
           /\ restart' \in [Threads -> BOOLEAN]
<1> DEFINE current == IF intensity[t] = 0 THEN launched[t] ELSE intensity[t]
<1>1. current \in Nat
  BY DEF GovTypes
<1>2. Stepped(current) \in Nat
  BY <1>1, SteppedType
<1>3. CASE current <= MinThroughput
  BY <1>3 DEF Throttle, GovTypes
<1>4. CASE ~(current <= MinThroughput)
  <2>1. /\ base' = [base EXCEPT ![t] = intensity[t]]
        /\ intensity' = [intensity EXCEPT ![t] = Stepped(current)]
        /\ restart' = [u \in Threads |-> TRUE]
    BY <1>4 DEF Throttle, RestartThreads
  <2> QED
    BY <2>1, <1>2 DEF GovTypes
<1> QED
  BY <1>3, <1>4

\* A cool reading keeps the types.
LEMMA PollCoolTypes ==
    ASSUME GovTypes, NEW t \in Threads, PollCool(t)
    PROVE  /\ calm' \in [Threads -> 0..CoolTicks]
           /\ ticks' \in [Threads -> 0..CoolTicks-1]
           /\ intensity' \in [Threads -> Nat]
           /\ base' \in [Threads -> Nat \union {NotThrottled}]
           /\ restart' \in [Threads -> BOOLEAN]
<1> DEFINE n == IF ~Throttled(t) THEN 0
                ELSE IF calm[t] < CoolTicks THEN calm[t] + 1 ELSE calm[t]
<1>1. calm[t] \in 0..CoolTicks /\ ticks[t] \in 0..CoolTicks-1
  BY DEF GovTypes
<1>2. calm' \in [Threads -> 0..CoolTicks]
  <2>1. calm' = [calm EXCEPT ![t] = n]
    BY DEF PollCool, CountCool
  <2>2. n \in 0..CoolTicks
    BY <1>1, Bounds
  <2> HIDE DEF n
  <2> QED
    BY <2>1, <2>2 DEF GovTypes
<1>3. CASE Throttled(t) /\ Cooled(ticks[t] + 1)
  <2>1. ticks' = [ticks EXCEPT ![t] = 0]
    BY <1>3 DEF PollCool, ClearTicks
  <2>2. 0 \in 0..CoolTicks-1
    BY Bounds
  <2>3. ticks' \in [Threads -> 0..CoolTicks-1]
    BY <2>1, <2>2 DEF GovTypes
  <2>4. base[t] \in Nat
    BY <1>3 DEF Throttled, GovTypes
  <2>5. /\ intensity' = [intensity EXCEPT ![t] = base[t]]
        /\ base' = [base EXCEPT ![t] = NotThrottled]
        /\ restart' = [u \in Threads |-> TRUE]
    BY <1>3 DEF PollCool, Restore, RestartThreads
  <2> QED
    BY <1>2, <2>3, <2>4, <2>5 DEF GovTypes
<1>4. CASE Throttled(t) /\ ~Cooled(ticks[t] + 1)
  <2>1. ticks[t] + 1 \in 0..CoolTicks-1
    BY <1>1, <1>4, Bounds DEF Cooled
  <2>2. ticks' = [ticks EXCEPT ![t] = ticks[t] + 1]
    BY <1>4 DEF PollCool
  <2>3. UNCHANGED <<intensity, base, restart>>
    BY <1>4 DEF PollCool
  <2>4. ticks' \in [Threads -> 0..CoolTicks-1]
    BY <2>1, <2>2 DEF GovTypes
  <2> QED
    BY <1>2, <2>3, <2>4 DEF GovTypes
<1>5. CASE ~Throttled(t)
  BY <1>2, <1>5 DEF PollCool, GovTypes
<1> QED
  BY <1>3, <1>4, <1>5

\* A poll keeps the types.
LEMMA PollTypes == ASSUME GovTypes, Poll
                   PROVE  GovTypes'
<1> DEFINE t == polled
<1>1. t \in Threads
  BY DEF GovTypes
<1>2. /\ polled' \in Threads
      /\ conf' = conf /\ launched' = launched /\ buffers' = buffers
  <2>1. EndPoll
    BY DEF Poll
  <2> QED
    BY <2>1, Bounds DEF EndPoll, scanVars, GovTypes
<1>3. CASE PollHot(t)
  <2>1. /\ calm' \in [Threads -> 0..CoolTicks]
        /\ ticks' \in [Threads -> 0..CoolTicks-1]
    <3>1. calm' = [calm EXCEPT ![t] = 0] /\ ticks' = [ticks EXCEPT ![t] = 0]
      BY <1>3 DEF PollHot, ClearTicks
    <3>2. calm \in [Threads -> 0..CoolTicks] /\ ticks \in [Threads -> 0..CoolTicks-1]
      BY DEF GovTypes
    <3>3. 0 \in 0..CoolTicks /\ 0 \in 0..CoolTicks-1
      BY Bounds
    <3> HIDE DEF t
    <3> QED
      BY ONLY <3>1, <3>2, <3>3
  <2>2. /\ intensity' \in [Threads -> Nat]
        /\ base' \in [Threads -> Nat \union {NotThrottled}]
        /\ restart' \in [Threads -> BOOLEAN]
    BY <1>3, <1>1, ThrottleTypes DEF PollHot, GovTypes
  <2> QED
    BY <2>1, <2>2, <1>2 DEF GovTypes
<1>4. CASE PollCool(t)
  BY <1>4, <1>1, <1>2, PollCoolTypes DEF GovTypes
<1>5. CASE PollFails(t)
  BY <1>5, <1>2 DEF PollFails, GovTypes
<1> QED
  BY <1>3, <1>4, <1>5 DEF Poll

\* The types of the monitor's part are kept by its own steps...
LEMMA MonStepTypes ==
    ASSUME Mon!MonTypes,
           \/ \E t \in Threads : Mon!StartScan(t) \/ Mon!MinerStep(t)
           \/ Mon!MonStep \/ Mon!Spurious \/ Mon!MainStep
           \/ Mon!WorkioEnds \/ Mon!JoinMonitor \/ Mon!Restarted
    PROVE  Mon!MonTypes'
<1> USE Bounds DEF Mon!MonTypes
<1>1. ASSUME NEW t \in Threads, Mon!StartScan(t)
      PROVE  Mon!MonTypes'
  <2>1. /\ miner' \in [Threads -> {"new", "idle", "scan", "gone"}]
        /\ warm' \in [Threads -> BOOLEAN] /\ restart' \in [Threads -> BOOLEAN]
    BY <1>1 DEF Mon!StartScan
  <2>2. /\ flag' \in [Threads -> BOOLEAN]
        /\ mon' \in {"top", "tested", "wait", "lost", "sample", "gone"}
    BY <1>1 DEF Mon!StartScan, Mon!Signal
  <2>3. UNCHANGED <<card, loops, abort, main, at>>
    BY <1>1 DEF Mon!StartScan, Mon!mainVars
  <2> QED
    BY <2>1, <2>2, <2>3
<1>2. ASSUME NEW t \in Threads, Mon!MinerStep(t)
      PROVE  Mon!MonTypes'
  <2>1. miner' \in [Threads -> {"new", "idle", "scan", "gone"}]
    BY <1>2 DEF Mon!MinerStep, Mon!EndScan, Mon!EndShortScan, Mon!Leave
  <2>2. flag' \in [Threads -> BOOLEAN] /\ abort' \in BOOLEAN
    BY <1>2 DEF Mon!MinerStep, Mon!EndScan, Mon!EndShortScan, Mon!Leave
  <2>3. UNCHANGED <<warm, restart, mon, card, loops, main, at>>
    BY <1>2 DEF Mon!MinerStep, Mon!EndScan, Mon!EndShortScan, Mon!Leave,
                Mon!monVars, Mon!mainVars
  <2> QED
    BY <2>1, <2>2, <2>3
<1>3. CASE Mon!MonStep
  <2>1. CASE Mon!Test
    BY <2>1 DEF Mon!Test, Mon!minerVars, Mon!mainVars
  <2>2. CASE Mon!Wait
    BY <2>2 DEF Mon!Wait, Mon!minerVars, Mon!mainVars
  <2>3. CASE Mon!Sample
    BY <2>3 DEF Mon!Sample, Mon!GoesOn, Mon!minerVars, Mon!mainVars
  <2> QED
    BY <1>3, <2>1, <2>2, <2>3 DEF Mon!MonStep
<1>4. CASE Mon!Spurious
  BY <1>4 DEF Mon!Spurious, Mon!minerVars, Mon!mainVars
<1>5. CASE Mon!MainStep
  <2>1. CASE Mon!StartMiner
    BY <2>1 DEF Mon!StartMiner, Mon!monVars
  <2>2. CASE Mon!WakeMonitor
    BY <2>2 DEF Mon!WakeMonitor, Mon!Signal, Mon!minerVars
  <2>3. CASE Mon!JoinMiner
    BY <2>3 DEF Mon!JoinMiner, Mon!minerVars, Mon!monVars
  <2> QED
    BY <1>5, <2>1, <2>2, <2>3 DEF Mon!MainStep
<1>6. CASE Mon!WorkioEnds \/ Mon!JoinMonitor \/ Mon!Restarted
  BY <1>6 DEF Mon!WorkioEnds, Mon!JoinMonitor, Mon!Restarted, Mon!minerVars,
              Mon!monVars, Mon!mainVars
<1> QED
  BY <1>1, <1>2, <1>3, <1>4, <1>5, <1>6

\* ...and every step keeps all types.
LEMMA TypesStep == ASSUME TypeOK, [Next]_vars
                   PROVE  TypeOK'
<1> USE DEF TypeOK
<1>1. ASSUME NEW t \in Threads, StartScan(t)
      PROVE  TypeOK'
  <2>1. Mon!MonTypes'
    BY <1>1, MonStepTypes DEF StartScan
  <2>2. ScanThroughput(t) \in Nat
    BY ScanThroughputType
  <2>3. launched' \in [Threads -> Nat] /\ buffers' \in [Threads -> Nat]
    BY <1>1, <2>2 DEF StartScan, ScanRecords, GovTypes
  <2>4. restart' \in [Threads -> BOOLEAN]
    BY <2>1 DEF Mon!MonTypes
  <2>5. UNCHANGED <<conf, intensity, base, ticks, polled, calm>>
    BY <1>1 DEF StartScan, ScanRecords, govTable
  <2> QED
    BY <2>1, <2>3, <2>4, <2>5 DEF GovTypes
<1>2. ASSUME NEW t \in Threads, MinerStep(t)
      PROVE  TypeOK'
  <2>1. Mon!MonTypes'
    BY <1>2, MonStepTypes DEF MinerStep
  <2> QED
    BY <1>2, <2>1 DEF MinerStep, govVars, govTable, scanVars, GovTypes, Mon!MonTypes
<1>3. ASSUME NEW t \in Threads, Hold(t)
      PROVE  TypeOK'
  BY <1>3 DEF Hold, FreeBuffers, govTable, monVars, GovTypes, Mon!MonTypes
<1>4. CASE NewJob \/ MonitorStep \/ Spurious \/ MainStep \/ WorkioEnds \/ JoinLast
  <2>1. Mon!MonTypes'
    BY <1>4, MonStepTypes
       DEF NewJob, MonitorStep, Spurious, MainStep, WorkioEnds, JoinLast
  <2>2. UNCHANGED govVars
    BY <1>4 DEF NewJob, MonitorStep, Spurious, MainStep, WorkioEnds, JoinLast
  <2> QED
    BY <2>1, <2>2 DEF govVars, govTable, scanVars, GovTypes, Mon!MonTypes
<1>5. CASE GovernorPoll
  <2>1. GovTypes'
    BY <1>5, PollTypes DEF GovernorPoll
  <2> QED
    BY <1>5, <2>1 DEF GovernorPoll, monVars, GovTypes, Mon!MonTypes
<1>6. CASE UNCHANGED vars
  BY <1>6 DEF vars, govVars, govTable, scanVars, monVars, GovTypes, Mon!MonTypes
<1> QED
  BY <1>1, <1>2, <1>3, <1>4, <1>5, <1>6 DEF Next

\* All variables keep their types: among others the ticks stay below the
\* number that gives the intensity back, and the monitor never counts below 0.
THEOREM TypeCorrect == Spec => []TypeOK
<1>1. Init => TypeOK
  <2> SUFFICES ASSUME Init PROVE TypeOK
    OBVIOUS
  <2>1. GovTypes
    <3>1. conf \in [Threads -> Configured] /\ intensity \in [Threads -> Nat]
      BY Bounds DEF Init, GovInit
    <3>2. /\ 0 \in 0..CoolTicks-1 /\ 0 \in 0..CoolTicks /\ polled \in Threads
          /\ base \in [Threads -> Nat \union {NotThrottled}]
      BY Bounds DEF Init, GovInit
    <3>3. ticks \in [Threads -> 0..CoolTicks-1] /\ calm \in [Threads -> 0..CoolTicks]
      BY <3>2 DEF Init, GovInit
    <3>4. /\ launched \in [Threads -> Nat] /\ buffers \in [Threads -> Nat]
          /\ restart \in [Threads -> BOOLEAN]
      BY DEF Init, GovInit
    <3> QED
      BY <3>1, <3>2, <3>3, <3>4 DEF GovTypes
  <2>2. Mon!MonTypes
    <3>1. miner \in [Threads -> {"new", "idle", "scan", "gone"}]
      BY DEF Init, Mon!Init
    <3>2. {warm, flag, restart} \subseteq [Threads -> BOOLEAN]
      BY DEF Init, Mon!Init
    <3>3. card \in Threads /\ at \in Threads /\ loops \in 0..MaxLoops
      BY Bounds DEF Init, Mon!Init
    <3> QED
      BY <3>1, <3>2, <3>3 DEF Init, Mon!Init, Mon!MonTypes
  <2> QED
    BY <2>1, <2>2 DEF TypeOK
<1>2. TypeOK /\ [Next]_vars => TypeOK'
  BY TypesStep
<1> QED
  BY <1>1, <1>2, PTL DEF Spec
-----------------------------------------------------------------------------
\* What NothingLost says of one thread.
NotLost(t) == IF Throttled(t)
                THEN /\ base[t] = conf[t]
                     /\ intensity[t] >= MinThroughput
                     /\ conf[t] # 0 => intensity[t] = Stepped(conf[t])
                ELSE intensity[t] = conf[t]

\* A thread whose entries stay is as it was.
LEMMA NotLostStays ==
    ASSUME NEW t \in Threads, NotLost(t),
           base'[t] = base[t], conf'[t] = conf[t], intensity'[t] = intensity[t]
    PROVE  NotLost(t)'
BY DEF NotLost, Throttled, Stepped

\* gov_throttle keeps the configured value in the base.
LEMMA ThrottleKeeps ==
    ASSUME GovTypes, NEW t \in Threads, NotLost(t), ~Throttled(t), Throttle(t),
           UNCHANGED conf
    PROVE  NotLost(t)'
<1> DEFINE current == IF intensity[t] = 0 THEN launched[t] ELSE intensity[t]
<1>1. intensity[t] = conf[t] /\ conf[t] \in Nat /\ current \in Nat
  BY Bounds DEF NotLost, GovTypes
<1>2. CASE current <= MinThroughput
  BY <1>2, NotLostStays DEF Throttle
<1>3. CASE ~(current <= MinThroughput)
  <2>1. base'[t] = conf[t] /\ intensity'[t] = Stepped(current)
    BY <1>3, <1>1 DEF Throttle, GovTypes
  <2>2. intensity'[t] >= MinThroughput
    BY <2>1, <1>1, SteppedType
  <2>3. conf[t] # 0 => intensity'[t] = Stepped(conf[t])
    BY <2>1, <1>1
  <2> QED
    BY <2>1, <2>2, <2>3, <1>1, Bounds DEF NotLost, Throttled, Stepped
<1> QED
  BY <1>2, <1>3

\* A poll loses nothing.
LEMMA PollLosesNothing ==
    ASSUME GovTypes, NothingLost, Poll
    PROVE  NothingLost'
<1> SUFFICES ASSUME NEW t \in Threads
             PROVE  NotLost(t)'
  BY DEF NothingLost, NotLost
<1>1. NotLost(t) /\ polled \in Threads
  BY DEF NothingLost, NotLost, GovTypes
<1>2. UNCHANGED conf
  BY DEF Poll, EndPoll
<1>3. CASE t # polled
  <2>1. base'[t] = base[t] /\ intensity'[t] = intensity[t]
    BY <1>3, <1>1 DEF Poll, PollHot, PollCool, PollFails, Throttle, Restore, GovTypes
  <2> QED
    BY <2>1, <1>1, <1>2, NotLostStays
<1>4. CASE t = polled
  <2>1. CASE PollHot(t)
    <3>1. CASE Throttled(t)
      BY <3>1, <2>1, <1>1, <1>2, NotLostStays DEF PollHot
    <3>2. CASE ~Throttled(t)
      BY <3>2, <2>1, <1>1, <1>2, ThrottleKeeps DEF PollHot
    <3> QED
      BY <3>1, <3>2
  <2>2. CASE PollCool(t)
    <3>1. CASE Throttled(t) /\ Cooled(ticks[t] + 1)
      <4>1. base'[t] = NotThrottled /\ intensity'[t] = base[t]
        BY <3>1, <2>2 DEF PollCool, Restore, GovTypes
      <4> QED
        BY <4>1, <3>1, <1>1, <1>2 DEF NotLost, Throttled
    <3>2. CASE ~(Throttled(t) /\ Cooled(ticks[t] + 1))
      BY <3>2, <2>2, <1>1, <1>2, NotLostStays DEF PollCool
    <3> QED
      BY <3>1, <3>2
  <2>3. CASE PollFails(t)
    BY <2>3, <1>1, <1>2, NotLostStays DEF PollFails
  <2> QED
    BY <1>4, <2>1, <2>2, <2>3 DEF Poll
<1> QED
  BY <1>3, <1>4

\* For any temperatures, failing readings, scans and restarts, the intensity
\* of the command line is in force or kept in the base, and halved once only.
THEOREM NothingLostHolds == Spec => []NothingLost
<1>1. Init => NothingLost
  BY DEF Init, GovInit, NothingLost, Throttled
<1>2. TypeOK /\ NothingLost /\ [Next]_vars => NothingLost'
  <2> SUFFICES ASSUME TypeOK, NothingLost, [Next]_vars
               PROVE  NothingLost'
    OBVIOUS
  <2>1. CASE GovernorPoll
    BY <2>1, PollLosesNothing DEF GovernorPoll, TypeOK
  <2>2. CASE OtherStep \/ UNCHANGED vars
    <3>1. UNCHANGED <<conf, intensity, base>>
      BY <2>2, OthersLeaveTable DEF govTable
    <3> QED
      BY <3>1 DEF NothingLost, Throttled, Stepped
  <2> QED
    BY <2>1, <2>2 DEF Next, OtherStep
<1> QED
  BY <1>1, <1>2, TypeCorrect, PTL DEF Spec
-----------------------------------------------------------------------------
\* A poll that gives an intensity back is the last of enough cool ones, and
\* the ticks go on counting them.
LEMMA PollCounts ==
    ASSUME GovTypes, TicksAreCalm, Poll, NEW t \in Threads
    PROVE  /\ Throttled(t)' => ticks'[t] = calm'[t]
           /\ Throttled(t) /\ base'[t] = NotThrottled => calm'[t] = CoolTicks
<1>1. polled \in Threads /\ ticks[t] \in 0..CoolTicks-1 /\ calm[t] \in 0..CoolTicks
  BY DEF GovTypes
<1>2. Throttled(t) => ticks[t] = calm[t]
  BY DEF TicksAreCalm
<1>3. CASE t # polled
  <2>1. base'[t] = base[t] /\ ticks'[t] = ticks[t] /\ calm'[t] = calm[t]
    BY <1>3, <1>1 DEF Poll, PollHot, PollCool, PollFails, ClearTicks, CountCool,
                      Throttle, Restore, GovTypes
  <2> QED
    BY <2>1, <1>2 DEF Throttled
<1>4. CASE t = polled
  <2>1. CASE PollHot(t)
    <3>1. ticks'[t] = 0 /\ calm'[t] = 0
      BY <2>1 DEF PollHot, ClearTicks, GovTypes
    <3>2. Throttled(t) => base' = base
      BY <2>1 DEF PollHot
    <3> QED
      BY <3>1, <3>2 DEF Throttled
  <2>2. CASE PollCool(t)
    <3>1. CASE Throttled(t)
      <4>1. calm'[t] = IF calm[t] < CoolTicks THEN calm[t] + 1 ELSE calm[t]
        BY <3>1, <2>2 DEF PollCool, CountCool, GovTypes
      <4>2. calm'[t] = ticks[t] + 1
        BY <4>1, <3>1, <1>1, <1>2, Bounds
      <4>3. CASE Cooled(ticks[t] + 1)
        <5>1. base'[t] = NotThrottled
          BY <4>3, <3>1, <2>2 DEF PollCool, Restore, GovTypes
        <5>2. ticks[t] + 1 = CoolTicks
          BY <4>3, <1>1, Bounds DEF Cooled
        <5> QED
          BY <5>1, <5>2, <4>2 DEF Throttled
      <4>4. CASE ~Cooled(ticks[t] + 1)
        <5>1. base' = base /\ ticks'[t] = ticks[t] + 1
          BY <4>4, <3>1, <2>2 DEF PollCool, GovTypes
        <5> QED
          BY <5>1, <4>2, <3>1 DEF Throttled
      <4> QED
        BY <4>3, <4>4
    <3>2. CASE ~Throttled(t)
      <4>1. base' = base
        BY <3>2, <2>2 DEF PollCool
      <4> QED
        BY <4>1, <3>2 DEF Throttled
    <3> QED
      BY <3>1, <3>2
  <2>3. CASE PollFails(t)
    BY <2>3, <1>2 DEF PollFails, Throttled
  <2> QED
    BY <1>4, <2>1, <2>2, <2>3 DEF Poll
<1> QED
  BY <1>3, <1>4

\* gov_restore happens only after CoolTicks cool readings with no hot one
\* between them, for any order of polls, failed readings, scans and restarts.
THEOREM RestoreOnlyCoolHolds == Spec => RestoreOnlyCool
<1> DEFINE Cool == \A t \in Threads :
             Throttled(t) /\ base'[t] = NotThrottled => calm'[t] = CoolTicks
<1>1. Init => TicksAreCalm
  BY DEF Init, GovInit, TicksAreCalm, Throttled
<1>2. TypeOK /\ TicksAreCalm /\ [Next]_vars => TicksAreCalm' /\ [Cool]_base
  <2> SUFFICES ASSUME TypeOK, TicksAreCalm, [Next]_vars
               PROVE  TicksAreCalm' /\ [Cool]_base
    OBVIOUS
  <2>1. CASE GovernorPoll
    BY <2>1, PollCounts DEF GovernorPoll, TypeOK, TicksAreCalm
  <2>2. CASE OtherStep \/ UNCHANGED vars
    <3>1. UNCHANGED <<base, ticks, calm>>
      BY <2>2, OthersLeaveTable DEF govTable
    <3> QED
      BY <3>1 DEF TicksAreCalm, Throttled
  <2> QED
    BY <2>1, <2>2 DEF Next, OtherStep
<1> QED
  BY <1>1, <1>2, TypeCorrect, PTL DEF Spec, RestoreOnlyCool
=============================================================================
