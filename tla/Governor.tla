------------------------------ MODULE Governor ------------------------------
(***************************************************************************)
(* The thermal governor of nvml.cpp.  It polls the temperature of every    *)
(* card, halves the intensity of a hot thread and gives the old one back   *)
(* after enough cool readings.  The miner threads read gpus_intensity at   *)
(* every scan, and allocate the buffers of their kernel at the first one.  *)
(*                                                                         *)
(* A round of the poll loop is one step per thread, with the sleep between *)
(* two rounds somewhere in between.  The API thread runs (the default), so *)
(* that every scan records its throughput; gpu_threads is 1.               *)
(***************************************************************************)
EXTENDS Naturals

CONSTANTS N,             \* opt_n_threads
          Configured,    \* the values of gpus_intensity at the start
          Default,       \* the algorithm's own throughput
          MinThroughput, \* GOV_MIN_THROUGHPUT
          CoolTicks,     \* GOV_COOL_TICKS
          Heated,        \* the threads whose card may get hot
          Failing,       \* the threads whose card may not answer
          NotThrottled   \* UINT32_MAX in gov_intensity_base

Threads == 0..N-1

ASSUME GovernorAssumption ==
    /\ {N, Default, MinThroughput, CoolTicks} \subseteq Nat \ {0}
    /\ Configured \subseteq Nat
    /\ \A c \in Configured : c = 0 \/ c >= MinThroughput
    /\ Default >= MinThroughput
    /\ Heated \union Failing \subseteq Threads
    /\ NotThrottled \notin Nat

VARIABLES conf,      \* the intensities of the command line, 0 for the default
          intensity, \* gpus_intensity
          base,      \* gov_intensity_base
          ticks,     \* gov_cool_ticks
          launched,  \* cgpu->throughput
          buffers,   \* what the kernel's buffers hold, 0: not initialised
          polled,    \* thr_id of the poll loop
          calm,      \* history: cool readings of a throttled thread since the last
                     \* hot one
          restart    \* work_restart[].restart

govTable == <<conf, intensity, base, ticks, polled, calm>>
scanVars == <<launched, buffers>>
govVars == <<govTable, scanVars>>

Throttled(t) == base[t] # NotThrottled

GovInit == /\ conf \in [Threads -> Configured]
           /\ intensity = conf
           /\ base = [t \in Threads |-> NotThrottled]
           /\ ticks = [t \in Threads |-> 0]
           /\ launched = [t \in Threads |-> 0]
           /\ buffers = [t \in Threads |-> 0]
           /\ polled = 0
           /\ calm = [t \in Threads |-> 0]
           /\ restart = [t \in Threads |-> FALSE]
-----------------------------------------------------------------------------
\* A scan takes the intensity as it is now.
ScanThroughput(t) == IF intensity[t] = 0 THEN Default ELSE intensity[t]

\* A scan records its throughput; the first one allocates the kernel's
\* buffers for it.
ScanRecords(t) ==
    /\ launched' = [launched EXCEPT ![t] = ScanThroughput(t)]
    /\ buffers' = [buffers EXCEPT ![t] = IF @ = 0 THEN ScanThroughput(t) ELSE @]
    /\ UNCHANGED govTable

\* A thread that conditional mining keeps waiting frees its buffers.
FreeBuffers(t) == /\ buffers' = [buffers EXCEPT ![t] = 0]
                  /\ UNCHANGED <<launched, govTable>>

RestartThreads == restart' = [t \in Threads |-> TRUE]

ClearTicks(t) == ticks' = [ticks EXCEPT ![t] = 0]

\* What a throttled thread runs with.
Stepped(n) == IF n \div 2 < MinThroughput THEN MinThroughput ELSE n \div 2

\* gov_throttle: 0 is the throughput of the last scan.
Throttle(t) ==
    LET current == IF intensity[t] = 0 THEN launched[t] ELSE intensity[t]
    IN IF current <= MinThroughput
         THEN UNCHANGED <<intensity, base, restart>>
         ELSE /\ base' = [base EXCEPT ![t] = intensity[t]]
              /\ intensity' = [intensity EXCEPT ![t] = Stepped(current)]
              /\ RestartThreads

\* Mutant: the thread still counts as throttled.
RestoreKeepsBase(t) ==
    /\ intensity' = [intensity EXCEPT ![t] = base[t]]
    /\ UNCHANGED base
    /\ RestartThreads

\* gov_restore.
Restore(t) ==
    /\ intensity' = [intensity EXCEPT ![t] = base[t]]
    /\ base' = [base EXCEPT ![t] = NotThrottled]
    /\ RestartThreads

\* Counted while a thread is throttled.
CountCool(t) == calm' = [calm EXCEPT ![t] =
    IF ~Throttled(t) THEN 0 ELSE IF @ < CoolTicks THEN @ + 1 ELSE @]

\* Mutant: a thread that is hot again keeps its ticks, as an unreadable one.
HotKeepsTicks(t) == /\ calm' = [calm EXCEPT ![t] = 0]
                    /\ IF Throttled(t) THEN UNCHANGED <<ticks, intensity, base, restart>>
                       ELSE ClearTicks(t) /\ Throttle(t)

\* Mutant: a hot thread is throttled at every poll.
HotThrottles(t) == /\ calm' = [calm EXCEPT ![t] = 0]
                   /\ ClearTicks(t)
                   /\ Throttle(t)

\* A reading at or above the limit.
PollHot(t) == /\ calm' = [calm EXCEPT ![t] = 0]
              /\ ClearTicks(t)
              /\ IF Throttled(t) THEN UNCHANGED <<intensity, base, restart>>
                 ELSE Throttle(t)

\* Have the ticks reached the number it takes?
Cooled(n) == n >= CoolTicks

\* A reading below it.
PollCool(t) ==
    /\ CountCool(t)
    /\ IF Throttled(t) /\ Cooled(ticks[t] + 1)
       THEN ClearTicks(t) /\ Restore(t)
       ELSE /\ ticks' = IF Throttled(t) THEN [ticks EXCEPT ![t] = @ + 1] ELSE ticks
            /\ UNCHANGED <<intensity, base, restart>>

\* A card that cannot be read is left as it is.
PollFails(t) == UNCHANGED <<calm, intensity, base, ticks, restart>>

\* The next thread of the round, or the first one of the next round.
EndPoll == /\ polled' = (polled + 1) % N
           /\ UNCHANGED <<conf, scanVars>>

\* One thread of a round, with any temperature its card may have.
Poll == \/ polled \in Heated /\ PollHot(polled) /\ EndPoll
        \/ PollCool(polled) /\ EndPoll
        \/ polled \in Failing /\ PollFails(polled) /\ EndPoll
-----------------------------------------------------------------------------
\* The types of the governor's tables.
GovTypes ==
    /\ conf \in [Threads -> Configured]
    /\ intensity \in [Threads -> Nat]
    /\ base \in [Threads -> Nat \union {NotThrottled}]
    /\ ticks \in [Threads -> 0..CoolTicks-1]
    /\ {launched, buffers} \subseteq [Threads -> Nat]
    /\ polled \in Threads
    /\ calm \in [Threads -> 0..CoolTicks]
    /\ restart \in [Threads -> BOOLEAN]

\* nvml.cpp:2205 and 2239: whatever the order of polls, failed readings and
\* scans, the configured intensity is never lost: it is in force or kept in
\* the base, and a configured one is halved once, however long it stays hot.
NothingLost ==
    \A t \in Threads :
       IF Throttled(t)
         THEN /\ base[t] = conf[t]
              /\ intensity[t] >= MinThroughput
              /\ conf[t] # 0 => intensity[t] = Stepped(conf[t])
         ELSE intensity[t] = conf[t]

\* nvml.h:232: a thread is restored only after CoolTicks cool readings with
\* no hot one among them.  Readings that fail may lie between.
RestoreOnlyCool ==
    [][\A t \in Threads :
          Throttled(t) /\ base'[t] = NotThrottled => calm'[t] = CoolTicks]_base

\* nvml.cpp:2322 "the worst outcome is one kernel launch executing with a
\* stale intensity value": no kernel is launched for more nonces than its
\* buffers were allocated for.
BuffersSuffice ==
    \A t \in Threads : buffers[t] # 0 => launched[t] <= buffers[t]
=============================================================================
