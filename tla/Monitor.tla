------------------------------ MODULE Monitor ------------------------------
(***************************************************************************)
(* The sampling of the cards: a miner thread raises its sampling_flag and  *)
(* signals when a scan starts; monitor_thread of nvml.cpp takes one card   *)
(* after the other, waits for the signal of its thread without a predicate *)
(* and samples until the flag falls; main starts them, and signals and     *)
(* joins them at the end.                                                  *)
(*                                                                         *)
(* The wait and the signal are those of a condition variable: a signal     *)
(* wakes who waits at that moment, and a wait may wake without one.  NVML  *)
(* answers, opt_quiet is off.  The rest of a miner thread is left out:     *)
(* anything may raise its restart flag, and it ends once it sees           *)
(* abort_flag (module WorkIO has the requests it may wait for).            *)
(***************************************************************************)
EXTENDS Naturals

CONSTANTS N,        \* opt_n_threads
          MaxLoops  \* max_loops

Threads == 0..N-1

VARIABLES miner,   \* "new", "idle" (before a scan), "scan" or "gone"
          warm,    \* loopcnt > 1
          flag,    \* monitor.sampling_flag
          restart, \* work_restart[].restart
          mon,     \* the monitor: "top", "tested" (abort_flag was off), "wait",
                   \* "lost", "sample" or "gone"
          card,    \* its thr_id
          loops,   \* its max_loops
          abort,   \* abort_flag
          main,    \* "start", "run", "signal", "join", "last" or "exit"
          at       \* the thread main starts, signals or joins

minerVars == <<miner, warm, flag>>
monVars == <<mon, card, loops>>
mainVars == <<main, at>>
vars == <<minerVars, restart, monVars, abort, mainVars>>

Init == /\ miner = [t \in Threads |-> "new"]
        /\ warm = [t \in Threads |-> FALSE]
        /\ flag = [t \in Threads |-> FALSE]
        /\ restart = [t \in Threads |-> FALSE]
        /\ mon = "top"
        /\ card = N - 1
        /\ loops = 0
        /\ abort = FALSE
        /\ main = "start"
        /\ at = 0
-----------------------------------------------------------------------------
\* A signal to the condition of thread t.
Signal(t) == mon' = IF mon = "wait" /\ card = t THEN "sample" ELSE mon

\* Mutant: a thread that starts a scan does not signal.
StartScanSilently(t) ==
    /\ miner[t] = "idle"
    /\ miner' = [miner EXCEPT ![t] = "scan"]
    /\ warm' = [warm EXCEPT ![t] = TRUE]
    /\ restart' = [restart EXCEPT ![t] = FALSE]
    /\ flag' = [flag EXCEPT ![t] = @ \/ warm[t]]
    /\ UNCHANGED <<monVars, abort, mainVars>>

\* From the second scan on a thread asks to be sampled.
StartScan(t) ==
    /\ miner[t] = "idle"
    /\ miner' = [miner EXCEPT ![t] = "scan"]
    /\ warm' = [warm EXCEPT ![t] = TRUE]
    /\ restart' = [restart EXCEPT ![t] = FALSE]
    /\ IF warm[t] THEN flag' = [flag EXCEPT ![t] = TRUE] /\ Signal(t)
       ELSE UNCHANGED <<flag, mon>>
    /\ UNCHANGED <<card, loops, abort, mainVars>>

\* Only a scan of a second or more that was not told to restart ends the
\* sampling.
EndScan(t) ==
    /\ miner[t] = "scan"
    /\ miner' = [miner EXCEPT ![t] = IF abort THEN "gone" ELSE "idle"]
    /\ flag' = IF abort \/ restart[t] THEN flag
               ELSE [flag EXCEPT ![t] = FALSE]
    /\ UNCHANGED <<warm, restart, monVars, abort, mainVars>>

\* The same for a scan of less than a second.
EndShortScan(t) ==
    /\ miner[t] = "scan"
    /\ miner' = [miner EXCEPT ![t] = IF abort THEN "gone" ELSE "idle"]
    /\ UNCHANGED <<warm, flag, restart, monVars, abort, mainVars>>

\* The loop ends at abort_flag, which the time limit raises itself.
Leave(t) == /\ miner[t] = "idle"
            /\ abort' = TRUE
            /\ miner' = [miner EXCEPT ![t] = "gone"]
            /\ UNCHANGED <<warm, flag, restart, monVars, mainVars>>

\* New jobs (and the governor) raise the restart flags.
Restarted == /\ restart' = [t \in Threads |-> TRUE]
             /\ UNCHANGED <<minerVars, monVars, abort, mainVars>>
-----------------------------------------------------------------------------
\* The test of the loop, and the next card.
Test == /\ mon = "top"
        /\ IF abort THEN mon' = "gone" /\ UNCHANGED card
           ELSE mon' = "tested" /\ card' = (card + 1) % N
        /\ UNCHANGED <<minerVars, restart, loops, abort, mainVars>>

\* Entering pthread_cond_wait.  Main makes the condition just before it starts
\* the miner thread: a wait entered before that may never be signalled.
Wait == /\ mon = "tested"
        /\ loops' = MaxLoops
        /\ \/ mon' = "wait"
           \/ miner[card] = "new" /\ mon' = "lost"
        /\ UNCHANGED <<minerVars, restart, card, abort, mainVars>>

\* The wait returns without a signal.
Spurious == /\ mon \in {"wait", "lost"}
            /\ mon' = "sample"
            /\ UNCHANGED <<minerVars, restart, card, loops, abort, mainVars>>

\* The samples go on while the flag is up, MaxLoops times at most.
GoesOn == flag[card] /\ loops > 1

\* One round of samples and the test after it.
Sample == /\ mon = "sample"
          /\ IF abort THEN mon' = "gone" /\ UNCHANGED loops
             ELSE IF GoesOn THEN loops' = loops - 1 /\ UNCHANGED mon
             ELSE loops' = 0 /\ mon' = "top"
          /\ UNCHANGED <<minerVars, restart, card, abort, mainVars>>
-----------------------------------------------------------------------------
\* Main makes the condition of a thread and starts it.
StartMiner == /\ main = "start"
              /\ miner' = [miner EXCEPT ![at] = "idle"]
              /\ IF at = N - 1 THEN main' = "run" /\ at' = 0
                 ELSE at' = at + 1 /\ UNCHANGED main
              /\ UNCHANGED <<warm, flag, restart, monVars, abort>>

\* Workio has ended: a thread that left has told it to, or it was lost.
WorkioEnds == /\ main = "run"
              /\ abort' = TRUE
              /\ main' = "signal"
              /\ UNCHANGED <<minerVars, restart, monVars, at>>

\* Mutant: main joins the threads without waking the monitor.
JoinSilently == /\ main = "signal"
                /\ main' = "join"
                /\ UNCHANGED <<minerVars, restart, monVars, abort, at>>

\* Main wakes the monitor from its wait for a thread...
WakeMonitor == /\ main = "signal"
               /\ Signal(at)
               /\ main' = "join"
               /\ UNCHANGED <<minerVars, restart, card, loops, abort, at>>

\* ...and joins that thread.
JoinMiner == /\ main = "join"
             /\ miner[at] = "gone"
             /\ IF at = N - 1 THEN main' = "last" /\ UNCHANGED at
                ELSE main' = "signal" /\ at' = at + 1
             /\ UNCHANGED <<minerVars, restart, monVars, abort>>

\* The monitor and the governor are joined last.
JoinMonitor == /\ main = "last"
               /\ mon = "gone"
               /\ main' = "exit"
               /\ UNCHANGED <<minerVars, restart, monVars, abort, at>>

MinerStep(t) == EndScan(t) \/ EndShortScan(t) \/ Leave(t)
MonStep == Test \/ Wait \/ Sample
MainStep == StartMiner \/ WakeMonitor \/ JoinMiner
-----------------------------------------------------------------------------
\* The types of the variables of the monitor and of main.
MonTypes ==
    /\ miner \in [Threads -> {"new", "idle", "scan", "gone"}]
    /\ {warm, flag, restart} \subseteq [Threads -> BOOLEAN]
    /\ mon \in {"top", "tested", "wait", "lost", "sample", "gone"}
    /\ card \in Threads
    /\ loops \in 0..MaxLoops
    /\ abort \in BOOLEAN
    /\ main \in {"start", "run", "signal", "join", "last", "exit"}
    /\ at \in Threads
=============================================================================
