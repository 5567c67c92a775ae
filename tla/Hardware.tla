------------------------------ MODULE Hardware ------------------------------
(***************************************************************************)
(* The two hardware threads of nvml.cpp beside the miner threads: every    *)
(* scan takes the intensity the governor left and asks the monitor for     *)
(* samples, and the governor's restart flags end scans, which then leave   *)
(* their sampling_flag up.                                                 *)
(***************************************************************************)
EXTENDS Governor

CONSTANTS MaxLoops,   \* max_loops of the monitor
          Conditional \* the threads that meet a limit of conditional mining (--max-temp)

ASSUME HardwareAssumption == MaxLoops \in Nat \ {0} /\ Conditional \subseteq Threads

VARIABLES miner, warm, flag, mon, card, loops, abort, main, at

Mon == INSTANCE Monitor

monVars == <<miner, warm, flag, mon, card, loops, abort, main, at>>
vars == <<govVars, monVars, restart>>

Init == GovInit /\ Mon!Init

\* A scan reads the intensity and wakes the monitor.
StartScan(t) == Mon!StartScan(t) /\ ScanRecords(t)

MinerStep(t) == Mon!MinerStep(t) /\ UNCHANGED govVars

\* Conditional mining frees the kernel of a waiting thread.
Hold(t) == /\ t \in Conditional
           /\ miner[t] = "idle"
           /\ FreeBuffers(t)
           /\ UNCHANGED <<monVars, restart>>

\* A new job.
NewJob == ~abort /\ Mon!Restarted /\ UNCHANGED govVars

MonitorStep == Mon!MonStep /\ UNCHANGED govVars
Spurious == Mon!Spurious /\ UNCHANGED govVars

\* A round of the governor is not cut short; it ends when abort_flag is seen
\* between two.
GovernorPoll == /\ ~abort \/ polled # 0
                /\ Poll
                /\ UNCHANGED monVars

MainStep == Mon!MainStep /\ UNCHANGED govVars
WorkioEnds == Mon!WorkioEnds /\ UNCHANGED govVars

\* Main joins the governor after the monitor.
JoinLast == Mon!JoinMonitor /\ polled = 0 /\ UNCHANGED govVars

Next == \/ \E t \in Threads : StartScan(t) \/ MinerStep(t) \/ Hold(t)
        \/ NewJob \/ MonitorStep \/ Spurious \/ GovernorPoll
        \/ MainStep \/ WorkioEnds \/ JoinLast

Spec == Init /\ [][Next]_vars

ThreadStep(t) == StartScan(t) \/ MinerStep(t)
MainGoesOn == MainStep \/ (abort /\ WorkioEnds) \/ JoinLast

\* Threads run, kernels come back, and workio ends when a thread that leaves
\* told it to.
Fairness == /\ \A t \in Threads : WF_vars(ThreadStep(t))
            /\ WF_vars(MonitorStep) /\ WF_vars(GovernorPoll) /\ WF_vars(MainGoesOn)

FairSpec == Spec /\ Fairness
-----------------------------------------------------------------------------
\* The types of all variables.
TypeOK == GovTypes /\ Mon!MonTypes

\* A thread gets its intensity back once all readings of its card are cool,
\* even when the cards of others cannot be read any more.
Restores ==
    \A t \in Heated :
       <>[]~abort /\ <>[][GovernorPoll /\ polled = t => PollCool(t)]_vars
          => <>[](base[t] = NotThrottled)

\* While the program mines every card is sampled again and again, although
\* restarted scans leave their sampling_flag up, unless the monitor began to
\* wait before its condition was made.
SampledAgain ==
    \A t \in Threads : []<>(mon = "top" /\ card = t) \/ <>(abort \/ mon = "lost")

\* Workio's end brings the program down, wherever monitor, governor and miner
\* threads are, unless the monitor stands between the test of abort_flag and
\* its wait, or in a wait without a condition.
EndsUnlessMissed ==
    (main = "signal" /\ at = 0 /\ mon \notin {"tested", "lost"}) ~> (main = "exit")
=============================================================================
