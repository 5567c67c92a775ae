------------------------------- MODULE WorkIO -------------------------------
(***************************************************************************)
(* How miner threads get work and submit nonces through the workio thread, *)
(* and how pools are switched meanwhile (gbxminer.cpp 1244-1475 and        *)
(* pool_switch of pools.cpp), for pools that are asked with getwork.       *)
(*                                                                         *)
(* Commands go to the queue of the workio thread, an answer (work of a     *)
(* pool, or NULL) to the queue of the thread named in the command.  A miner*)
(* asks with g_work_lock held.  A pool switch asks too, with               *)
(* stratum_work_lock held and in the name of thread 0, whoever makes it:   *)
(* thread 0, the API thread or the workio thread itself.                   *)
(***************************************************************************)
EXTENDS Integers, Sequences, FiniteSets

CONSTANTS Miners, First, \* thr_info[0] is one of the miner threads
          Api, IO,       \* the API thread and the workio thread
          Null, None,
          Configs,       \* configurations: see ConfigType
          MaxSwitches,   \* bound on the switches begun
          MaxSubmits     \* bound on the submissions

\* num_pools, opt_retries, opt_pool_failover, is there a time or share limit,
\* and the threads that switch pools: thread 0 at a limit, the API on request.
ConfigType == [pools : Nat \ {0}, retries : Int, failover : BOOLEAN,
               limit : BOOLEAN, by : SUBSET {First, Api}]

ASSUME WorkIOAssumption ==
    /\ IsFiniteSet(Miners) /\ First \in Miners
    /\ Api \notin Miners /\ IO \notin Miners /\ Api # IO /\ None \notin Miners \union {Api, IO}
    /\ Null \notin Nat
    /\ Configs \subseteq ConfigType
    /\ MaxSwitches \in Nat /\ MaxSubmits \in Nat

VARIABLES conf,     \* the configuration
          cur,      \* cur_pooln
          switches, \* pool_switch_count
          begun,    \* switches begun
          submits,  \* submissions
          abort,    \* abort_flag
          cmds,     \* the queue of the workio thread
          cmd,      \* the command it works on
          failures, \* of that command
          replies,  \* the queues of the miner threads
          pc,       \* where each thread is
          prev,     \* prevn of a thread in pool_switch
          seen,     \* switchn of a miner thread
          mine,     \* pool of the private copy of a miner thread
          gwork,    \* g_work: its pool, and is g_work_time 0?
          glock,    \* owner of g_work_lock
          slock     \* owner of stratum_work_lock

vars == <<conf, cur, switches, begun, submits, abort, cmds, cmd, failures,
          replies, pc, prev, seen, mine, gwork, glock, slock>>
queues == <<cmds, cmd, failures, replies>>
locks == <<glock, slock>>
pools == <<cur, switches, prev>>

Threads == Miners \union {Api, IO}
Pools == 0..conf.pools-1

\* The queue a thread pops its answer from.
Queue(a) == IF a \in Miners THEN a ELSE First

NoCmd == [cmd |-> "none", thr |-> First, pool |-> 0]

Init == /\ conf \in Configs
        /\ cur = 0 /\ switches = 0 /\ begun = 0 /\ submits = 0 /\ abort = FALSE
        /\ cmds = << >> /\ cmd = NoCmd /\ failures = 0
        /\ replies = [m \in Miners |-> << >>]
        /\ pc = [a \in Threads |-> CASE a = IO -> "loop" [] a = Api -> "idle" [] OTHER -> "top"]
        /\ prev = [a \in Threads |-> 0]
        /\ seen = [m \in Miners |-> 0]
        /\ mine = [m \in Miners |-> 0]
        /\ gwork = [pool |-> 0, expired |-> TRUE]
        /\ glock = None /\ slock = None
-----------------------------------------------------------------------------
\* A queue is frozen when its thread has ended.
Ended == pc[IO] = "ended"
Frozen(m) == pc[m] = "out"

\* The threads asleep in tq_pop, and where all threads are after one of them,
\* if there is any, has been signalled.
Sleepers(m) == {a \in Threads : pc[a] = "asleep" /\ Queue(a) = m}
Signalled(m, at) ==
    IF Sleepers(m) = {} THEN {at} ELSE {[at EXCEPT ![a] = "awake"] : a \in Sleepers(m)}

Command(c) == cmds' = IF Ended THEN cmds ELSE Append(cmds, c)

\* tq_push of an answer by the workio thread, which goes on at "next".
Answer(m, r, next) ==
    /\ replies' = IF Frozen(m) THEN replies ELSE [replies EXCEPT ![m] = Append(@, r)]
    /\ pc' \in Signalled(m, [pc EXCEPT ![IO] = next])

\* A miner thread ends and freezes its queue.
Out(m) == pc' \in Signalled(m, [pc EXCEPT ![m] = "out"])

\* Mutant: the count of the switches is not looked at.
JustOut(m) == Out(m) /\ UNCHANGED seen

\* get_work has failed: that ends the thread unless a pool switch explains it.
NoWork(m) == IF seen[m] # switches
             THEN /\ seen' = [seen EXCEPT ![m] = switches]
                  /\ pc' = [pc EXCEPT ![m] = "top"]
             ELSE Out(m) /\ UNCHANGED seen
-----------------------------------------------------------------------------
\* The top of the mining loop: with g_work_lock, new work is asked for when
\* the work has aged or its nonces are used up, and must be after a switch.
AskWork(m) ==
    /\ pc[m] = "top" /\ ~abort /\ glock = None
    /\ Command([cmd |-> "get", thr |-> m, pool |-> cur])
    /\ IF Ended THEN NoWork(m) /\ UNCHANGED glock
       ELSE /\ glock' = m
            /\ pc' = [pc EXCEPT ![m] = "look"]
            /\ UNCHANGED seen
    /\ UNCHANGED <<conf, pools, begun, submits, abort, cmd, failures, replies, mine, gwork, slock>>

KeepWork(m) ==
    /\ pc[m] = "top" /\ ~abort /\ glock = None /\ ~gwork.expired
    /\ mine' = [mine EXCEPT ![m] = gwork.pool]
    /\ pc' = [pc EXCEPT ![m] = "ready"]
    /\ UNCHANGED <<conf, pools, begun, submits, abort, queues, seen, gwork, locks>>

Leave(m) ==
    /\ pc[m] = "top" /\ abort
    /\ Out(m)
    /\ UNCHANGED <<conf, pools, begun, submits, abort, queues, seen, mine, gwork, locks>>

\* The scan finds nothing, or the thread has to pause.
Idle(m) ==
    /\ pc[m] = "ready"
    /\ pc' = [pc EXCEPT ![m] = "top"]
    /\ UNCHANGED <<conf, pools, begun, submits, abort, queues, seen, mine, gwork, locks>>

\* Mutant: the workio thread is not told.
StopSilently(m) == /\ abort' = TRUE /\ UNCHANGED cmds

\* abort_flag and workio_abort.
TellAll(m) == /\ abort' = TRUE
              /\ Command([cmd |-> "abort", thr |-> m, pool |-> 0])

\* Thread 0 has met the time or share limit of the only pool.
Stop(m) ==
    /\ pc[m] = "ready" /\ m = First /\ conf.limit /\ conf.pools = 1
    /\ TellAll(m)
    /\ Out(m)
    /\ UNCHANGED <<conf, pools, begun, submits, cmd, failures, replies, seen, mine, gwork, locks>>

\* A found nonce is handed to the workio thread.
Submit(m) ==
    /\ pc[m] = "ready" /\ submits < MaxSubmits
    /\ submits' = submits + 1
    /\ Command([cmd |-> "submit", thr |-> m, pool |-> mine[m]])
    /\ IF Ended THEN Out(m) ELSE pc' = [pc EXCEPT ![m] = "spend"]
    /\ UNCHANGED <<conf, pools, begun, abort, cmd, failures, replies, seen, mine, gwork, locks>>

\* g_work_time = 0 after a submission, with g_work_lock.
Spend(m) ==
    /\ pc[m] = "spend" /\ glock = None
    /\ gwork' = [gwork EXCEPT !.expired = TRUE]
    /\ pc' = [pc EXCEPT ![m] = "top"]
    /\ UNCHANGED <<conf, pools, begun, submits, abort, queues, seen, mine, locks>>
-----------------------------------------------------------------------------
\* pool_switch: cur_pooln first.
BeginSwitch(a, n) ==
    /\ begun < MaxSwitches /\ begun' = begun + 1
    /\ prev' = [prev EXCEPT ![a] = cur]
    /\ cur' = n
    /\ pc' = [pc EXCEPT ![a] = "options"]
    /\ UNCHANGED switches

\* All pools are valid and enabled.
NextPool == (cur + 1) % conf.pools

\* A limit of the pool makes a miner thread, thread 0, rotate.
Rotate(m) ==
    /\ pc[m] = "ready" /\ m \in conf.by /\ conf.pools > 1
    /\ BeginSwitch(m, NextPool)
    /\ UNCHANGED <<conf, submits, abort, queues, seen, mine, gwork, locks>>

ApiSwitch ==
    /\ pc[Api] = "idle" /\ Api \in conf.by
    /\ \E n \in (Pools \ {cur}) \union {NextPool} : BeginSwitch(Api, n)
    /\ UNCHANGED <<conf, submits, abort, queues, seen, mine, gwork, locks>>

\* Where a thread goes on after pool_switch.
Return(a) == CASE a = IO -> "notify" [] a = Api -> "idle" [] OTHER -> "top"

\* The options of the pool are copied under stratum_work_lock.
Options(a) ==
    /\ pc[a] = "options" /\ slock = None
    /\ pc' = [pc EXCEPT ![a] = "publish"]
    /\ UNCHANGED <<conf, pools, begun, submits, abort, queues, seen, mine, gwork, locks>>

\* The switch is counted and g_work expires, without a lock.
Publish(a) ==
    /\ pc[a] = "publish"
    /\ IF prev[a] # cur
       THEN /\ switches' = switches + 1
            /\ gwork' = [gwork EXCEPT !.expired = TRUE]
            /\ pc' = [pc EXCEPT ![a] = "ask"]
       ELSE /\ pc' = [pc EXCEPT ![a] = Return(a)]
            /\ UNCHANGED <<switches, gwork>>
    /\ UNCHANGED <<conf, cur, prev, begun, submits, abort, queues, seen, mine, locks>>

\* Work is asked for in the name of thread 0, under stratum_work_lock.
AskSwitched(a) ==
    /\ pc[a] = "ask" /\ slock = None
    /\ Command([cmd |-> "get", thr |-> First, pool |-> cur])
    /\ slock' = IF Ended THEN None ELSE a
    /\ pc' = [pc EXCEPT ![a] = IF Ended THEN Return(a) ELSE "look"]
    /\ UNCHANGED <<conf, pools, begun, submits, abort, cmd, failures, replies, seen, mine, gwork, glock>>
-----------------------------------------------------------------------------
\* get_work returns r to a miner thread, which unlocks g_work_lock.
ToMiner(m, r) ==
    /\ glock' = None
    /\ IF r = Null THEN NoWork(m) /\ UNCHANGED <<gwork, mine>>
       ELSE /\ gwork' = [pool |-> r, expired |-> FALSE]
            /\ mine' = [mine EXCEPT ![m] = r]
            /\ pc' = [pc EXCEPT ![m] = "ready"]
            /\ UNCHANGED seen
    /\ UNCHANGED slock

\* get_work returns r to pool_switch: g_work is written without g_work_lock.
ToSwitch(a, r) ==
    /\ slock' = None
    /\ gwork' = IF r = Null THEN gwork ELSE [gwork EXCEPT !.pool = r]
    /\ pc' = [pc EXCEPT ![a] = Return(a)]
    /\ UNCHANGED <<seen, mine, glock>>

Got(a, r) == IF slock = a THEN ToSwitch(a, r) ELSE ToMiner(a, r)

\* tq_pop of an answer: an entry is taken, the first look at an empty list
\* ends in the wait, the second one in NULL.
PopAnswer(a) ==
    /\ pc[a] \in {"look", "awake"}
    /\ LET m == Queue(a)
       IN IF replies[m] # << >>
          THEN /\ replies' = [replies EXCEPT ![m] = Tail(@)]
               /\ Got(a, Head(replies[m]))
          ELSE /\ UNCHANGED replies
               /\ IF pc[a] = "awake" THEN Got(a, Null)
                  ELSE /\ pc' = [pc EXCEPT ![a] = "asleep"]
                       /\ UNCHANGED <<seen, mine, gwork, locks>>
    /\ UNCHANGED <<conf, pools, begun, submits, abort, cmds, cmd, failures>>
-----------------------------------------------------------------------------
\* The loop of workio_thread.
Loop == /\ pc[IO] = "loop"
        /\ pc' = [pc EXCEPT ![IO] = IF abort THEN "ended" ELSE "pop"]
        /\ UNCHANGED <<conf, pools, begun, submits, abort, queues, seen, mine, gwork, locks>>

PopCommand ==
    /\ pc[IO] = "pop" /\ cmds # << >>
    /\ cmd' = Head(cmds) /\ cmds' = Tail(cmds)
    /\ failures' = 0
    /\ pc' = [pc EXCEPT ![IO] = Head(cmds).cmd]
    /\ UNCHANGED <<conf, pools, begun, submits, abort, replies, seen, mine, gwork, locks>>

\* The node answers, and the pool is still the one that was asked for.
GetWorks ==
    /\ pc[IO] = "get" /\ cmd.pool = cur
    /\ Answer(cmd.thr, cmd.pool, "loop")
    /\ UNCHANGED <<conf, pools, begun, submits, abort, cmds, cmd, failures, seen, mine, gwork, locks>>

\* Mutant: NULL is not sent when the pool has changed.
Forget(m, next) == /\ pc' = [pc EXCEPT ![IO] = next]
                   /\ UNCHANGED replies

\* The pool was switched during a call for work: the answer is NULL.
Refuse(m, next) == Answer(m, Null, next)

GetOutdated ==
    /\ pc[IO] = "get" /\ cmd.pool # cur
    /\ Refuse(cmd.thr, "loop")
    /\ UNCHANGED <<conf, pools, begun, submits, abort, cmds, cmd, failures, seen, mine, gwork, locks>>

\* The node takes the submission, or the pool was switched during a failed try.
SubmitEnds ==
    /\ pc[IO] = "submit"
    /\ pc' = [pc EXCEPT ![IO] = "loop"]
    /\ UNCHANGED <<conf, pools, begun, submits, abort, queues, seen, mine, gwork, locks>>

\* The node does not answer: after a pause the command is tried again, as long
\* as there are retries left.
TryAgain ==
    /\ pc[IO] \in {"get", "submit"} /\ cmd.pool = cur
    /\ conf.retries < 0 \/ failures < conf.retries
    /\ failures' = IF conf.retries < 0 THEN failures ELSE failures + 1
    /\ UNCHANGED <<conf, pools, begun, submits, abort, cmds, cmd, replies, pc, seen, mine, gwork, locks>>

\* No retries are left, or WC_ABORT was popped: the workio thread switches to
\* the next pool if there is one, and ends otherwise.  There is no answer to
\* the command in the second case.
GiveUp ==
    /\ \/ /\ pc[IO] \in {"get", "submit"} /\ cmd.pool = cur
          /\ conf.retries >= 0 /\ failures >= conf.retries
       \/ pc[IO] = "abort"
    /\ IF conf.pools > 1 /\ conf.failover
       THEN BeginSwitch(IO, NextPool)
       ELSE /\ pc' = [pc EXCEPT ![IO] = "ended"]
            /\ UNCHANGED <<pools, begun>>
    /\ UNCHANGED <<conf, submits, abort, queues, seen, mine, gwork, locks>>

\* "get_work() will return false".
Notify ==
    /\ pc[IO] = "notify"
    /\ Answer(cmd.thr, Null, "loop")
    /\ UNCHANGED <<conf, pools, begun, submits, abort, cmds, cmd, failures, seen, mine, gwork, locks>>

\* main has joined the workio thread.
MainAborts ==
    /\ Ended /\ ~abort
    /\ abort' = TRUE
    /\ UNCHANGED <<conf, pools, begun, submits, queues, pc, seen, mine, gwork, locks>>

\* main has joined all threads and the process ends.
Done == /\ Ended /\ \A m \in Miners : pc[m] = "out"
        /\ UNCHANGED vars

MinerStep(m) == \/ AskWork(m) \/ KeepWork(m) \/ Leave(m) \/ Idle(m) \/ Stop(m)
                \/ Submit(m) \/ Spend(m) \/ Rotate(m)

SwitchStep(a) == Options(a) \/ Publish(a) \/ AskSwitched(a) \/ PopAnswer(a)

WorkioStep == \/ Loop \/ PopCommand \/ GetWorks \/ GetOutdated \/ SubmitEnds
              \/ TryAgain \/ GiveUp \/ Notify

Next == \/ \E m \in Miners : MinerStep(m)
        \/ \E a \in Threads : SwitchStep(a)
        \/ ApiSwitch \/ WorkioStep \/ MainAborts \/ Done

Spec == Init /\ [][Next]_vars

\* What a thread does unless it is kept from it: the mutexes are passed on, the
\* node answers now and then, a scan ends and work ages.
MinerGoesOn(m) == Leave(m) \/ Idle(m) \/ Spend(m) \/ SwitchStep(m)
WorkioGoesOn == \/ Loop \/ PopCommand \/ GetWorks \/ GetOutdated \/ SubmitEnds
                \/ GiveUp \/ Notify \/ SwitchStep(IO)

Fairness == /\ \A m \in Miners : SF_vars(AskWork(m)) /\ SF_vars(MinerGoesOn(m))
            /\ SF_vars(SwitchStep(Api))
            /\ SF_vars(WorkioGoesOn)
            /\ WF_vars(MainAborts)

FairSpec == Spec /\ Fairness
-----------------------------------------------------------------------------
Cmd == [cmd : {"get", "submit", "abort"}, thr : Miners, pool : Nat]
Places == {"top", "ready", "spend", "out", "look", "asleep", "awake",
           "options", "publish", "ask", "idle", "notify",
           "loop", "pop", "get", "submit", "abort", "ended"}

\* The types of the queues, the locks and the pools.
TypeOK ==
    /\ conf \in Configs
    /\ cur \in Pools /\ switches \in Nat /\ begun \in Nat /\ submits \in 0..MaxSubmits
    /\ abort \in BOOLEAN
    /\ cmds \in Seq(Cmd) /\ cmd \in Cmd \union {NoCmd} /\ failures \in Nat
    /\ replies \in [Miners -> Seq(Pools \union {Null})]
    /\ pc \in [Threads -> Places]
    /\ prev \in [Threads -> Nat] /\ seen \in [Miners -> Nat] /\ mine \in [Miners -> Nat]
    /\ gwork \in [pool : Pools, expired : BOOLEAN]
    /\ glock \in Miners \union {None}
    /\ slock \in Threads \union {None}

Asking(a) == pc[a] \in {"look", "asleep", "awake"}

\* The requests for work that still have to be answered on a queue.
Pending(m) ==
    Cardinality({i \in 1..Len(cmds) : cmds[i].cmd = "get" /\ cmds[i].thr = m})
    + (IF cmd.cmd = "get" /\ cmd.thr = m /\ pc[IO] \notin {"loop", "pop"} THEN 1 ELSE 0)

\* The threads that have asked for work and wait at a queue.
Waiting(m) == Cardinality({a \in Threads : Asking(a) /\ Queue(a) = m})

FailsOver == conf.retries >= 0 /\ conf.pools > 1 /\ conf.failover

\* No two threads pop answers from the queue of thread 0.
Alone == conf.by \subseteq {First} /\ ~FailsOver

\* Every thread that waits in get_work has an answer coming (gbxminer.cpp
\* 1278-1318), and no answer is left over for a later request, as long as no
\* second thread asks in the name of thread 0 (pools.cpp:274).
OneAnswerEach == \A m \in Miners : pc[m] # "out" /\ ~Ended =>
    /\ Len(replies[m]) + Pending(m) >= Waiting(m)
    /\ Alone => Len(replies[m]) + Pending(m) = Waiting(m)

\* A thread whose request is given up gets NULL, "get_work() will return false"
\* (gbxminer.cpp:1390): whoever asks gets an answer while the program runs.
Answered == \A a \in Threads :
    Asking(a) ~> (~Asking(a) \/ abort \/ pc[First] = "out")

\* The same where no second thread pops the answers of thread 0.
AnsweredAlone == \A a \in Threads :
    (Asking(a) /\ Alone) ~> (~Asking(a) \/ abort)

\* A miner thread whose request for work fails knows it from pool_switch_count
\* when a switch is the reason (gbxminer.cpp:1862), unless that switch has begun
\* (pools.cpp:178) and is not counted yet (pools.cpp:233).
MinersSurvive == [][Alone => \A m \in Miners : pc[m] # "out" /\ pc'[m] = "out" =>
    abort' \/ Ended \/ \E a \in Threads : pc[a] \in {"options", "publish"}]_vars

\* A limit ends the workio thread, which main waits for (gbxminer.cpp:4040).
WorkioEnds == abort ~> Ended

\* "maximum time [s] to mine before exiting the program" (gbxminer.cpp:305).
Exits == abort ~> (Ended /\ \A m \in Miners : pc[m] = "out")
=============================================================================
