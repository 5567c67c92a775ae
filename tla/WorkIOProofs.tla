---------------------------- MODULE WorkIOProofs ----------------------------
(***************************************************************************)
(* Proofs about the workio thread and those who ask it, for any number of  *)
(* miner threads, pools, switches and submissions: the types, who holds    *)
(* the two locks, that everyone who waits has an answer coming, and when a *)
(* miner thread may end.                                                   *)
(***************************************************************************)
EXTENDS WorkIO, FiniteSetTheorems, SequenceTheorems, TLAPS

\* Signals wake sleepers of one queue and change nothing else.
LEMMA SignalledIs ==
    ASSUME NEW at \in [Threads -> Places], NEW m, NEW q \in Signalled(m, at)
    PROVE  /\ q \in [Threads -> Places]
           /\ \A a \in Threads : \/ q[a] = at[a]
                                 \/ q[a] = "awake" /\ pc[a] = "asleep" /\ Queue(a) = m
<1>1. CASE Sleepers(m) = {}
  BY <1>1 DEF Signalled
<1>2. CASE Sleepers(m) # {}
  <2>1. PICK b \in Sleepers(m) : q = [at EXCEPT ![b] = "awake"]
    BY <1>2 DEF Signalled
  <2>2. b \in Threads /\ pc[b] = "asleep" /\ Queue(b) = m
    BY <2>1 DEF Sleepers
  <2>3. "awake" \in Places
    BY DEF Places
  <2>. QED  BY <2>1, <2>2, <2>3
<1>. QED  BY <1>1, <1>2

\* The threads and the pools, as the steps need them.
LEMMA Basics ==
    ASSUME TypeOK
    PROVE  /\ First \in Miners /\ Miners \subseteq Threads /\ {Api, IO} \subseteq Threads
           /\ Threads = Miners \union {Api, IO}
           /\ Api \notin Miners /\ IO \notin Miners /\ Api # IO /\ None \notin Threads
           /\ conf \in ConfigType /\ conf.pools \in Nat \ {0}
           /\ 0 \in Pools /\ Pools \subseteq Nat /\ Null \notin Nat
           /\ \A a \in Threads : Queue(a) \in Miners
           /\ NextPool \in Pools
<1>1. conf \in ConfigType
  BY WorkIOAssumption DEF WorkIOAssumption, TypeOK
<1>2. conf.pools \in Nat \ {0}
  BY <1>1 DEF ConfigType
<1>3. cur \in Nat /\ 0 \in Pools /\ Pools \subseteq Nat
  BY <1>2 DEF TypeOK, Pools
<1>4. NextPool \in Pools
  BY <1>2, <1>3 DEF NextPool, Pools
<1>. QED  BY <1>1, <1>2, <1>3, <1>4, WorkIOAssumption DEF WorkIOAssumption, Threads, Queue

\* A command is queued unless the workio thread has ended.
LEMMA CommandTypes ==
    ASSUME TypeOK, NEW c \in Cmd, Command(c)
    PROVE  cmds' \in Seq(Cmd)
BY DEF Command, TypeOK

\* An answer goes to a queue and moves the workio thread.
LEMMA AnswerTypes ==
    ASSUME TypeOK, NEW m \in Miners, NEW r \in Pools \union {Null}, NEW next \in Places,
           Answer(m, r, next)
    PROVE  /\ replies' \in [Miners -> Seq(Pools \union {Null})]
           /\ pc' \in [Threads -> Places]
<1>1. [pc EXCEPT ![IO] = next] \in [Threads -> Places]
  BY DEF TypeOK
<1>2. pc' \in [Threads -> Places]
  BY <1>1, SignalledIs DEF Answer
<1>3. Append(replies[m], r) \in Seq(Pools \union {Null})
  BY DEF TypeOK
<1>4. replies' \in [Miners -> Seq(Pools \union {Null})]
  BY <1>3 DEF Answer, TypeOK
<1>. QED  BY <1>2, <1>4

\* A miner thread ends or goes on.
LEMMA OutTypes ==
    ASSUME TypeOK, NEW m, Out(m)
    PROVE  pc' \in [Threads -> Places]
<1>1. [pc EXCEPT ![m] = "out"] \in [Threads -> Places]
  BY DEF TypeOK, Places
<1>. QED  BY <1>1, SignalledIs DEF Out

LEMMA NoWorkTypes ==
    ASSUME TypeOK, NEW m, NoWork(m)
    PROVE  pc' \in [Threads -> Places] /\ seen' \in [Miners -> Nat]
<1>1. CASE seen[m] # switches
  <2>1. seen' = [seen EXCEPT ![m] = switches] /\ pc' = [pc EXCEPT ![m] = "top"]
    BY <1>1 DEF NoWork
  <2>2. "top" \in Places
    BY DEF Places
  <2>3. pc' \in [Threads -> Places]
    BY <2>1, <2>2 DEF TypeOK
  <2>4. seen' \in [Miners -> Nat]
    BY <2>1 DEF TypeOK
  <2>. QED  BY <2>3, <2>4
<1>2. CASE seen[m] = switches
  BY <1>2, OutTypes DEF NoWork, TypeOK
<1>. QED  BY <1>1, <1>2

LEMMA TypesNext == TypeOK /\ [Next]_vars => TypeOK'
<1>. SUFFICES ASSUME TypeOK, [Next]_vars PROVE TypeOK'
  OBVIOUS
<1>0. pc \in [Threads -> Places]
  BY DEF TypeOK
<1>. USE Basics
<1>1. ASSUME NEW m \in Miners, AskWork(m) PROVE TypeOK'
  <2>1. cmds' \in Seq(Cmd)
    <3>1. [cmd |-> "get", thr |-> m, pool |-> cur] \in Cmd
      BY DEF Cmd, TypeOK
    <3>. QED  BY <1>1, <3>1, CommandTypes DEF AskWork
  <2>2. /\ pc' \in [Threads -> Places] /\ seen' \in [Miners -> Nat]
        /\ glock' \in Miners \union {None}
    <3>1. CASE Ended
      BY <1>1, <3>1, NoWorkTypes DEF AskWork, TypeOK
    <3>2. CASE ~Ended
      <4>1. pc' = [pc EXCEPT ![m] = "look"] /\ seen' = seen /\ glock' = m
        BY <1>1, <3>2 DEF AskWork
      <4>2. "look" \in Places
        BY DEF Places
      <4>. QED  BY <4>1, <4>2 DEF TypeOK
    <3>. QED  BY <3>1, <3>2
  <2>. QED  BY <1>1, <2>1, <2>2 DEF AskWork, TypeOK, pools, Pools
<1>2. ASSUME NEW m \in Miners, KeepWork(m) PROVE TypeOK'
  BY <1>2 DEF KeepWork, TypeOK, Places, pools, queues, locks, Pools
<1>3. ASSUME NEW m \in Miners, Leave(m) PROVE TypeOK'
  <2>1. pc' \in [Threads -> Places]
    BY <1>3, OutTypes DEF Leave
  <2>. QED  BY <1>3, <2>1 DEF Leave, TypeOK, pools, queues, locks, Pools
<1>4. ASSUME NEW m \in Miners, Idle(m) PROVE TypeOK'
  BY <1>4 DEF Idle, TypeOK, Places, pools, queues, locks, Pools
<1>5. ASSUME NEW m \in Miners, Stop(m) PROVE TypeOK'
  <2>1. pc' \in [Threads -> Places]
    BY <1>5, OutTypes DEF Stop
  <2>2. cmds' \in Seq(Cmd)
    <3>1. [cmd |-> "abort", thr |-> m, pool |-> 0] \in Cmd
      BY DEF Cmd
    <3>. QED  BY <1>5, <3>1, CommandTypes DEF Stop, TellAll
  <2>. QED  BY <1>5, <2>1, <2>2 DEF Stop, TellAll, TypeOK, pools, locks, Pools
<1>6. ASSUME NEW m \in Miners, Submit(m) PROVE TypeOK'
  <2>1. pc' \in [Threads -> Places]
    <3>1. CASE Ended
      BY <1>6, <3>1, OutTypes DEF Submit
    <3>2. CASE ~Ended
      BY <1>6, <3>2 DEF Submit, TypeOK, Places
    <3>. QED  BY <3>1, <3>2
  <2>2. cmds' \in Seq(Cmd)
    <3>1. [cmd |-> "submit", thr |-> m, pool |-> mine[m]] \in Cmd
      BY DEF Cmd, TypeOK
    <3>. QED  BY <1>6, <3>1, CommandTypes DEF Submit
  <2>3. submits' \in 0..MaxSubmits
    BY <1>6, WorkIOAssumption DEF Submit, TypeOK, WorkIOAssumption
  <2>. QED  BY <1>6, <2>1, <2>2, <2>3 DEF Submit, TypeOK, pools, locks, Pools
<1>7. ASSUME NEW m \in Miners, Spend(m) PROVE TypeOK'
  BY <1>7 DEF Spend, TypeOK, Places, pools, queues, locks, Pools
<1>8. ASSUME NEW a \in Threads, NEW n \in Pools, BeginSwitch(a, n)
      PROVE  /\ cur' \in Pools /\ begun' \in Nat /\ prev' \in [Threads -> Nat]
             /\ pc' \in [Threads -> Places] /\ switches' = switches
  <2>1. cur' = n /\ begun' = begun + 1 /\ switches' = switches
        /\ prev' = [prev EXCEPT ![a] = cur] /\ pc' = [pc EXCEPT ![a] = "options"]
    BY <1>8 DEF BeginSwitch
  <2>2. cur \in Nat /\ prev \in [Threads -> Nat]
    BY DEF TypeOK
  <2>3. prev' \in [Threads -> Nat]
    BY <2>1, <2>2
  <2>4. begun' \in Nat
    BY <2>1 DEF TypeOK
  <2>. QED  BY <2>1, <2>3, <2>4 DEF TypeOK, Places
<1>9. ASSUME NEW m \in Miners, Rotate(m) PROVE TypeOK'
  <2>1. BeginSwitch(m, NextPool)
    BY <1>9 DEF Rotate
  <2>. QED  BY <1>8, <1>9, <2>1 DEF Rotate, TypeOK, queues, locks, Pools
<1>10. ASSUME ApiSwitch PROVE TypeOK'
  <2>1. PICK n \in (Pools \ {cur}) \union {NextPool} : BeginSwitch(Api, n)
    BY <1>10 DEF ApiSwitch
  <2>. QED  BY <1>8, <1>10, <2>1 DEF ApiSwitch, TypeOK, queues, locks, Pools
<1>11. ASSUME NEW a \in Threads, Options(a) PROVE TypeOK'
  BY <1>11 DEF Options, TypeOK, Places, pools, queues, locks, Pools
<1>12. \A a \in Threads : Return(a) \in Places
  BY DEF Return, Places
<1>13. ASSUME NEW a \in Threads, Publish(a) PROVE TypeOK'
  <2>1. "ask" \in Places
    BY DEF Places
  <2>2. pc' \in [Threads -> Places]
    <3>1. \E next \in Places : pc' = [pc EXCEPT ![a] = next]
      BY Zenon, <1>12, <1>13, <2>1 DEF Publish
    <3>. QED  BY Zenon, <1>0, <3>1
  <2>3. switches' \in Nat
    BY <1>13 DEF Publish, TypeOK
  <2>4. gwork' \in [pool : Pools, expired : BOOLEAN]
    <3>1. gwork \in [pool : Pools, expired : BOOLEAN]
      BY DEF TypeOK
    <3>2. gwork' = gwork \/ gwork' = [gwork EXCEPT !.expired = TRUE]
      BY <1>13 DEF Publish
    <3>. QED  BY ONLY <3>1, <3>2
  <2>. QED  BY <1>13, <2>2, <2>3, <2>4 DEF Publish, TypeOK, queues, locks, Pools
<1>14. ASSUME NEW a \in Threads, AskSwitched(a) PROVE TypeOK'
  <2>1. cmds' \in Seq(Cmd)
    <3>1. [cmd |-> "get", thr |-> First, pool |-> cur] \in Cmd
      BY DEF Cmd, TypeOK
    <3>. QED  BY <1>14, <3>1, CommandTypes DEF AskSwitched
  <2>2. pc' \in [Threads -> Places] /\ slock' \in Threads \union {None}
    BY <1>12, <1>14 DEF AskSwitched, TypeOK, Places
  <2>. QED  BY <1>14, <2>1, <2>2 DEF AskSwitched, TypeOK, pools, Pools
<1>15. ASSUME NEW a \in Threads, NEW r \in Pools \union {Null}, Got(a, r)
       PROVE  /\ pc' \in [Threads -> Places] /\ seen' \in [Miners -> Nat]
              /\ mine' \in [Miners -> Nat] /\ gwork' \in [pool : Pools, expired : BOOLEAN]
              /\ glock' \in Miners \union {None} /\ slock' \in Threads \union {None}
  <2>1. CASE slock = a
    <3>1. /\ slock' = None /\ pc' = [pc EXCEPT ![a] = Return(a)]
          /\ gwork' = IF r = Null THEN gwork ELSE [gwork EXCEPT !.pool = r]
          /\ UNCHANGED <<seen, mine, glock>>
      BY <1>15, <2>1 DEF Got, ToSwitch
    <3>2. pc' \in [Threads -> Places]
      BY <1>12, <3>1 DEF TypeOK
    <3>3. gwork' \in [pool : Pools, expired : BOOLEAN]
      BY <3>1 DEF TypeOK
    <3>. QED  BY <3>1, <3>2, <3>3 DEF TypeOK
  <2>2. CASE slock # a /\ r = Null
    <3>1. NoWork(a) /\ glock' = None /\ UNCHANGED <<gwork, mine, slock>>
      BY <1>15, <2>2 DEF Got, ToMiner
    <3>. QED  BY <3>1, NoWorkTypes DEF TypeOK
  <2>3. CASE slock # a /\ r # Null
    <3>1. /\ gwork' = [pool |-> r, expired |-> FALSE] /\ mine' = [mine EXCEPT ![a] = r]
          /\ pc' = [pc EXCEPT ![a] = "ready"]
          /\ glock' = None /\ UNCHANGED <<seen, slock>>
      BY <1>15, <2>3 DEF Got, ToMiner
    <3>2. r \in Pools /\ r \in Nat /\ "ready" \in Places
      BY <2>3 DEF Places
    <3>3. mine' \in [Miners -> Nat]
      BY <3>1, <3>2 DEF TypeOK
    <3>4. pc' \in [Threads -> Places]
      BY <3>1, <3>2 DEF TypeOK
    <3>. QED  BY <3>1, <3>2, <3>3, <3>4 DEF TypeOK
  <2>. QED  BY <2>1, <2>2, <2>3
<1>16. ASSUME NEW a \in Threads, PopAnswer(a) PROVE TypeOK'
  <2>1. CASE replies[Queue(a)] # << >>
    <3>0. replies[Queue(a)] \in Seq(Pools \union {Null})
      BY Zenon DEF TypeOK
    <3>1. /\ Head(replies[Queue(a)]) \in Pools \union {Null}
          /\ Tail(replies[Queue(a)]) \in Seq(Pools \union {Null})
      BY <2>1, <3>0, HeadTailProperties
    <3>2. replies' = [replies EXCEPT ![Queue(a)] = Tail(@)]
      BY <1>16, <2>1 DEF PopAnswer
    <3>3. replies' \in [Miners -> Seq(Pools \union {Null})]
      BY <3>1, <3>2 DEF TypeOK
    <3>. QED  BY <1>15, <1>16, <2>1, <3>1, <3>3 DEF PopAnswer, TypeOK, pools, Pools
  <2>2. CASE replies[Queue(a)] = << >> /\ pc[a] = "awake"
    <3>1. Got(a, Null) /\ UNCHANGED <<conf, cur, switches, prev, begun, submits, abort, cmds, cmd, failures, replies>>
      BY <1>16, <2>2 DEF PopAnswer, pools
    <3>2. /\ pc' \in [Threads -> Places] /\ seen' \in [Miners -> Nat]
          /\ mine' \in [Miners -> Nat] /\ gwork' \in [pool : Pools, expired : BOOLEAN]
          /\ glock' \in Miners \union {None} /\ slock' \in Threads \union {None}
      BY <1>15, <3>1
    <3>. QED  BY <3>1, <3>2 DEF TypeOK, Pools
  <2>3. CASE replies[Queue(a)] = << >> /\ pc[a] # "awake"
    <3>1. pc' = [pc EXCEPT ![a] = "asleep"]
          /\ UNCHANGED <<conf, cur, switches, prev, begun, submits, abort, cmds, cmd, failures, replies,
                         seen, mine, gwork, glock, slock>>
      BY <1>16, <2>3 DEF PopAnswer, pools, locks
    <3>2. pc' \in [Threads -> Places]
      BY ONLY <1>0, <3>1 DEF Places
    <3>. QED  BY <3>1, <3>2 DEF TypeOK, Pools
  <2>. QED  BY <2>1, <2>2, <2>3
<1>17. ASSUME Loop PROVE TypeOK'
  BY <1>17 DEF Loop, TypeOK, Places, pools, queues, locks, Pools
<1>18. cmd.thr \in Miners
  BY DEF TypeOK, Cmd, NoCmd
<1>19. ASSUME PopCommand PROVE TypeOK'
  <2>1. Head(cmds) \in Cmd /\ Tail(cmds) \in Seq(Cmd)
    BY <1>19 DEF PopCommand, TypeOK
  <2>2. Head(cmds).cmd \in Places
    BY <2>1 DEF Cmd, Places
  <2>. QED  BY <1>19, <2>1, <2>2 DEF PopCommand, TypeOK, pools, locks, Pools
<1>20. "loop" \in Places
  BY DEF Places
<1>21. ASSUME GetWorks PROVE TypeOK'
  <2>1. Answer(cmd.thr, cmd.pool, "loop") /\ cmd.pool \in Pools
    BY <1>21 DEF GetWorks, TypeOK
  <2>. QED  BY <1>18, <1>20, <1>21, <2>1, AnswerTypes DEF GetWorks, TypeOK, pools, locks, Pools
<1>22. ASSUME GetOutdated PROVE TypeOK'
  <2>1. Answer(cmd.thr, Null, "loop")
    BY <1>22 DEF GetOutdated, Refuse
  <2>. QED  BY <1>18, <1>20, <1>22, <2>1, AnswerTypes DEF GetOutdated, TypeOK, pools, locks, Pools
<1>23. ASSUME SubmitEnds PROVE TypeOK'
  BY <1>20, <1>23 DEF SubmitEnds, TypeOK, pools, queues, locks, Pools
<1>24. ASSUME TryAgain PROVE TypeOK'
  <2>1. failures' \in Nat
    BY <1>24 DEF TryAgain, TypeOK
  <2>. QED  BY <1>24, <2>1 DEF TryAgain, TypeOK, pools, locks, Pools
<1>25. ASSUME GiveUp PROVE TypeOK'
  <2>1. CASE conf.pools > 1 /\ conf.failover
    <3>1. BeginSwitch(IO, NextPool) /\ UNCHANGED <<conf, submits, abort, queues, seen, mine, gwork, locks>>
      BY <1>25, <2>1 DEF GiveUp
    <3>. QED  BY <1>8, <3>1 DEF TypeOK, queues, locks, Pools
  <2>2. CASE ~(conf.pools > 1 /\ conf.failover)
    <3>1. pc' = [pc EXCEPT ![IO] = "ended"] /\ "ended" \in Places
      BY <1>25, <2>2 DEF GiveUp, Places
    <3>2. pc' \in [Threads -> Places]
      BY <3>1 DEF TypeOK
    <3>. QED  BY <1>25, <2>2, <3>2 DEF GiveUp, TypeOK, pools, queues, locks, Pools
  <2>. QED  BY <2>1, <2>2
<1>26. ASSUME Notify PROVE TypeOK'
  <2>1. Answer(cmd.thr, Null, "loop")
    BY <1>26 DEF Notify
  <2>. QED  BY <1>18, <1>20, <1>26, <2>1, AnswerTypes DEF Notify, TypeOK, pools, locks, Pools
<1>27. ASSUME MainAborts PROVE TypeOK'
  BY <1>27 DEF MainAborts, TypeOK, pools, queues, locks, Pools
<1>28. CASE UNCHANGED vars
  BY <1>28 DEF TypeOK, vars, Pools
<1>. QED  BY <1>1, <1>2, <1>3, <1>4, <1>5, <1>6, <1>7, <1>9, <1>10, <1>11, <1>13, <1>14,
             <1>16, <1>17, <1>19, <1>21, <1>22, <1>23, <1>24, <1>25, <1>26, <1>27, <1>28
          DEF Next, MinerStep, SwitchStep, WorkioStep, Done

LEMMA TypesInit == Init => TypeOK
<1>. SUFFICES ASSUME Init PROVE TypeOK
  OBVIOUS
<1>1. conf.pools \in Nat \ {0} /\ 0 \in Pools
  BY WorkIOAssumption DEF WorkIOAssumption, Init, ConfigType, Pools
<1>2. pc \in [Threads -> Places]
  BY DEF Init, Places
<1>3. replies \in [Miners -> Seq(Pools \union {Null})] /\ cmds \in Seq(Cmd)
  BY DEF Init
<1>4. /\ prev \in [Threads -> Nat] /\ seen \in [Miners -> Nat] /\ mine \in [Miners -> Nat]
      /\ gwork \in [pool : Pools, expired : BOOLEAN]
  BY <1>1 DEF Init
<1>5. /\ conf \in Configs /\ cur \in Pools /\ switches \in Nat /\ begun \in Nat
      /\ abort \in BOOLEAN /\ cmd \in Cmd \union {NoCmd} /\ failures \in Nat
      /\ glock \in Miners \union {None} /\ slock \in Threads \union {None}
  BY <1>1 DEF Init
<1>6. submits \in 0..MaxSubmits
  BY WorkIOAssumption DEF WorkIOAssumption, Init
<1>. QED  BY <1>2, <1>3, <1>4, <1>5, <1>6 DEF TypeOK

\* The types hold in every reachable state: the pool of an answer or of g_work
\* is one there is, and a lock is held by a thread or by none.
THEOREM TypeCorrect == Spec => []TypeOK
BY TypesInit, TypesNext, PTL DEF Spec
-----------------------------------------------------------------------------
\* A lock is held by a thread that waits for an answer, and such a thread
\* holds one of the two.
Mutex == \A a \in Threads : /\ Asking(a) <=> glock = a \/ slock = a
                            /\ ~(glock = a /\ slock = a)

\* The workio thread works on the command it has taken.
CmdFits == pc[IO] \in {"get", "submit", "abort"} => cmd.cmd = pc[IO]

\* Only the limits of a single pool abort the workio thread.
AbortFits == /\ pc[IO] = "abort" => conf.pools = 1
             /\ \A i \in 1..Len(cmds) : cmds[i].cmd = "abort" => conf.pools = 1

\* Thread 0 is the only miner thread that switches pools, and the only thread
\* of all where it is alone.
InSwitch == {"options", "publish", "ask"}
OnlyFirst == /\ \A m \in Miners : pc[m] \in InSwitch => m = First
             /\ Alone => /\ \A a \in {Api, IO} : pc[a] \notin InSwitch /\ ~Asking(a)
                         /\ pc[IO] # "notify"

\* There a thread woken up finds its answer.
Woken == Alone => \A a \in Threads : pc[a] = "awake" => replies[Queue(a)] # << >>

Owed(m) == pc[m] # "out" /\ ~Ended =>
              /\ Len(replies[m]) + Pending(m) >= Waiting(m)
              /\ Alone => Len(replies[m]) + Pending(m) = Waiting(m)

IInv == TypeOK /\ Mutex /\ CmdFits /\ AbortFits /\ OnlyFirst /\ Woken /\ OneAnswerEach

\* Thread 0 has changed cur_pooln and not yet counted the switch.
InWindow == pc[First] \in {"options", "publish"}

\* There is, or will be, an answer NULL for a miner thread.
NullComes(m) ==
    \/ \E i \in 1..Len(cmds) : cmds[i].cmd = "get" /\ cmds[i].thr = m /\ cmds[i].pool # cur
    \/ pc[IO] = "get" /\ cmd.thr = m /\ cmd.pool # cur
    \/ \E i \in 1..Len(replies[m]) : replies[m][i] = Null

\* A switch that is not counted yet changes the pool.
PrevFits == Alone /\ InWindow => prev[First] # cur

\* A miner thread that gets NULL finds the count of switches changed, or a
\* switch between its two halves.
Explained == Alone => \A m \in Miners :
    /\ seen[m] <= switches
    /\ pc[m] # "out" /\ ~Ended /\ NullComes(m) => seen[m] # switches \/ InWindow
-----------------------------------------------------------------------------
\* The requests for work on a queue of commands.
Gets(s, m) == {i \in 1..Len(s) : s[i].cmd = "get" /\ s[i].thr = m}

LEMMA GetsAreFinite ==
    ASSUME NEW s \in Seq(Cmd), NEW m
    PROVE  IsFiniteSet(Gets(s, m)) /\ Cardinality(Gets(s, m)) \in Nat
<1>1. IsFiniteSet(1..Len(s)) /\ Gets(s, m) \in SUBSET (1..Len(s))
  BY FS_Interval DEF Gets
<1>. QED  BY <1>1, FS_Subset, FS_CardinalityType

LEMMA GetsAppend ==
    ASSUME NEW s \in Seq(Cmd), NEW c \in Cmd, NEW m
    PROVE  Cardinality(Gets(Append(s, c), m)) =
              Cardinality(Gets(s, m)) + (IF c.cmd = "get" /\ c.thr = m THEN 1 ELSE 0)
<1>1. /\ Len(s) \in Nat /\ Len(Append(s, c)) = Len(s) + 1
      /\ \A i \in 1..Len(s) : Append(s, c)[i] = s[i]
      /\ Append(s, c)[Len(s) + 1] = c
  OBVIOUS
<1>2. CASE c.cmd = "get" /\ c.thr = m
  <2>1. Gets(Append(s, c), m) = Gets(s, m) \union {Len(s) + 1} /\ Len(s) + 1 \notin Gets(s, m)
    BY <1>1, <1>2 DEF Gets
  <2>. QED  BY <1>2, <2>1, GetsAreFinite, FS_AddElement
<1>3. CASE ~(c.cmd = "get" /\ c.thr = m)
  <2>1. Gets(Append(s, c), m) = Gets(s, m)
    BY <1>1, <1>3 DEF Gets
  <2>. QED  BY <1>3, <2>1, GetsAreFinite
<1>. QED  BY <1>2, <1>3

LEMMA GetsTail ==
    ASSUME NEW s \in Seq(Cmd), s # << >>, NEW m
    PROVE  Cardinality(Gets(s, m)) = Cardinality(Gets(Tail(s), m))
              + (IF Head(s).cmd = "get" /\ Head(s).thr = m THEN 1 ELSE 0)
<1>. DEFINE T == Gets(Tail(s), m)
            U == Gets(s, m) \ {1}
            up == [i \in T |-> i + 1]
<1>1. /\ Len(s) \in Nat \ {0} /\ Len(Tail(s)) = Len(s) - 1 /\ Head(s) = s[1]
      /\ \A i \in 1..Len(s)-1 : Tail(s)[i] = s[i+1]
      /\ Tail(s) \in Seq(Cmd)
  OBVIOUS
<1>2. up \in Bijection(T, U)
  <2>1. \A i \in T : i \in 1..Len(s)-1 /\ i + 1 \in U
    BY <1>1 DEF Gets
  <2>2. \A i, j \in T : up[i] = up[j] => i = j
    BY <2>1
  <2>3. \A k \in U : k - 1 \in T /\ up[k - 1] = k
    <3>. TAKE k \in U
    <3>1. k \in 2..Len(s) /\ s[k].cmd = "get" /\ s[k].thr = m
      BY <1>1 DEF Gets
    <3>2. k - 1 \in 1..Len(s)-1 /\ Tail(s)[k - 1] = s[k]
      BY <1>1, <3>1
    <3>3. k - 1 \in T
      BY <1>1, <3>1, <3>2 DEF Gets
    <3>. QED  BY <3>1, <3>3
  <2>4. up \in [T -> U]
    BY <2>1
  <2>. QED  BY <2>2, <2>3, <2>4 DEF Bijection, Injection, Surjection, IsInjective
<1>3. IsFiniteSet(T) /\ Cardinality(T) \in Nat
  BY <1>1, GetsAreFinite
<1>4. Cardinality(U) = Cardinality(T)
  BY <1>2, <1>3, FS_Bijection DEF ExistsBijection
<1>5. Cardinality(U) = IF 1 \in Gets(s, m) THEN Cardinality(Gets(s, m)) - 1
                                           ELSE Cardinality(Gets(s, m))
  BY GetsAreFinite, FS_RemoveElement
<1>6. 1 \in Gets(s, m) <=> Head(s).cmd = "get" /\ Head(s).thr = m
  BY <1>1 DEF Gets
<1>7. Cardinality(Gets(s, m)) \in Nat
  BY GetsAreFinite
<1>. QED  BY <1>3, <1>4, <1>5, <1>6, <1>7

\* The threads that wait for an answer on a queue, and what is under way to it.
Waiters(m) == {a \in Threads : Asking(a) /\ Queue(a) = m}
Current(m) == IF cmd.cmd = "get" /\ cmd.thr = m /\ pc[IO] \notin {"loop", "pop"} THEN 1 ELSE 0

CountsFit(m) == /\ Pending(m) = Cardinality(Gets(cmds, m)) + Current(m)
                /\ Waiting(m) = Cardinality(Waiters(m))
                /\ Waiters(m) \subseteq Threads
                /\ Current(m) \in {0, 1}

LEMMA PendingIs == \A m : CountsFit(m) /\ CountsFit(m)'
BY DEF CountsFit, Pending, Gets, Current, Waiting, Waiters

LEMMA ThreadSets ==
    ASSUME NEW S \in SUBSET Threads
    PROVE  IsFiniteSet(S) /\ Cardinality(S) \in Nat
<1>1. IsFiniteSet(Threads)
  <2>1. IsFiniteSet(Miners \union {Api})
    BY WorkIOAssumption, FS_AddElement DEF WorkIOAssumption
  <2>2. Threads = (Miners \union {Api}) \union {IO}
    BY DEF Threads
  <2>. QED  BY <2>1, <2>2, FS_AddElement
<1>. QED  BY <1>1, FS_Subset, FS_CardinalityType

\* How much answers and requests exceed waiting threads.
LEMMA OwedIs ==
    ASSUME IInv, NEW m \in Miners, pc[m] # "out", ~Ended
    PROVE  /\ Len(replies[m]) \in Nat
           /\ Cardinality(Gets(cmds, m)) \in Nat /\ Cardinality(Waiters(m)) \in Nat
           /\ Len(replies[m]) + Cardinality(Gets(cmds, m)) + Current(m) >= Cardinality(Waiters(m))
           /\ Alone => Len(replies[m]) + Cardinality(Gets(cmds, m)) + Current(m)
                          = Cardinality(Waiters(m))
<1>1. /\ Len(replies[m]) + Pending(m) >= Waiting(m)
      /\ Alone => Len(replies[m]) + Pending(m) = Waiting(m)
  BY DEF IInv, OneAnswerEach
<1>2. CountsFit(m)
  BY PendingIs
<1>3. replies[m] \in Seq(Pools \union {Null}) /\ cmds \in Seq(Cmd)
  BY DEF IInv, TypeOK
<1>4. /\ Len(replies[m]) \in Nat
      /\ Cardinality(Gets(cmds, m)) \in Nat /\ Cardinality(Waiters(m)) \in Nat
  BY <1>2, <1>3, GetsAreFinite, ThreadSets DEF CountsFit
<1>. QED  BY <1>1, <1>2, <1>4 DEF CountsFit

\* The numbers a step of the queues counts with.
LEMMA Numbers ==
    ASSUME TypeOK, TypeOK', NEW m \in Miners
    PROVE  /\ Len(replies[m]) \in Nat /\ Len(replies'[m]) \in Nat
           /\ Cardinality(Gets(cmds, m)) \in Nat /\ Cardinality(Gets(cmds', m)) \in Nat
           /\ Current(m) \in {0, 1} /\ Current(m)' \in {0, 1}
           /\ Cardinality(Waiters(m)) \in Nat /\ Cardinality(Waiters(m)') \in Nat
<1>1. /\ replies[m] \in Seq(Pools \union {Null}) /\ cmds \in Seq(Cmd)
      /\ replies'[m] \in Seq(Pools' \union {Null}) /\ cmds' \in Seq(Cmd)
  BY DEF TypeOK
<1>2. CountsFit(m) /\ CountsFit(m)'
  BY PendingIs
<1>. QED  BY <1>1, <1>2, GetsAreFinite, ThreadSets DEF CountsFit

\* What a step does to l answers, g requests in the queue, c in hand and w
\* waiting threads, which become k, h, d and v: nothing, or it asks, takes a
\* request, answers it, or pops the answer.
Shift(l, g, c, w, k, h, d, v) ==
    \/ k = l /\ h = g /\ d = c /\ v = w
    \/ k = l /\ h = g + 1 /\ d = c /\ v = w + 1
    \/ k = l /\ g = h + 1 /\ c = 0 /\ d = 1 /\ v = w
    \/ k = l + 1 /\ h = g /\ c = 1 /\ d = 0 /\ v = w
    \/ l = k + 1 /\ h = g /\ d = c /\ w = v + 1

\* An answer nobody asked for, or a thread that goes without one.
Excess(l, g, c, w, k, h, d, v) ==
    \/ k = l + 1 /\ h = g /\ c = 0 /\ d = 0 /\ v = w
    \/ k = l /\ h = g /\ d = c /\ w = v + 1

Keeps(l, g, c, w, k, h, d, v) ==
    /\ l + g + c >= w /\ (Shift(l, g, c, w, k, h, d, v) \/ Excess(l, g, c, w, k, h, d, v))
          => k + h + d >= v
    /\ l + g + c = w /\ Shift(l, g, c, w, k, h, d, v) => k + h + d = v

LEMMA Sums == \A l, g, c, w, k, h, d, v \in Nat : Keeps(l, g, c, w, k, h, d, v)
BY DEF Keeps, Shift, Excess

\* A step does not leave more waiting threads than answers and requests.
LEMMA OwedStep ==
    ASSUME IInv, TypeOK', NEW m \in Miners, Alone' = Alone,
           pc'[m] # "out" /\ ~Ended' =>
              /\ pc[m] # "out" /\ ~Ended
              /\ \/ Shift(Len(replies[m]), Cardinality(Gets(cmds, m)), Current(m),
                          Cardinality(Waiters(m)), Len(replies'[m]),
                          Cardinality(Gets(cmds', m)), Current(m)', Cardinality(Waiters(m)'))
                 \/ /\ ~Alone
                    /\ Excess(Len(replies[m]), Cardinality(Gets(cmds, m)), Current(m),
                              Cardinality(Waiters(m)), Len(replies'[m]),
                              Cardinality(Gets(cmds', m)), Current(m)', Cardinality(Waiters(m)'))
    PROVE  Owed(m)'
<1>. SUFFICES ASSUME pc'[m] # "out", ~Ended'
              PROVE  /\ Len(replies'[m]) + Pending(m)' >= Waiting(m)'
                     /\ Alone' => Len(replies'[m]) + Pending(m)' = Waiting(m)'
  BY DEF Owed
<1>1. /\ Len(replies[m]) + Cardinality(Gets(cmds, m)) + Current(m) >= Cardinality(Waiters(m))
      /\ Alone => Len(replies[m]) + Cardinality(Gets(cmds, m)) + Current(m)
                     = Cardinality(Waiters(m))
  BY OwedIs
<1>2. /\ Pending(m)' = Cardinality(Gets(cmds', m)) + Current(m)'
      /\ Waiting(m)' = Cardinality(Waiters(m)')
  BY PendingIs DEF CountsFit, Gets
<1>3. /\ Len(replies[m]) \in Nat /\ Len(replies'[m]) \in Nat
      /\ Cardinality(Gets(cmds, m)) \in Nat /\ Cardinality(Gets(cmds', m)) \in Nat
      /\ Current(m) \in {0, 1} /\ Current(m)' \in {0, 1}
      /\ Cardinality(Waiters(m)) \in Nat /\ Cardinality(Waiters(m)') \in Nat
  BY Numbers DEF IInv
<1>4. \/ Shift(Len(replies[m]), Cardinality(Gets(cmds, m)), Current(m), Cardinality(Waiters(m)),
               Len(replies'[m]), Cardinality(Gets(cmds', m)), Current(m)', Cardinality(Waiters(m)'))
      \/ /\ ~Alone
         /\ Excess(Len(replies[m]), Cardinality(Gets(cmds, m)), Current(m), Cardinality(Waiters(m)),
                   Len(replies'[m]), Cardinality(Gets(cmds', m)), Current(m)', Cardinality(Waiters(m)'))
  OBVIOUS
<1>5. Keeps(Len(replies[m]), Cardinality(Gets(cmds, m)), Current(m), Cardinality(Waiters(m)),
            Len(replies'[m]), Cardinality(Gets(cmds', m)), Current(m)', Cardinality(Waiters(m)'))
  <2>1. Current(m) \in Nat /\ Current(m)' \in Nat
    BY ONLY <1>3
  <2>. QED  BY ONLY <1>3, <2>1, Sums
<1>6. /\ Len(replies'[m]) + Cardinality(Gets(cmds', m)) + Current(m)' >= Cardinality(Waiters(m)')
      /\ Alone => Len(replies'[m]) + Cardinality(Gets(cmds', m)) + Current(m)'
                     = Cardinality(Waiters(m)')
  BY ONLY <1>1, <1>4, <1>5 DEF Keeps
<1>7. Len(replies'[m]) + Pending(m)' = Len(replies'[m]) + Cardinality(Gets(cmds', m)) + Current(m)'
  BY ONLY <1>2, <1>3
<1>. QED  BY <1>2, <1>6, <1>7

\* The set of waiting threads with one more or one less.
LEMMA WaitersPlus ==
    ASSUME NEW m, NEW b \in Threads, b \notin Waiters(m), Waiters(m)' = Waiters(m) \union {b}
    PROVE  Cardinality(Waiters(m)') = Cardinality(Waiters(m)) + 1
<1>1. IsFiniteSet(Waiters(m))
  BY ThreadSets DEF Waiters
<1>2. Cardinality(Waiters(m) \union {b}) = Cardinality(Waiters(m)) + 1
  BY <1>1, FS_AddElement
<1>. QED  BY <1>2

LEMMA WaitersMinus ==
    ASSUME NEW m, NEW b \in Waiters(m), Waiters(m)' = Waiters(m) \ {b}
    PROVE  Cardinality(Waiters(m)) = Cardinality(Waiters(m)') + 1
<1>1. IsFiniteSet(Waiters(m)) /\ Cardinality(Waiters(m)) \in Nat
  BY ThreadSets DEF Waiters
<1>2. Cardinality(Waiters(m) \ {b}) = Cardinality(Waiters(m)) - 1
  BY <1>1, FS_RemoveElement
<1>. QED  BY <1>1, <1>2

\* The commands after a push.
LEMMA AppendIs ==
    ASSUME NEW s \in Seq(Cmd), NEW c \in Cmd
    PROVE  /\ Len(s) \in Nat /\ Len(Append(s, c)) = Len(s) + 1
           /\ \A i \in 1..Len(s) : Append(s, c)[i] = s[i]
           /\ Append(s, c)[Len(s) + 1] = c
OBVIOUS

\* A thread b moves aside from the requests for work, and may wake others
\* where thread 0 is not alone.
Asides == {"top", "ready", "spend", "out", "options", "publish", "ask", "idle",
           "notify", "loop", "pop", "ended"}

LEMMA Aside ==
    ASSUME IInv, TypeOK', NEW b \in Threads, NEW next \in Asides,
           pc[b] \notin {"look", "asleep", "awake", "out", "ended"},
           pc'[b] = next,
           \A a \in Threads \ {b} : \/ pc'[a] = pc[a]
                                    \/ pc'[a] = "awake" /\ pc[a] = "asleep" /\ ~Alone,
           UNCHANGED <<conf, cmd, replies, glock, slock>>,
           \/ cmds' = cmds
           \/ \E c \in Cmd : /\ cmds' = Append(cmds, c)
                             /\ c.cmd # "get" /\ (c.cmd = "abort" => conf.pools = 1),
           b = IO => \/ next = "ended" \/ cmd.cmd # "get"
                     \/ pc[IO] \in {"loop", "pop"} <=> next \in {"loop", "pop"},
           next \in InSwitch => b = First \/ (b \notin Miners /\ ~Alone),
           Alone => next # "notify"
    PROVE  IInv'
<1>. USE Basics DEF IInv
<1>0. Alone' = Alone
  BY DEF Alone, FailsOver
<1>1. \A a \in Threads : Asking(a)' <=> Asking(a)
  BY DEF Asking, Asides
<1>2. Mutex'
  BY <1>1 DEF Mutex
<1>3. CmdFits'
  BY DEF CmdFits, Asides
<1>4. AbortFits'
  <2>1. pc'[IO] = "abort" => pc[IO] = "abort"
    BY DEF Asides
  <2>2. \A i \in 1..Len(cmds') : cmds'[i].cmd = "abort" => conf.pools = 1
    <3>1. CASE cmds' = cmds
      BY <3>1 DEF AbortFits
    <3>2. CASE cmds' # cmds
      <4>1. PICK c \in Cmd : cmds' = Append(cmds, c) /\ (c.cmd = "abort" => conf.pools = 1)
        BY <3>2
      <4>2. /\ Len(Append(cmds, c)) = Len(cmds) + 1 /\ Len(cmds) \in Nat
            /\ \A i \in 1..Len(cmds) : Append(cmds, c)[i] = cmds[i]
            /\ Append(cmds, c)[Len(cmds) + 1] = c
        BY AppendIs DEF TypeOK
      <4>. QED  BY <4>1, <4>2 DEF AbortFits
    <3>. QED  BY <3>1, <3>2
  <2>. QED  BY <2>1, <2>2 DEF AbortFits
<1>5. OnlyFirst'
  <2>1. ASSUME NEW m \in Miners, pc'[m] \in InSwitch PROVE m = First
    BY <2>1 DEF OnlyFirst, InSwitch
  <2>2. ASSUME Alone, NEW a \in {Api, IO} PROVE pc'[a] \notin InSwitch
    BY <2>2 DEF OnlyFirst, InSwitch
  <2>3. Alone => pc'[IO] # "notify"
    BY DEF OnlyFirst
  <2>. QED  BY <1>0, <1>1, <2>1, <2>2, <2>3 DEF OnlyFirst
<1>6. Woken'
  BY <1>0 DEF Woken, Asides
<1>7. ASSUME NEW m \in Miners PROVE Owed(m)'
  <2>0. /\ Len(replies[m]) \in Nat /\ Len(replies'[m]) \in Nat
        /\ Cardinality(Gets(cmds, m)) \in Nat /\ Cardinality(Gets(cmds', m)) \in Nat
        /\ Current(m) \in {0, 1} /\ Current(m)' \in {0, 1}
        /\ Cardinality(Waiters(m)) \in Nat /\ Cardinality(Waiters(m)') \in Nat
    BY Numbers
  <2>1. Waiters(m)' = Waiters(m)
    BY <1>1 DEF Waiters
  <2>2. Cardinality(Gets(cmds', m)) = Cardinality(Gets(cmds, m))
    <3>1. CASE cmds' = cmds
      BY <3>1 DEF Gets
    <3>2. CASE cmds' # cmds
      <4>1. PICK c \in Cmd : cmds' = Append(cmds, c) /\ c.cmd # "get"
        BY <3>2
      <4>2. cmds \in Seq(Cmd)
        BY DEF TypeOK
      <4>3. Cardinality(Gets(cmds', m)) = Cardinality(Gets(Append(cmds, c), m))
        BY <4>1 DEF Gets
      <4>. QED  BY <4>1, <4>2, <4>3, GetsAppend, GetsAreFinite
    <3>. QED  BY <3>1, <3>2
  <2>3. Ended' \/ Current(m)' = Current(m)
    BY DEF Ended, Current
  <2>4. Ended => Ended'
    BY DEF Ended
  <2>5. pc[m] = "out" => pc'[m] = "out"
    OBVIOUS
  <2>. QED  BY <1>0, <2>1, <2>2, <2>3, <2>4, <2>5, OwedStep DEF Shift
<1>. QED  BY <1>2, <1>3, <1>4, <1>5, <1>6, <1>7 DEF OneAnswerEach, Owed

\* A thread b asks for work, in its own name or in that of thread 0.
LEMMA Asks ==
    ASSUME IInv, TypeOK', NEW b \in Threads, ~Ended,
           pc[b] \notin {"look", "asleep", "awake", "out"},
           pc' = [pc EXCEPT ![b] = "look"],
           b = IO => ~Alone /\ pc[IO] \notin {"loop", "pop"},
           b = Api => ~Alone,
           UNCHANGED <<conf, cmd, replies>>,
           NEW c \in Cmd, cmds' = Append(cmds, c), c.cmd = "get", c.thr = Queue(b),
           \/ b \in Miners /\ glock = None /\ glock' = b /\ slock' = slock
           \/ slock = None /\ slock' = b /\ glock' = glock
    PROVE  IInv'
<1>. USE Basics DEF IInv
<1>0. Alone' = Alone /\ pc'[b] = "look" /\ \A a \in Threads \ {b} : pc'[a] = pc[a]
  BY DEF Alone, FailsOver, TypeOK
<1>1. \A a \in Threads : Asking(a)' <=> Asking(a) \/ a = b
  BY <1>0 DEF Asking
<1>2. Mutex'
  BY <1>1 DEF Mutex, Asking
<1>3. CmdFits'
  BY <1>0 DEF CmdFits
<1>4. AbortFits'
  <2>1. /\ Len(Append(cmds, c)) = Len(cmds) + 1 /\ Len(cmds) \in Nat
        /\ \A i \in 1..Len(cmds) : Append(cmds, c)[i] = cmds[i]
        /\ Append(cmds, c)[Len(cmds) + 1] = c
    BY AppendIs DEF TypeOK
  <2>. QED  BY <1>0, <2>1 DEF AbortFits
<1>5. OnlyFirst'
  BY <1>0, <1>1 DEF OnlyFirst, InSwitch
<1>6. Woken'
  BY <1>0 DEF Woken, Queue
<1>7. ASSUME NEW m \in Miners PROVE Owed(m)'
  <2>0. /\ Len(replies[m]) \in Nat /\ Len(replies'[m]) \in Nat
        /\ Cardinality(Gets(cmds, m)) \in Nat /\ Cardinality(Gets(cmds', m)) \in Nat
        /\ Current(m) \in {0, 1} /\ Current(m)' \in {0, 1}
        /\ Cardinality(Waiters(m)) \in Nat /\ Cardinality(Waiters(m)') \in Nat
    BY Numbers
  <2>1. Cardinality(Waiters(m)') = Cardinality(Waiters(m)) + (IF Queue(b) = m THEN 1 ELSE 0)
    <3>1. CASE Queue(b) = m
      <4>1. Waiters(m)' = Waiters(m) \union {b} /\ b \notin Waiters(m)
        BY <1>1, <3>1 DEF Waiters, Queue, Asking
      <4>. QED  BY <3>1, <4>1, WaitersPlus
    <3>2. CASE Queue(b) # m
      <4>1. Waiters(m)' = Waiters(m)
        BY <1>1, <3>2 DEF Waiters, Queue
      <4>. QED  BY <2>0, <3>2, <4>1
    <3>. QED  BY <3>1, <3>2
  <2>2. Cardinality(Gets(cmds', m)) = Cardinality(Gets(cmds, m)) + (IF Queue(b) = m THEN 1 ELSE 0)
    <3>1. cmds \in Seq(Cmd) /\ Gets(cmds', m) = Gets(Append(cmds, c), m)
      BY DEF TypeOK, Gets
    <3>. QED  BY <3>1, GetsAppend
  <2>3. Current(m)' = Current(m)
    BY <1>0 DEF Current
  <2>4. Ended => Ended'
    BY <1>0 DEF Ended
  <2>5. pc[m] = "out" => pc'[m] = "out"
    BY <1>0
  <2>6. replies' = replies
    OBVIOUS
  <2>7. Shift(Len(replies[m]), Cardinality(Gets(cmds, m)), Current(m), Cardinality(Waiters(m)),
              Len(replies'[m]), Cardinality(Gets(cmds', m)), Current(m)', Cardinality(Waiters(m)'))
    <3>1. CASE Queue(b) = m
      BY ONLY <2>1, <2>2, <2>3, <2>6, <3>1 DEF Shift
    <3>2. CASE Queue(b) # m
      <4>1. \A n \in Nat : n + 0 = n
        OBVIOUS
      <4>. QED  BY ONLY <2>0, <2>1, <2>2, <2>3, <2>6, <3>2, <4>1 DEF Shift
    <3>. QED  BY <3>1, <3>2
  <2>8. pc'[m] # "out" /\ ~Ended' => pc[m] # "out" /\ ~Ended
    BY <2>4, <2>5
  <2>. QED  BY <1>0, <2>7, <2>8, OwedStep
<1>. QED  BY <1>2, <1>3, <1>4, <1>5, <1>6, <1>7 DEF OneAnswerEach, Owed

\* The workio thread takes a command.
LEMMA Takes == ASSUME IInv, TypeOK', PopCommand PROVE IInv'
<1>. USE Basics DEF IInv
<1>0. /\ pc[IO] = "pop" /\ cmds # << >> /\ cmds \in Seq(Cmd)
      /\ cmd' = Head(cmds) /\ cmds' = Tail(cmds)
      /\ pc' = [pc EXCEPT ![IO] = Head(cmds).cmd]
      /\ UNCHANGED <<conf, replies, glock, slock>>
  BY DEF PopCommand, TypeOK, locks
<1>1. /\ Head(cmds) = cmds[1] /\ Head(cmds) \in Cmd /\ Len(cmds) \in Nat \ {0}
      /\ Len(Tail(cmds)) = Len(cmds) - 1
      /\ \A i \in 1..Len(cmds)-1 : Tail(cmds)[i] = cmds[i+1]
  BY <1>0
<1>2. Alone' = Alone
  BY <1>0 DEF Alone, FailsOver
<1>3. pc'[IO] = Head(cmds).cmd /\ Head(cmds).cmd \in {"get", "submit", "abort"}
      /\ \A a \in Threads \ {IO} : pc'[a] = pc[a]
  BY <1>0, <1>1 DEF TypeOK, Cmd
<1>4. \A a \in Threads : Asking(a)' <=> Asking(a)
  BY <1>0, <1>3 DEF Asking
<1>5. Mutex'
  BY <1>0, <1>4 DEF Mutex
<1>6. CmdFits'
  BY <1>0, <1>3 DEF CmdFits
<1>7. AbortFits'
  BY <1>0, <1>1, <1>3 DEF AbortFits
<1>8. OnlyFirst'
  BY <1>2, <1>3, <1>4 DEF OnlyFirst, InSwitch
<1>9. Woken'
  BY <1>0, <1>2, <1>3 DEF Woken, Queue
<1>10. ASSUME NEW m \in Miners PROVE Owed(m)'
  <2>0. /\ Len(replies[m]) \in Nat /\ Len(replies'[m]) \in Nat
        /\ Cardinality(Gets(cmds, m)) \in Nat /\ Cardinality(Gets(cmds', m)) \in Nat
        /\ Current(m) \in {0, 1} /\ Current(m)' \in {0, 1}
        /\ Cardinality(Waiters(m)) \in Nat /\ Cardinality(Waiters(m)') \in Nat
    BY Numbers
  <2>1. Waiters(m)' = Waiters(m)
    BY <1>4 DEF Waiters, Queue
  <2>2. /\ Cardinality(Gets(cmds, m)) = Cardinality(Gets(cmds', m))
              + (IF Head(cmds).cmd = "get" /\ Head(cmds).thr = m THEN 1 ELSE 0)
        /\ Cardinality(Gets(cmds', m)) \in Nat
    <3>1. Gets(cmds', m) = Gets(Tail(cmds), m) /\ Tail(cmds) \in Seq(Cmd)
      BY <1>0 DEF Gets
    <3>. QED  BY <1>0, <3>1, GetsTail, GetsAreFinite
  <2>3. /\ Current(m) = 0
        /\ Current(m)' = IF Head(cmds).cmd = "get" /\ Head(cmds).thr = m THEN 1 ELSE 0
    BY <1>0, <1>3 DEF Current
  <2>4. ~Ended /\ (pc[m] = "out" => pc'[m] = "out") /\ replies' = replies
    BY <1>0, <1>3 DEF Ended
  <2>7. Shift(Len(replies[m]), Cardinality(Gets(cmds, m)), Current(m), Cardinality(Waiters(m)),
              Len(replies'[m]), Cardinality(Gets(cmds', m)), Current(m)', Cardinality(Waiters(m)'))
    <3>1. CASE Head(cmds).cmd = "get" /\ Head(cmds).thr = m
      BY ONLY <2>1, <2>2, <2>3, <2>4, <3>1 DEF Shift
    <3>2. CASE ~(Head(cmds).cmd = "get" /\ Head(cmds).thr = m)
      <4>1. \A n \in Nat : n + 0 = n
        OBVIOUS
      <4>. QED  BY ONLY <2>1, <2>2, <2>3, <2>4, <3>2, <4>1 DEF Shift
    <3>. QED  BY <3>1, <3>2
  <2>8. pc'[m] # "out" /\ ~Ended' => pc[m] # "out" /\ ~Ended
    BY <2>4
  <2>. QED  BY <1>2, <2>7, <2>8, OwedStep
<1>. QED  BY <1>5, <1>6, <1>7, <1>8, <1>9, <1>10 DEF OneAnswerEach, Owed

\* The workio thread is back in its loop, and sleepers of one queue are awake.
LEMMA AnswerIs ==
    ASSUME TypeOK, NEW m \in Miners, NEW r, Answer(m, r, "loop"), pc[IO] = "get" \/ pc[IO] = "notify"
    PROVE  /\ pc'[IO] = "loop"
           /\ \A a \in Threads \ {IO} :
                 \/ pc'[a] = pc[a]
                 \/ pc'[a] = "awake" /\ pc[a] = "asleep" /\ Queue(a) = m
<1>. USE Basics
<1>. DEFINE at == [pc EXCEPT ![IO] = "loop"]
<1>1. pc' \in Signalled(m, at) /\ at \in [Threads -> Places] /\ pc[IO] # "asleep"
  BY DEF Answer, TypeOK, Places
<1>2. at[IO] = "loop" /\ \A a \in Threads \ {IO} : at[a] = pc[a]
  BY DEF TypeOK
<1>. HIDE DEF at
<1>3. \A a \in Threads : \/ pc'[a] = at[a]
                         \/ pc'[a] = "awake" /\ pc[a] = "asleep" /\ Queue(a) = m
  BY ONLY <1>1, SignalledIs
<1>. QED  BY <1>1, <1>2, <1>3

\* The workio thread answers.
LEMMA Answers ==
    ASSUME IInv, TypeOK', NEW r \in Pools \union {Null},
           Answer(cmd.thr, r, "loop"),
           pc[IO] = "get" \/ pc[IO] = "notify",
           UNCHANGED <<conf, cmds, cmd, glock, slock>>
    PROVE  IInv'
<1>. USE Basics DEF IInv
<1>0. cmd.thr \in Miners /\ Alone' = Alone
  BY DEF TypeOK, Cmd, NoCmd, Alone, FailsOver
<1>1. /\ pc'[IO] = "loop"
      /\ \A a \in Threads \ {IO} :
            \/ pc'[a] = pc[a]
            \/ pc'[a] = "awake" /\ pc[a] = "asleep" /\ Queue(a) = cmd.thr
  BY <1>0, AnswerIs
<1>2. \A a \in Threads : Asking(a)' <=> Asking(a)
  BY <1>1 DEF Asking
<1>3. Mutex'
  BY <1>2 DEF Mutex
<1>4. CmdFits'
  BY <1>1 DEF CmdFits
<1>5. AbortFits'
  BY <1>1 DEF AbortFits
<1>6. OnlyFirst'
  BY <1>0, <1>1, <1>2 DEF OnlyFirst, InSwitch
<1>7. replies' = IF Frozen(cmd.thr) THEN replies
                 ELSE [replies EXCEPT ![cmd.thr] = Append(replies[cmd.thr], r)]
  BY DEF Answer
<1>8. \A m \in Miners :
         /\ m # cmd.thr => replies'[m] = replies[m]
         /\ m = cmd.thr /\ pc[m] # "out" => replies'[m] = Append(replies[m], r)
         /\ pc[m] = "out" => replies'[m] = replies[m]
         /\ replies[m] \in Seq(Pools \union {Null})
  BY <1>0, <1>7 DEF TypeOK, Frozen
<1>9. ASSUME NEW m \in Miners
      PROVE  Append(replies[m], r) # << >> /\ Len(Append(replies[m], r)) = Len(replies[m]) + 1
  <2>1. replies[m] \in Seq(Pools \union {Null})
    BY <1>8
  <2>2. \A q \in Seq(Pools \union {Null}) :
           Append(q, r) # << >> /\ Len(Append(q, r)) = Len(q) + 1
    OBVIOUS
  <2>. QED  BY <2>1, <2>2
<1>10. Woken'
  <2>. SUFFICES ASSUME Alone, NEW a \in Threads, pc'[a] = "awake"
                PROVE  replies'[Queue(a)] # << >>
    BY <1>0 DEF Woken, Queue
  <2>1. a # IO /\ Asking(a) /\ a \in Miners /\ Queue(a) = a
    BY <1>1 DEF OnlyFirst, Asking, Queue
  <2>2. CASE pc[a] = "awake"
    BY <1>8, <1>9, <2>1, <2>2 DEF Woken
  <2>3. CASE pc[a] # "awake"
    BY <1>1, <1>8, <1>9, <2>1, <2>3
  <2>. QED  BY <2>2, <2>3
<1>11. ASSUME NEW m \in Miners PROVE Owed(m)'
  <2>0. /\ Len(replies[m]) \in Nat /\ Len(replies'[m]) \in Nat
        /\ Cardinality(Gets(cmds, m)) \in Nat /\ Cardinality(Gets(cmds', m)) \in Nat
        /\ Current(m) \in {0, 1} /\ Current(m)' \in {0, 1}
        /\ Cardinality(Waiters(m)) \in Nat /\ Cardinality(Waiters(m)') \in Nat
    BY Numbers
  <2>1. Waiters(m)' = Waiters(m) /\ cmds' = cmds
    BY <1>2 DEF Waiters, Queue
  <2>2. pc'[m] # "out" => pc[m] # "out" /\ ~Ended
    BY <1>1 DEF Ended
  <2>3. CASE m # cmd.thr
    <3>1. Current(m) = 0 /\ Current(m)' = 0 /\ replies'[m] = replies[m]
      BY <1>8, <2>3 DEF Current
    <3>. QED  BY <1>0, <2>1, <2>2, <3>1, OwedStep DEF Shift
  <2>4. CASE m = cmd.thr
    <3>1. Current(m)' = 0
      BY <1>1 DEF Current
    <3>2. Alone => Current(m) = 1
      BY <2>4 DEF Current, CmdFits, OnlyFirst
    <3>3. pc[m] # "out" => Len(replies'[m]) = Len(replies[m]) + 1
      BY <1>8, <1>9, <2>4
    <3>4. pc[m] # "out" =>
             \/ Shift(Len(replies[m]), Cardinality(Gets(cmds, m)), Current(m), Cardinality(Waiters(m)),
                      Len(replies'[m]), Cardinality(Gets(cmds', m)), Current(m)', Cardinality(Waiters(m)'))
             \/ /\ ~Alone
                /\ Excess(Len(replies[m]), Cardinality(Gets(cmds, m)), Current(m), Cardinality(Waiters(m)),
                          Len(replies'[m]), Cardinality(Gets(cmds', m)), Current(m)', Cardinality(Waiters(m)'))
      BY ONLY <2>0, <2>1, <3>1, <3>2, <3>3 DEF Shift, Excess
    <3>. QED  BY <1>0, <2>2, <3>4, OwedStep
  <2>. QED  BY <2>3, <2>4
<1>. QED  BY <1>3, <1>4, <1>5, <1>6, <1>10, <1>11 DEF OneAnswerEach, Owed

\* get_work returns: the thread gives its lock back and waits no more; it wakes
\* others only where a second thread pops the answers of thread 0.
LEMMA GotIs ==
    ASSUME IInv, NEW a \in Threads, Asking(a), pc[a] # "asleep", NEW r, Got(a, r)
    PROVE  /\ pc'[a] \in {"top", "ready", "out", "idle", "notify"}
           /\ \/ a \in Miners /\ glock = a /\ glock' = None /\ slock' = slock
              \/ slock = a /\ slock' = None /\ glock' = glock
           /\ \A b \in Threads \ {a} : \/ pc'[b] = pc[b]
                                       \/ pc'[b] = "awake" /\ pc[b] = "asleep" /\ ~Alone
           /\ a \in Miners => pc'[a] # "notify"
<1>. USE Basics DEF IInv
<1>0. pc \in [Threads -> Places]
  BY DEF TypeOK
<1>1. CASE slock = a
  <2>1. slock' = None /\ glock' = glock /\ pc' = [pc EXCEPT ![a] = Return(a)]
    BY <1>1 DEF Got, ToSwitch
  <2>2. pc'[a] = Return(a) /\ \A b \in Threads \ {a} : pc'[b] = pc[b]
    BY Zenon, <1>0, <2>1
  <2>. QED  BY <1>1, <2>1, <2>2 DEF Return
<1>2. CASE slock # a
  <2>1. glock = a /\ a \in Miners
    BY <1>2 DEF Mutex, TypeOK
  <2>2. glock' = None /\ slock' = slock
    BY <1>2 DEF Got, ToMiner
  <2>3. \/ Out(a) \/ pc' = [pc EXCEPT ![a] = "top"] \/ pc' = [pc EXCEPT ![a] = "ready"]
    BY <1>2 DEF Got, ToMiner, NoWork
  <2>4. CASE Out(a)
    <3>. DEFINE at == [pc EXCEPT ![a] = "out"]
    <3>0. pc' \in Signalled(a, at) /\ at \in [Threads -> Places]
      BY <1>0, <2>4 DEF Out, Places
    <3>1. at[a] = "out" /\ \A b \in Threads \ {a} : at[b] = pc[b]
      BY <1>0
    <3>. HIDE DEF at
    <3>4. \A b \in Threads : \/ pc'[b] = at[b]
                             \/ pc'[b] = "awake" /\ pc[b] = "asleep" /\ Queue(b) = a
      BY ONLY <3>0, SignalledIs
    <3>2. /\ pc'[a] = "out"
          /\ \A b \in Threads \ {a} : \/ pc'[b] = pc[b]
                                      \/ pc'[b] = "awake" /\ pc[b] = "asleep" /\ Queue(b) = a
      BY <3>1, <3>4
    <3>3. ASSUME NEW b \in Threads \ {a}, pc[b] = "asleep", Queue(b) = a PROVE ~Alone
      BY <3>3, <2>1 DEF OnlyFirst, Queue, Asking
    <3>. QED  BY <2>1, <2>2, <3>2, <3>3
  <2>5. CASE ~Out(a)
    BY <1>0, <2>1, <2>2, <2>3, <2>5
  <2>. QED  BY <2>4, <2>5
<1>. QED  BY <1>1, <1>2

\* A thread leaves the queue with r, which was the first answer there, or with
\* NULL when it was woken for nothing.
LEMMA Pops ==
    ASSUME IInv, TypeOK', NEW a \in Threads, Asking(a), pc[a] # "asleep", NEW r, Got(a, r),
           UNCHANGED <<conf, cmds, cmd>>,
           \/ /\ replies[Queue(a)] # << >>
              /\ replies' = [replies EXCEPT ![Queue(a)] = Tail(replies[Queue(a)])]
           \/ /\ replies[Queue(a)] = << >> /\ pc[a] = "awake"
              /\ replies' = replies
    PROVE  IInv'
<1>. USE Basics DEF IInv
<1>0. /\ pc'[a] \in {"top", "ready", "out", "idle", "notify"}
      /\ \/ a \in Miners /\ glock = a /\ glock' = None /\ slock' = slock
         \/ slock = a /\ slock' = None /\ glock' = glock
      /\ \A b \in Threads \ {a} : \/ pc'[b] = pc[b]
                                  \/ pc'[b] = "awake" /\ pc[b] = "asleep" /\ ~Alone
      /\ a \in Miners => pc'[a] # "notify"
  BY GotIs
<1>1. Alone' = Alone /\ \A m \in Miners : replies[m] \in Seq(Pools \union {Null})
  BY DEF Alone, FailsOver, TypeOK
<1>2. \A b \in Threads : Asking(b)' <=> Asking(b) /\ b # a
  BY <1>0 DEF Asking
<1>3. Mutex'
  BY <1>0, <1>2 DEF Mutex
<1>4. CmdFits'
  BY <1>0 DEF CmdFits
<1>5. AbortFits'
  BY <1>0 DEF AbortFits
<1>6. OnlyFirst'
  BY <1>0, <1>1, <1>2 DEF OnlyFirst, InSwitch
<1>7. \A m \in Miners : m # Queue(a) => replies'[m] = replies[m]
  BY <1>1 DEF TypeOK
<1>8. Woken'
  <2>. SUFFICES ASSUME Alone, NEW b \in Threads, pc'[b] = "awake"
                PROVE  replies'[Queue(b)] # << >>
    BY <1>1 DEF Woken, Queue
  <2>1. b # a /\ pc[b] = "awake"
    BY <1>0
  <2>2. a \in Miners /\ b \in Miners
    BY <2>1 DEF OnlyFirst, Asking
  <2>. QED  BY <1>7, <2>1, <2>2 DEF Woken, Queue
<1>9. replies[Queue(a)] # << >> =>
         Len(replies[Queue(a)]) = Len(replies'[Queue(a)]) + 1
  <2>1. \A q \in Seq(Pools \union {Null}) : q # << >> => Len(q) = Len(Tail(q)) + 1
    OBVIOUS
  <2>2. replies \in [Miners -> Seq(Pools \union {Null})]
    BY DEF TypeOK
  <2>. QED  BY <2>1, <2>2
<1>10. replies[Queue(a)] = << >> => ~Alone /\ replies' = replies
  BY DEF Woken
<1>11. ASSUME NEW m \in Miners PROVE Owed(m)'
  <2>0. /\ Len(replies[m]) \in Nat /\ Len(replies'[m]) \in Nat
        /\ Cardinality(Gets(cmds, m)) \in Nat /\ Cardinality(Gets(cmds', m)) \in Nat
        /\ Current(m) \in {0, 1} /\ Current(m)' \in {0, 1}
        /\ Cardinality(Waiters(m)) \in Nat /\ Cardinality(Waiters(m)') \in Nat
    BY Numbers
  <2>1. Cardinality(Gets(cmds', m)) = Cardinality(Gets(cmds, m))
    OBVIOUS
  <2>2. Current(m)' = Current(m)
    BY <1>0 DEF Current, Asking
  <2>3. pc'[m] # "out" /\ ~Ended' => pc[m] # "out" /\ ~Ended
    BY <1>0 DEF Ended, Asking
  <2>4. CASE m # Queue(a)
    <3>1. replies'[m] = replies[m]
      BY <1>7, <2>4
    <3>2. Waiters(m)' = Waiters(m)
      BY <1>2, <2>4 DEF Waiters, Queue
    <3>. QED  BY <1>1, <2>1, <2>2, <2>3, <3>1, <3>2, OwedStep DEF Shift
  <2>5. CASE m = Queue(a)
    <3>1. a \in Waiters(m) /\ Waiters(m)' = Waiters(m) \ {a}
      BY <1>2, <2>5 DEF Waiters, Queue
    <3>2. Cardinality(Waiters(m)) = Cardinality(Waiters(m)') + 1
      BY <3>1, WaitersMinus
    <3>3. \/ Shift(Len(replies[m]), Cardinality(Gets(cmds, m)), Current(m), Cardinality(Waiters(m)),
                   Len(replies'[m]), Cardinality(Gets(cmds', m)), Current(m)', Cardinality(Waiters(m)'))
          \/ /\ ~Alone
             /\ Excess(Len(replies[m]), Cardinality(Gets(cmds, m)), Current(m), Cardinality(Waiters(m)),
                       Len(replies'[m]), Cardinality(Gets(cmds', m)), Current(m)', Cardinality(Waiters(m)'))
      <4>1. CASE replies[m] # << >>
        <5>1. Len(replies[m]) = Len(replies'[m]) + 1
          BY <1>9, <2>5, <4>1
        <5>. QED  BY ONLY <2>1, <2>2, <3>2, <5>1 DEF Shift
      <4>2. CASE replies[m] = << >>
        <5>1. ~Alone /\ Len(replies'[m]) = Len(replies[m])
          BY <1>10, <2>5, <4>2
        <5>. QED  BY ONLY <2>1, <2>2, <3>2, <5>1 DEF Excess
      <4>. QED  BY <4>1, <4>2
    <3>. QED  BY <1>1, <2>3, <3>3, OwedStep
  <2>. QED  BY <2>4, <2>5
<1>. QED  BY <1>3, <1>4, <1>5, <1>6, <1>8, <1>11 DEF OneAnswerEach, Owed

\* A thread leaves the loop, out of tq_pop: nobody but a second popper of its
\* queue can be woken.
LEMMA OutIs ==
    ASSUME IInv, NEW m \in Miners, ~Asking(m), Out(m)
    PROVE  /\ pc'[m] = "out"
           /\ \A b \in Threads \ {m} : \/ pc'[b] = pc[b]
                                       \/ pc'[b] = "awake" /\ pc[b] = "asleep" /\ ~Alone
<1>. USE Basics DEF IInv
<1>. DEFINE at == [pc EXCEPT ![m] = "out"]
<1>1. pc' \in Signalled(m, at) /\ at \in [Threads -> Places]
  BY DEF Out, TypeOK, Places
<1>2. at[m] = "out" /\ \A b \in Threads \ {m} : at[b] = pc[b]
  BY DEF TypeOK
<1>. HIDE DEF at
<1>3. \A b \in Threads : \/ pc'[b] = at[b]
                         \/ pc'[b] = "awake" /\ pc[b] = "asleep" /\ Queue(b) = m
  BY ONLY <1>1, SignalledIs
<1>4. ASSUME NEW b \in Threads \ {m}, pc[b] = "asleep", Queue(b) = m PROVE ~Alone
  BY <1>4 DEF OnlyFirst, Queue, Asking
<1>. QED  BY <1>2, <1>3, <1>4 DEF Asking

\* Other threads stay where they are.
LEMMA MoveIs ==
    ASSUME TypeOK, NEW b \in Threads, NEW next, pc' = [pc EXCEPT ![b] = next]
    PROVE  pc'[b] = next /\ \A a \in Threads \ {b} : pc'[a] = pc[a]
BY DEF TypeOK

\* The steps of the miner threads.
LEMMA MinersKeep ==
    ASSUME IInv, TypeOK', NEW m \in Miners, MinerStep(m)
    PROVE  IInv'
<1>. USE Basics DEF IInv
<1>1. CASE AskWork(m)
  <2>. DEFINE c == [cmd |-> "get", thr |-> m, pool |-> cur]
  <2>0. /\ pc[m] = "top" /\ glock = None /\ Command(c) /\ c \in Cmd /\ c.cmd = "get" /\ c.thr = m
        /\ UNCHANGED <<conf, cmd, replies, slock>>
    BY <1>1 DEF AskWork, Cmd, TypeOK
  <2>1. CASE Ended
    <3>1. glock' = glock /\ NoWork(m) /\ cmds' = cmds
      BY <1>1, <2>0, <2>1 DEF AskWork, Command
    <3>2. CASE Out(m)
      BY <2>0, <3>1, <3>2, OutIs, Aside DEF Asides, InSwitch, Asking
    <3>3. CASE ~Out(m)
      <4>1. pc' = [pc EXCEPT ![m] = "top"]
        BY <3>1, <3>3 DEF NoWork
      <4>. QED  BY <2>0, <3>1, <4>1, MoveIs, Aside DEF Asides, InSwitch
    <3>. QED  BY <3>2, <3>3
  <2>2. CASE ~Ended
    <3>1. /\ glock' = m /\ slock' = slock /\ pc' = [pc EXCEPT ![m] = "look"]
          /\ cmds' = Append(cmds, c)
      BY <1>1, <2>2 DEF AskWork, Command
    <3>2. Queue(m) = m
      BY DEF Queue
    <3>. HIDE DEF c
    <3>. QED  BY <2>0, <2>2, <3>1, <3>2, Asks
  <2>. QED  BY <2>1, <2>2
<1>2. CASE KeepWork(m)
  <2>1. pc[m] = "top" /\ pc' = [pc EXCEPT ![m] = "ready"]
        /\ UNCHANGED <<conf, cmds, cmd, replies, glock, slock>>
    BY <1>2 DEF KeepWork, queues, locks
  <2>. QED  BY <2>1, MoveIs, Aside DEF Asides, InSwitch
<1>3. CASE Leave(m)
  <2>1. pc[m] = "top" /\ Out(m) /\ UNCHANGED <<conf, cmds, cmd, replies, glock, slock>>
    BY <1>3 DEF Leave, queues, locks
  <2>. QED  BY <2>1, OutIs, Aside DEF Asides, InSwitch, Asking
<1>4. CASE Idle(m)
  <2>1. pc[m] = "ready" /\ pc' = [pc EXCEPT ![m] = "top"]
        /\ UNCHANGED <<conf, cmds, cmd, replies, glock, slock>>
    BY <1>4 DEF Idle, queues, locks
  <2>. QED  BY <2>1, MoveIs, Aside DEF Asides, InSwitch
<1>5. CASE Stop(m)
  <2>. DEFINE c == [cmd |-> "abort", thr |-> m, pool |-> 0]
  <2>1. /\ pc[m] = "ready" /\ Out(m) /\ conf.pools = 1
        /\ UNCHANGED <<conf, cmd, replies, glock, slock>>
    BY <1>5 DEF Stop, locks
  <2>2. c \in Cmd /\ c.cmd = "abort" /\ (cmds' = cmds \/ cmds' = Append(cmds, c))
    BY <1>5 DEF Stop, TellAll, Command, Cmd
  <2>. HIDE DEF c
  <2>3. /\ pc'[m] = "out"
        /\ \A b \in Threads \ {m} : \/ pc'[b] = pc[b]
                                    \/ pc'[b] = "awake" /\ pc[b] = "asleep" /\ ~Alone
    BY <2>1, OutIs DEF Asking
  <2>4. "out" \in Asides /\ "out" \notin InSwitch
    BY DEF Asides, InSwitch
  <2>. QED  BY <2>1, <2>2, <2>3, <2>4, Aside
<1>6. CASE Submit(m)
  <2>. DEFINE c == [cmd |-> "submit", thr |-> m, pool |-> mine[m]]
  <2>1. /\ pc[m] = "ready"
        /\ UNCHANGED <<conf, cmd, replies, glock, slock>>
        /\ Out(m) \/ pc' = [pc EXCEPT ![m] = "spend"]
    BY <1>6 DEF Submit, locks
  <2>2. c \in Cmd /\ c.cmd = "submit" /\ (cmds' = cmds \/ cmds' = Append(cmds, c))
    BY <1>6 DEF Submit, Command, Cmd, TypeOK
  <2>. HIDE DEF c
  <2>3. /\ pc'[m] \in {"out", "spend"}
        /\ \A b \in Threads \ {m} : \/ pc'[b] = pc[b]
                                    \/ pc'[b] = "awake" /\ pc[b] = "asleep" /\ ~Alone
    <3>1. CASE Out(m)
      BY <2>1, <3>1, OutIs DEF Asking
    <3>2. CASE pc' = [pc EXCEPT ![m] = "spend"]
      BY <3>2, MoveIs
    <3>. QED  BY <2>1, <3>1, <3>2
  <2>4. pc'[m] \in Asides /\ pc'[m] \notin InSwitch /\ pc'[m] # "notify"
    BY <2>3 DEF Asides, InSwitch
  <2>. QED  BY <2>1, <2>2, <2>3, <2>4, Aside
<1>7. CASE Spend(m)
  <2>1. pc[m] = "spend" /\ pc' = [pc EXCEPT ![m] = "top"]
        /\ UNCHANGED <<conf, cmds, cmd, replies, glock, slock>>
    BY <1>7 DEF Spend, queues, locks
  <2>. QED  BY <2>1, MoveIs, Aside DEF Asides, InSwitch
<1>8. CASE Rotate(m)
  <2>1. /\ pc[m] = "ready" /\ pc' = [pc EXCEPT ![m] = "options"]
        /\ UNCHANGED <<conf, cmds, cmd, replies, glock, slock>>
    BY <1>8 DEF Rotate, BeginSwitch, queues, locks
  <2>2. m = First
    BY <1>8 DEF Rotate, ConfigType
  <2>. QED  BY <2>1, <2>2, MoveIs, Aside DEF Asides, InSwitch
<1>. QED  BY <1>1, <1>2, <1>3, <1>4, <1>5, <1>6, <1>7, <1>8 DEF MinerStep

\* The steps of pool_switch, and the pops of all threads.
LEMMA SwitchesKeep ==
    ASSUME IInv, TypeOK', NEW a \in Threads, SwitchStep(a)
    PROVE  IInv'
<1>. USE Basics DEF IInv
<1>0. /\ pc[a] \in InSwitch => a = First \/ (a \notin Miners /\ ~Alone)
      /\ Return(a) \in {"top", "idle", "notify"} /\ (a # IO => Return(a) # "notify")
  BY DEF OnlyFirst, Return
<1>1. CASE Options(a)
  <2>1. pc[a] = "options" /\ pc' = [pc EXCEPT ![a] = "publish"]
        /\ UNCHANGED <<conf, cmds, cmd, replies, glock, slock>>
    BY <1>1 DEF Options, queues, locks
  <2>. QED  BY <1>0, <2>1, MoveIs, Aside DEF Asides, InSwitch
<1>2. CASE Publish(a)
  <2>1. /\ pc[a] = "publish" /\ UNCHANGED <<conf, cmds, cmd, replies, glock, slock>>
        /\ pc' = [pc EXCEPT ![a] = "ask"] \/ pc' = [pc EXCEPT ![a] = Return(a)]
    BY <1>2 DEF Publish, queues, locks
  <2>2. /\ pc'[a] \in {"ask", "top", "idle", "notify"} /\ (a # IO => pc'[a] # "notify")
        /\ \A b \in Threads \ {a} : pc'[b] = pc[b]
    BY <1>0, <2>1, MoveIs
  <2>3. /\ pc[a] \in InSwitch /\ pc'[a] \in Asides /\ pc'[a] \notin {"loop", "pop"}
        /\ pc[a] \notin {"look", "asleep", "awake", "out", "ended", "loop", "pop"}
        /\ Alone => pc'[a] # "notify"
    BY <1>0, <2>1, <2>2 DEF Asides, InSwitch
  <2>. QED  BY <1>0, <2>1, <2>2, <2>3, Aside
<1>3. CASE AskSwitched(a)
  <2>. DEFINE c == [cmd |-> "get", thr |-> First, pool |-> cur]
  <2>0. /\ pc[a] = "ask" /\ slock = None /\ Command(c) /\ c \in Cmd /\ c.cmd = "get" /\ c.thr = First
        /\ UNCHANGED <<conf, cmd, replies, glock>>
    BY <1>3 DEF AskSwitched, Cmd, TypeOK
  <2>1. CASE Ended
    <3>1. slock' = slock /\ cmds' = cmds /\ pc' = [pc EXCEPT ![a] = Return(a)]
      BY <1>3, <2>0, <2>1 DEF AskSwitched, Command
    <3>2. /\ pc'[a] \in {"top", "idle"}
          /\ \A b \in Threads \ {a} : pc'[b] = pc[b]
      BY <1>0, <2>0, <2>1, <3>1, MoveIs DEF Ended
    <3>3. /\ pc'[a] \in Asides /\ pc'[a] \notin {"loop", "pop", "notify"} /\ pc'[a] \notin InSwitch
          /\ pc[a] \notin {"look", "asleep", "awake", "out", "ended", "loop", "pop"}
      BY <2>0, <3>2 DEF Asides, InSwitch
    <3>. QED  BY <2>0, <3>1, <3>2, <3>3, Aside
  <2>2. CASE ~Ended
    <3>1. /\ slock' = a /\ pc' = [pc EXCEPT ![a] = "look"]
          /\ cmds' = Append(cmds, c)
      BY <1>3, <2>0, <2>2 DEF AskSwitched, Command
    <3>2. Queue(a) = First /\ (a \in {Api, IO} => ~Alone)
      BY <1>0, <2>0 DEF Queue, InSwitch
    <3>3. pc[a] \notin {"look", "asleep", "awake", "out", "loop", "pop"}
      BY <2>0
    <3>. HIDE DEF c
    <3>. QED  BY <2>0, <2>2, <3>1, <3>2, <3>3, Asks
  <2>. QED  BY <2>1, <2>2
<1>4. CASE PopAnswer(a)
  <2>0. pc[a] \in {"look", "awake"} /\ UNCHANGED <<conf, cmds, cmd>>
    BY <1>4 DEF PopAnswer
  <2>1. CASE replies[Queue(a)] # << >>
    <3>1. /\ Got(a, Head(replies[Queue(a)]))
          /\ replies' = [replies EXCEPT ![Queue(a)] = Tail(replies[Queue(a)])]
      BY <1>4, <2>1 DEF PopAnswer
    <3>. QED  BY <2>0, <2>1, <3>1, Pops DEF Asking
  <2>2. CASE replies[Queue(a)] = << >> /\ pc[a] = "awake"
    <3>1. Got(a, Null) /\ replies' = replies
      BY <1>4, <2>2 DEF PopAnswer
    <3>. QED  BY <2>0, <2>2, <3>1, Pops DEF Asking
  <2>3. CASE replies[Queue(a)] = << >> /\ pc[a] # "awake"
    <3>1. /\ pc' = [pc EXCEPT ![a] = "asleep"] /\ pc[a] = "look"
          /\ UNCHANGED <<conf, cmds, cmd, replies, glock, slock>>
      BY <1>4, <2>0, <2>3 DEF PopAnswer, locks
    <3>2. pc'[a] = "asleep" /\ \A b \in Threads \ {a} : pc'[b] = pc[b]
      BY <3>1, MoveIs
    <3>3. \A b \in Threads : Asking(b)' <=> Asking(b)
      BY <3>1, <3>2 DEF Asking
    <3>4. Alone' = Alone
      BY <3>1 DEF Alone, FailsOver
    <3>5. Mutex' /\ CmdFits' /\ AbortFits' /\ OnlyFirst' /\ Woken'
      <4>1. Mutex'
        BY <3>1, <3>3 DEF Mutex
      <4>2. CmdFits' /\ AbortFits'
        BY <3>1, <3>2 DEF CmdFits, AbortFits
      <4>3. OnlyFirst'
        BY <3>2, <3>3, <3>4 DEF OnlyFirst, InSwitch
      <4>4. Woken'
        BY <3>1, <3>2, <3>4 DEF Woken, Queue
      <4>. QED  BY <4>1, <4>2, <4>3, <4>4
    <3>6. ASSUME NEW m \in Miners PROVE Owed(m)'
      <4>1. Waiters(m)' = Waiters(m) /\ Current(m)' = Current(m)
        <5>1. Waiters(m)' = Waiters(m)
          BY <3>3 DEF Waiters, Queue
        <5>2. Current(m)' = Current(m)
          BY <3>1, <3>2 DEF Current
        <5>. QED  BY <5>1, <5>2
      <4>2. pc'[m] # "out" /\ ~Ended' => pc[m] # "out" /\ ~Ended
        BY <3>1, <3>2 DEF Ended
      <4>. QED  BY <3>1, <3>4, <4>1, <4>2, OwedStep DEF Shift
    <3>. QED  BY <3>5, <3>6 DEF OneAnswerEach, Owed
  <2>. QED  BY <2>1, <2>2, <2>3
<1>. QED  BY <1>1, <1>2, <1>3, <1>4 DEF SwitchStep

\* A step that touches neither the queues nor the threads nor the locks.
LEMMA StillKeeps ==
    ASSUME IInv, TypeOK', UNCHANGED <<conf, cmds, cmd, replies, pc, glock, slock>>
    PROVE  IInv'
<1>1. Mutex' /\ CmdFits' /\ AbortFits'
  BY DEF IInv, Mutex, CmdFits, AbortFits, Asking
<1>2. OnlyFirst' /\ Woken'
  BY DEF IInv, OnlyFirst, Woken, InSwitch, Asking, Alone, FailsOver, Queue
<1>3. \A m : Pending(m)' = Pending(m) /\ Waiting(m)' = Waiting(m)
  BY DEF Pending, Waiting, Asking, Queue
<1>4. OneAnswerEach'
  BY <1>3 DEF IInv, OneAnswerEach, Ended, Alone, FailsOver
<1>. QED  BY <1>1, <1>2, <1>4 DEF IInv

\* The steps of the workio thread, and those of the API thread and of main.
LEMMA WorkioKeeps ==
    ASSUME IInv, TypeOK', WorkioStep \/ ApiSwitch \/ MainAborts \/ UNCHANGED vars
    PROVE  IInv'
<1>. USE Basics DEF IInv
<1>1. CASE Loop
  <2>1. /\ pc[IO] = "loop" /\ UNCHANGED <<conf, cmds, cmd, replies, glock, slock>>
        /\ pc' = [pc EXCEPT ![IO] = IF abort THEN "ended" ELSE "pop"]
    BY <1>1 DEF Loop, queues, locks
  <2>2. pc'[IO] \in {"ended", "pop"} /\ \A b \in Threads \ {IO} : pc'[b] = pc[b]
    BY <2>1, MoveIs
  <2>. QED  BY <2>1, <2>2, Aside DEF Asides, InSwitch
<1>2. CASE GetWorks \/ GetOutdated \/ Notify
  <2>1. /\ pc[IO] \in {"get", "notify"}
        /\ UNCHANGED <<conf, cmds, cmd, glock, slock>>
    BY <1>2 DEF GetWorks, GetOutdated, Notify, locks
  <2>2. \E r \in Pools \union {Null} : Answer(cmd.thr, r, "loop")
    BY <1>2 DEF GetWorks, GetOutdated, Refuse, Notify, TypeOK
  <2>. QED  BY <2>1, <2>2, Answers
<1>3. CASE SubmitEnds
  <2>1. /\ pc[IO] = "submit" /\ UNCHANGED <<conf, cmds, cmd, replies, glock, slock>>
        /\ pc' = [pc EXCEPT ![IO] = "loop"]
    BY <1>3 DEF SubmitEnds, queues, locks
  <2>2. cmd.cmd # "get"
    BY <2>1 DEF CmdFits
  <2>. QED  BY <2>1, <2>2, MoveIs, Aside DEF Asides, InSwitch
<1>4. CASE GiveUp
  <2>1. /\ pc[IO] \in {"get", "submit", "abort"}
        /\ pc[IO] \in {"get", "submit"} => conf.retries >= 0
        /\ UNCHANGED <<conf, cmds, cmd, replies, glock, slock>>
    BY <1>4 DEF GiveUp, queues, locks
  <2>2. CASE conf.pools > 1 /\ conf.failover
    <3>1. pc' = [pc EXCEPT ![IO] = "options"]
      BY <1>4, <2>2 DEF GiveUp, BeginSwitch
    <3>2. ~Alone
      BY <2>1, <2>2 DEF AbortFits, Alone, FailsOver
    <3>. QED  BY <2>1, <3>1, <3>2, MoveIs, Aside DEF Asides, InSwitch
  <2>3. CASE ~(conf.pools > 1 /\ conf.failover)
    <3>1. pc' = [pc EXCEPT ![IO] = "ended"]
      BY <1>4, <2>3 DEF GiveUp
    <3>. QED  BY <2>1, <3>1, MoveIs, Aside DEF Asides, InSwitch
  <2>. QED  BY <2>2, <2>3
<1>5. CASE ApiSwitch
  <2>1. /\ pc[Api] = "idle" /\ pc' = [pc EXCEPT ![Api] = "options"]
        /\ UNCHANGED <<conf, cmds, cmd, replies, glock, slock>>
    BY <1>5 DEF ApiSwitch, BeginSwitch, queues, locks
  <2>2. ~Alone
    BY <1>5 DEF ApiSwitch, Alone
  <2>. QED  BY <2>1, <2>2, MoveIs, Aside DEF Asides, InSwitch
<1>6. CASE TryAgain \/ MainAborts \/ UNCHANGED vars
  <2>1. UNCHANGED <<conf, cmds, cmd, replies, pc, glock, slock>>
    BY <1>6 DEF TryAgain, MainAborts, vars, queues, locks
  <2>. QED  BY <2>1, StillKeeps
<1>. QED  BY <1>1, <1>2, <1>3, <1>4, <1>5, <1>6, Takes DEF WorkioStep

LEMMA IInvNext == IInv /\ [Next]_vars => IInv'
<1>. SUFFICES ASSUME IInv, [Next]_vars PROVE IInv'
  OBVIOUS
<1>1. TypeOK'
  BY TypesNext DEF IInv
<1>. QED  BY <1>1, MinersKeep, SwitchesKeep, WorkioKeeps DEF Next, Done

LEMMA IInvInit == Init => IInv
<1>. SUFFICES ASSUME Init PROVE IInv
  OBVIOUS
<1>1. TypeOK
  BY TypesInit
<1>2. \A a \in Threads : ~Asking(a) /\ pc[a] \in {"loop", "idle", "top"}
  BY DEF Init, Asking
<1>3. Mutex /\ CmdFits /\ AbortFits /\ OnlyFirst /\ Woken
  <2>1. Mutex
    BY <1>1, <1>2, Basics DEF Mutex, Init
  <2>2. pc[IO] \in {"loop", "idle", "top"} /\ Len(cmds) = 0
    BY <1>1, <1>2, Basics DEF Init
  <2>3. CmdFits /\ AbortFits
    BY <2>2 DEF CmdFits, AbortFits
  <2>4. OnlyFirst /\ Woken
    BY <1>1, <1>2, <2>2, Basics DEF OnlyFirst, Woken, InSwitch
  <2>. QED  BY <2>1, <2>3, <2>4
<1>4. OneAnswerEach
  <2>. SUFFICES ASSUME NEW m \in Miners
                PROVE  Len(replies[m]) + Pending(m) = 0 /\ Waiting(m) = 0
    BY DEF OneAnswerEach
  <2>1. Waiters(m) = {} /\ Gets(cmds, m) = {} /\ Len(replies[m]) = 0 /\ Current(m) = 0
    BY <1>2 DEF Waiters, Gets, Init, Current, NoCmd
  <2>2. Pending(m) = Cardinality(Gets(cmds, m)) + Current(m) /\ Waiting(m) = Cardinality(Waiters(m))
    BY PendingIs DEF CountsFit
  <2>3. Cardinality({}) = 0
    BY FS_EmptySet
  <2>. QED  BY <2>1, <2>2, <2>3
<1>. QED  BY <1>1, <1>3, <1>4 DEF IInv

\* g_work_lock and stratum_work_lock are held by threads that wait for an
\* answer in get_work, and by no others (gbxminer.cpp:1859, pools.cpp:274).
THEOREM LocksWait == Spec => []Mutex
<1>1. IInv => Mutex
  BY DEF IInv
<1>. QED  BY <1>1, IInvInit, IInvNext, PTL DEF Spec

\* Whoever waits in get_work has an answer coming, and where nobody but thread
\* 0 asks in its name none is left over for a later request.
THEOREM AnswersFit == Spec => []OneAnswerEach
<1>1. IInv => OneAnswerEach
  BY DEF IInv
<1>. QED  BY <1>1, IInvInit, IInvNext, PTL DEF Spec
-----------------------------------------------------------------------------
\* Why a miner thread ends.
Survives == PrevFits /\ Explained

\* A thread b takes a step outside of the window of a switch, or within it, and
\* no answer NULL comes up.
LEMMA Quiet ==
    ASSUME IInv, Survives, TypeOK', NEW b \in Threads,
           \A a \in Threads \ {b} : \/ pc'[a] = pc[a]
                                    \/ pc'[a] = "awake" /\ pc[a] = "asleep",
           b = First => (pc'[b] \in {"options", "publish"} <=> pc[b] \in {"options", "publish"}),
           pc[b] \in {"out", "ended"} => pc'[b] = pc[b],
           UNCHANGED <<conf, cur, prev, seen, switches>>,
           Alone /\ ~Ended' => \A m \in Miners : NullComes(m)' => NullComes(m)
    PROVE  Survives'
<1>. USE Basics DEF IInv, Survives
<1>1. Alone' = Alone
  BY DEF Alone, FailsOver
<1>2. InWindow' <=> InWindow
  BY DEF InWindow
<1>3. PrevFits'
  BY <1>1, <1>2 DEF PrevFits
<1>4. ASSUME NEW m \in Miners PROVE (pc[m] = "out" => pc'[m] = "out") /\ (Ended => Ended')
  BY DEF Ended
<1>5. Explained'
  BY <1>1, <1>2, <1>4 DEF Explained
<1>. QED  BY <1>3, <1>5

\* A command that asks the current pool brings no NULL.
LEMMA NoNull ==
    ASSUME TypeOK, NEW m \in Miners,
           \/ cmds' = cmds
           \/ \E c \in Cmd : cmds' = Append(cmds, c) /\ (c.cmd = "get" => c.pool = cur),
           pc'[IO] = "get" => pc[IO] = "get",
           UNCHANGED <<cur, cmd, replies>>,
           NullComes(m)'
    PROVE  NullComes(m)
<1>1. CASE cmds' = cmds
  BY <1>1 DEF NullComes
<1>2. CASE cmds' # cmds
  <2>1. PICK c \in Cmd : cmds' = Append(cmds, c) /\ (c.cmd = "get" => c.pool = cur)
    BY <1>2
  <2>2. /\ Len(Append(cmds, c)) = Len(cmds) + 1 /\ Len(cmds) \in Nat
        /\ \A i \in 1..Len(cmds) : Append(cmds, c)[i] = cmds[i]
        /\ Append(cmds, c)[Len(cmds) + 1] = c
    BY AppendIs DEF TypeOK
  <2>3. ASSUME NEW i \in 1..Len(cmds'),
               cmds'[i].cmd = "get" /\ cmds'[i].thr = m /\ cmds'[i].pool # cur
        PROVE  NullComes(m)
    <3>1. i # Len(cmds) + 1
      BY <2>1, <2>2, <2>3
    <3>2. i \in 1..Len(cmds) /\ cmds'[i] = cmds[i]
      BY <2>1, <2>2, <2>3, <3>1
    <3>. QED  BY <2>3, <3>2 DEF NullComes
  <2>. QED  BY <2>3 DEF NullComes
<1>. QED  BY <1>1, <1>2

\* The next pool is another one where there are several.
LEMMA NextPoolDiffers ==
    ASSUME TypeOK, conf.pools > 1
    PROVE  NextPool # cur
<1>1. conf.pools \in Nat /\ cur \in 0..conf.pools-1
  BY Basics DEF TypeOK, Pools
<1>. QED  BY <1>1 DEF NextPool

\* The steps of the miner threads.
LEMMA MinersExplained ==
    ASSUME IInv, Survives, TypeOK', NEW m \in Miners, MinerStep(m)
    PROVE  Survives'
<1>. USE Basics DEF IInv
<1>0. pc \in [Threads -> Places] /\ m # IO
  BY DEF TypeOK
<1>1. CASE AskWork(m)
  <2>. DEFINE c == [cmd |-> "get", thr |-> m, pool |-> cur]
  <2>0. /\ pc[m] = "top" /\ Command(c) /\ c \in Cmd /\ c.pool = cur
        /\ UNCHANGED <<conf, cur, prev, switches, cmd, replies>>
    BY <1>1 DEF AskWork, Cmd, TypeOK, pools
  <2>. HIDE DEF c
  <2>1. CASE Ended
    <3>1. NoWork(m) /\ cmds' = cmds
      BY <1>1, <2>0, <2>1 DEF AskWork, Command
    <3>2. CASE Out(m)
      <4>0. pc'[m] = "out"
        BY <2>0, <3>2, OutIs DEF Asking
      <4>1. UNCHANGED seen
        BY <1>0, <3>1, <4>0, MoveIs DEF NoWork
      <4>. QED  BY <1>0, <2>0, <2>1, <3>2, <4>1, OutIs, Quiet DEF Ended, Asking
    <3>3. CASE ~Out(m)
      <4>1. pc' = [pc EXCEPT ![m] = "top"] /\ seen' = [seen EXCEPT ![m] = switches]
        BY <3>1, <3>3 DEF NoWork
      <4>2. pc' = pc
        BY <1>0, <2>0, <4>1
      <4>3. \A k \in Miners : seen'[k] = seen[k] \/ seen'[k] = switches
        BY <4>1 DEF TypeOK
      <4>4. switches \in Nat
        BY DEF TypeOK
      <4>. QED  BY <2>0, <2>1, <4>2, <4>3, <4>4
                DEF Survives, PrevFits, Explained, Alone, FailsOver, InWindow, Ended
    <3>. QED  BY <3>2, <3>3
  <2>2. CASE ~Ended
    <3>1. pc' = [pc EXCEPT ![m] = "look"] /\ cmds' = Append(cmds, c) /\ seen' = seen
      BY <1>1, <2>0, <2>2 DEF AskWork, Command
    <3>2. pc'[m] = "look" /\ \A b \in Threads \ {m} : pc'[b] = pc[b]
      BY <3>1, MoveIs
    <3>3. \A k \in Miners : NullComes(k)' => NullComes(k)
      BY <1>0, <2>0, <3>1, <3>2, NoNull
    <3>. QED  BY <2>0, <3>1, <3>2, <3>3, Quiet
  <2>. QED  BY <2>1, <2>2
<1>2. CASE KeepWork(m) \/ Idle(m) \/ Spend(m)
  <2>1. /\ pc[m] \in {"top", "ready", "spend"}
        /\ pc' = [pc EXCEPT ![m] = "top"] \/ pc' = [pc EXCEPT ![m] = "ready"]
        /\ UNCHANGED <<conf, cur, prev, seen, switches, cmds, cmd, replies>>
    BY <1>2 DEF KeepWork, Idle, Spend, queues, pools
  <2>2. pc'[m] \in {"top", "ready"} /\ \A b \in Threads \ {m} : pc'[b] = pc[b]
    BY <2>1, MoveIs
  <2>3. \A k \in Miners : NullComes(k)' => NullComes(k)
    BY <1>0, <2>1, <2>2, NoNull
  <2>. QED  BY <2>1, <2>2, <2>3, Quiet
<1>3. CASE Leave(m) \/ Stop(m) \/ Submit(m)
  <2>1. /\ pc[m] \in {"top", "ready"}
        /\ Out(m) \/ pc' = [pc EXCEPT ![m] = "spend"]
        /\ UNCHANGED <<conf, cur, prev, seen, switches, cmd, replies>>
    BY <1>3 DEF Leave, Stop, Submit, queues, pools
  <2>2. \/ cmds' = cmds
        \/ \E c \in Cmd : cmds' = Append(cmds, c) /\ c.cmd # "get"
    <3>1. /\ [cmd |-> "abort", thr |-> m, pool |-> 0] \in Cmd
          /\ [cmd |-> "submit", thr |-> m, pool |-> mine[m]] \in Cmd
      BY DEF Cmd, TypeOK
    <3>. QED  BY <1>3, <3>1 DEF Leave, Stop, TellAll, Submit, Command, queues
  <2>3. /\ pc'[m] \in {"out", "spend"}
        /\ \A b \in Threads \ {m} : \/ pc'[b] = pc[b]
                                    \/ pc'[b] = "awake" /\ pc[b] = "asleep"
    BY <2>1, OutIs, MoveIs DEF Asking
  <2>4. \A k \in Miners : NullComes(k)' => NullComes(k)
    BY <1>0, <2>1, <2>2, <2>3, NoNull
  <2>. QED  BY <2>1, <2>3, <2>4, Quiet
<1>4. CASE Rotate(m)
  <2>1. /\ pc' = [pc EXCEPT ![m] = "options"] /\ prev' = [prev EXCEPT ![m] = cur]
        /\ cur' = NextPool /\ conf.pools > 1
        /\ UNCHANGED <<conf, seen, switches>>
    BY <1>4 DEF Rotate, BeginSwitch
  <2>2. m = First
    BY <1>4 DEF Rotate, ConfigType
  <2>3. pc'[First] = "options" /\ prev'[First] # cur'
    BY <1>0, <2>1, <2>2, NextPoolDiffers DEF TypeOK
  <2>. QED  BY <2>1, <2>3 DEF Survives, PrevFits, Explained, InWindow, Alone, FailsOver
<1>. QED  BY <1>1, <1>2, <1>3, <1>4 DEF MinerStep

\* The answer taken out of a queue leaves no NULL that was not there.
LEMMA LessNull ==
    ASSUME TypeOK, NEW q \in Miners, replies[q] # << >>,
           replies' = [replies EXCEPT ![q] = Tail(replies[q])],
           UNCHANGED <<cur, cmds, cmd>>, pc'[IO] = "get" => pc[IO] = "get",
           NEW m \in Miners, NullComes(m)'
    PROVE  NullComes(m)
<1>1. replies \in [Miners -> Seq(Pools \union {Null})]
  BY DEF TypeOK
<1>2. CASE m = q
  <2>1. \A i \in 1..Len(replies'[m]) : i + 1 \in 1..Len(replies[m]) /\ replies'[m][i] = replies[m][i + 1]
    BY <1>1, <1>2
  <2>. QED  BY <2>1 DEF NullComes
<1>3. CASE m # q
  <2>1. replies'[m] = replies[m]
    BY <1>1, <1>3
  <2>. QED  BY <2>1 DEF NullComes
<1>. QED  BY <1>2, <1>3

\* Where thread 0 is alone, the answer a miner thread takes was its only one.
LEMMA LastAnswer ==
    ASSUME IInv, Alone, NEW m \in Miners, Asking(m), pc[m] # "out", ~Ended,
           replies[m] # << >>
    PROVE  Len(replies[m]) = 1 /\ Gets(cmds, m) = {} /\ Current(m) = 0
<1>. USE Basics DEF IInv
<1>1. Waiters(m) = {m}
  BY DEF Waiters, Queue, OnlyFirst, Asking
<1>2. Cardinality(Waiters(m)) = 1
  BY <1>1, FS_Singleton
<1>3. Len(replies[m]) \in Nat \ {0}
  <2>1. replies[m] \in Seq(Pools \union {Null})
    BY DEF TypeOK
  <2>2. \A s \in Seq(Pools \union {Null}) : s # << >> => Len(s) \in Nat \ {0}
    OBVIOUS
  <2>. QED  BY <2>1, <2>2
<1>4. Len(replies[m]) + Cardinality(Gets(cmds, m)) + Current(m) = Cardinality(Waiters(m))
  BY OwedIs
<1>5. Cardinality(Gets(cmds, m)) \in Nat /\ Current(m) \in {0, 1}
  BY OwedIs DEF Current
<1>6. \A l \in Nat \ {0} : \A g \in Nat, c \in {0, 1} :
         l + g + c = 1 => l = 1 /\ g = 0 /\ c = 0
  OBVIOUS
<1>7. Len(replies[m]) = 1 /\ Cardinality(Gets(cmds, m)) = 0 /\ Current(m) = 0
  BY ONLY <1>2, <1>3, <1>4, <1>5, <1>6
<1>8. IsFiniteSet(Gets(cmds, m))
  BY GetsAreFinite DEF TypeOK
<1>. QED  BY <1>7, <1>8, FS_EmptySet

\* The steps of pool_switch, and the pops of all threads.
LEMMA SwitchesExplained ==
    ASSUME IInv, Survives, TypeOK', NEW a \in Threads, SwitchStep(a)
    PROVE  Survives'
<1>. USE Basics DEF IInv
<1>0. pc \in [Threads -> Places] /\ Return(a) \in {"top", "idle", "notify"}
  BY DEF TypeOK, Return
<1>1. CASE Options(a)
  <2>1. /\ pc[a] = "options" /\ pc' = [pc EXCEPT ![a] = "publish"]
        /\ UNCHANGED <<conf, cur, prev, seen, switches, cmds, cmd, replies>>
    BY <1>1 DEF Options, queues, pools
  <2>2. pc'[a] = "publish" /\ \A b \in Threads \ {a} : pc'[b] = pc[b]
    BY <2>1, MoveIs
  <2>3. \A k \in Miners : NullComes(k)' => NullComes(k)
    BY <2>1, <2>2, NoNull
  <2>. QED  BY <2>1, <2>2, <2>3, Quiet
<1>2. CASE Publish(a)
  <2>1. /\ pc[a] = "publish"
        /\ pc' = [pc EXCEPT ![a] = "ask"] \/ pc' = [pc EXCEPT ![a] = Return(a)]
        /\ prev[a] # cur => switches' = switches + 1
        /\ UNCHANGED <<conf, cur, prev, seen>>
    BY <1>2 DEF Publish
  <2>2. pc'[a] \in {"ask", "top", "idle", "notify"}
    BY <1>0, <2>1, MoveIs
  <2>3. SUFFICES ASSUME Alone PROVE Survives'
    BY <2>1 DEF Survives, PrevFits, Explained, Alone, FailsOver
  <2>4. a = First
    BY <2>1, <2>3 DEF OnlyFirst, InSwitch
  <2>5. switches' = switches + 1 /\ switches \in Nat
    BY <2>1, <2>3, <2>4 DEF Survives, PrevFits, InWindow, TypeOK
  <2>6. \A m \in Miners : seen'[m] <= switches' /\ seen'[m] # switches'
    <3>1. \A m \in Miners : seen[m] <= switches /\ seen[m] \in Nat
      BY <2>3 DEF Survives, Explained, TypeOK
    <3>. QED  BY <2>1, <2>5, <3>1
  <2>. QED  BY <2>2, <2>4, <2>6 DEF Survives, PrevFits, Explained, InWindow
<1>3. CASE AskSwitched(a)
  <2>. DEFINE c == [cmd |-> "get", thr |-> First, pool |-> cur]
  <2>1. /\ pc[a] = "ask" /\ Command(c) /\ c \in Cmd /\ c.pool = cur
        /\ pc' = [pc EXCEPT ![a] = IF Ended THEN Return(a) ELSE "look"]
        /\ UNCHANGED <<conf, cur, prev, seen, switches, cmd, replies>>
    BY <1>3 DEF AskSwitched, Cmd, TypeOK, pools
  <2>. HIDE DEF c
  <2>2. pc'[a] \in {"look", "top", "idle", "notify"} /\ \A b \in Threads \ {a} : pc'[b] = pc[b]
    BY <1>0, <2>1, MoveIs
  <2>3. \A k \in Miners : NullComes(k)' => NullComes(k)
    BY <2>1, <2>2, NoNull DEF Command
  <2>. QED  BY <2>1, <2>2, <2>3, Quiet
<1>4. CASE PopAnswer(a)
  <2>0. /\ pc[a] \in {"look", "awake"}
        /\ UNCHANGED <<conf, cur, prev, switches, cmds, cmd>>
    BY <1>4 DEF PopAnswer, pools
  <2>1. CASE replies[Queue(a)] # << >>
    <3>1. /\ Got(a, Head(replies[Queue(a)]))
          /\ replies' = [replies EXCEPT ![Queue(a)] = Tail(replies[Queue(a)])]
      BY <1>4, <2>1 DEF PopAnswer
    <3>2. /\ pc'[a] \in {"top", "ready", "out", "idle", "notify"}
          /\ \A b \in Threads \ {a} : \/ pc'[b] = pc[b]
                                      \/ pc'[b] = "awake" /\ pc[b] = "asleep"
      BY <2>0, <3>1, GotIs DEF Asking
    <3>3. \A k \in Miners : NullComes(k)' => NullComes(k)
      BY <2>0, <2>1, <3>1, <3>2, LessNull
    <3>4. CASE seen' = seen
      BY <2>0, <3>2, <3>3, <3>4, Quiet
    <3>5. CASE seen' # seen
      <4>1. seen' = [seen EXCEPT ![a] = switches] /\ glock = a /\ a \in Miners
        <5>1. seen' = [seen EXCEPT ![a] = switches] /\ slock # a
          BY <3>1, <3>5 DEF Got, ToSwitch, ToMiner, NoWork
        <5>2. glock = a /\ a \in Miners
          BY <2>0, <5>1 DEF Mutex, Asking, TypeOK
        <5>. QED  BY <5>1, <5>2
      <4>2. SUFFICES ASSUME Alone PROVE Survives'
        BY <2>0 DEF Survives, PrevFits, Explained, Alone, FailsOver
      <4>3. InWindow' <=> InWindow
        BY <2>0, <3>2 DEF InWindow
      <4>4. PrevFits'
        BY <2>0, <4>2, <4>3 DEF Survives, PrevFits
      <4>5. ASSUME NEW m \in Miners, m # a
            PROVE  /\ seen'[m] <= switches'
                   /\ pc'[m] # "out" /\ ~Ended' /\ NullComes(m)' => seen'[m] # switches' \/ InWindow'
        <5>1. seen'[m] = seen[m] /\ switches' = switches
          BY <2>0, <4>1, <4>5 DEF TypeOK
        <5>2. (pc[m] = "out" => pc'[m] = "out") /\ (Ended => Ended')
          BY <2>0, <3>2 DEF Ended
        <5>. QED  BY <3>3, <4>2, <4>3, <5>1, <5>2 DEF Survives, Explained
      <4>6. seen'[a] = switches' /\ switches \in Nat
        BY <2>0, <4>1 DEF TypeOK
      <4>7. ASSUME ~Ended' PROVE ~NullComes(a)'
        <5>1. Queue(a) = a /\ ~Ended
          BY <2>0, <3>2, <4>1, <4>7 DEF Queue, Ended
        <5>2. Len(replies[a]) = 1 /\ Gets(cmds, a) = {} /\ Current(a) = 0
          BY <2>0, <2>1, <4>1, <4>2, <5>1, LastAnswer DEF Asking
        <5>3. Len(replies'[a]) = 0
          <6>1. replies \in [Miners -> Seq(Pools \union {Null})]
            BY DEF TypeOK
          <6>. QED  BY <2>1, <3>1, <4>1, <5>1, <5>2, <6>1
        <5>4. ~(pc'[IO] = "get" /\ cmd'.thr = a)
          BY <2>0, <3>2, <4>1, <5>2 DEF Current, CmdFits
        <5>5. \A i \in 1..Len(cmds') : ~(cmds'[i].cmd = "get" /\ cmds'[i].thr = a)
          BY <2>0, <5>2 DEF Gets
        <5>. QED  BY <5>3, <5>4, <5>5 DEF NullComes
      <4>. QED  BY <2>0, <4>2, <4>4, <4>5, <4>6, <4>7 DEF Survives, Explained
    <3>. QED  BY <3>4, <3>5
  <2>2. CASE replies[Queue(a)] = << >> /\ pc[a] = "awake"
    <3>1. ~Alone
      BY <2>2 DEF Woken
    <3>. QED  BY <2>0, <3>1 DEF Survives, PrevFits, Explained, Alone, FailsOver
  <2>3. CASE replies[Queue(a)] = << >> /\ pc[a] # "awake"
    <3>1. /\ pc' = [pc EXCEPT ![a] = "asleep"] /\ pc[a] = "look"
          /\ UNCHANGED <<conf, cur, prev, switches, cmds, cmd, replies, seen>>
      BY <1>4, <2>0, <2>3 DEF PopAnswer
    <3>2. pc'[a] = "asleep" /\ \A b \in Threads \ {a} : pc'[b] = pc[b]
      BY <3>1, MoveIs
    <3>3. \A k \in Miners : NullComes(k)' => NullComes(k)
      BY <3>1, <3>2, NoNull
    <3>. QED  BY <3>1, <3>2, <3>3, Quiet
  <2>. QED  BY <2>1, <2>2, <2>3
<1>. QED  BY <1>1, <1>2, <1>3, <1>4 DEF SwitchStep

\* An answer of the workio thread is NULL only for an outdated request.
LEMMA AnswerNull ==
    ASSUME IInv, NEW r \in Pools \union {Null}, r = Null => cmd.pool # cur,
           pc[IO] = "get", Answer(cmd.thr, r, "loop"), pc'[IO] = "loop",
           UNCHANGED <<cur, cmds, cmd>>,
           NEW m \in Miners, NullComes(m)'
    PROVE  NullComes(m)
<1>. USE Basics DEF IInv
<1>1. cmd.thr \in Miners /\ replies \in [Miners -> Seq(Pools \union {Null})]
  BY DEF TypeOK, Cmd, NoCmd
<1>2. replies' = replies \/ replies' = [replies EXCEPT ![cmd.thr] = Append(replies[cmd.thr], r)]
  BY DEF Answer
<1>3. CASE replies'[m] = replies[m]
  BY <1>3 DEF NullComes
<1>4. CASE replies'[m] # replies[m]
  <2>1. m = cmd.thr /\ replies'[m] = Append(replies[m], r)
    BY <1>1, <1>2, <1>4
  <2>2. CASE r = Null
    BY <2>1, <2>2 DEF NullComes
  <2>3. CASE r # Null
    <3>0. \A q \in Seq(Pools \union {Null}) : \A i \in 1..Len(Append(q, r)) :
             \/ i \in 1..Len(q) /\ Append(q, r)[i] = q[i]
             \/ Append(q, r)[i] = r
      OBVIOUS
    <3>1. \A i \in 1..Len(replies'[m]) :
             \/ i \in 1..Len(replies[m]) /\ replies'[m][i] = replies[m][i]
             \/ replies'[m][i] = r
      BY ONLY <1>1, <2>1, <3>0
    <3>. QED  BY <2>3, <3>1 DEF NullComes
  <2>. QED  BY <2>2, <2>3
<1>. QED  BY <1>3, <1>4

\* The steps of the workio thread, and those of the API thread and of main.
LEMMA WorkioExplained ==
    ASSUME IInv, Survives, TypeOK', WorkioStep \/ ApiSwitch \/ MainAborts \/ UNCHANGED vars
    PROVE  Survives'
<1>. USE Basics DEF IInv
<1>0. conf' = conf /\ (~Alone => Survives') /\ pc \in [Threads -> Places] /\ First # IO
  <2>1. conf' = conf
    BY DEF WorkioStep, Loop, PopCommand, GetWorks, GetOutdated, SubmitEnds, TryAgain, GiveUp,
           Notify, ApiSwitch, MainAborts, vars
  <2>. QED  BY <2>1 DEF Survives, PrevFits, Explained, Alone, FailsOver, TypeOK
<1>1. CASE Loop \/ SubmitEnds
  <2>1. /\ pc[IO] \in {"loop", "submit"}
        /\ \E next \in {"ended", "pop", "loop"} : pc' = [pc EXCEPT ![IO] = next]
        /\ UNCHANGED <<cur, prev, seen, switches, cmds, cmd, replies>>
    BY <1>1 DEF Loop, SubmitEnds, queues, pools
  <2>2. pc'[IO] \in {"ended", "pop", "loop"} /\ \A b \in Threads \ {IO} : pc'[b] = pc[b]
    BY <2>1, MoveIs
  <2>3. \A k \in Miners : NullComes(k)' => NullComes(k)
    BY <2>1, <2>2, NoNull
  <2>. QED  BY <1>0, <2>1, <2>2, <2>3, Quiet
<1>2. CASE PopCommand
  <2>1. /\ pc[IO] = "pop" /\ cmds # << >> /\ cmds \in Seq(Cmd)
        /\ cmd' = Head(cmds) /\ cmds' = Tail(cmds)
        /\ pc' = [pc EXCEPT ![IO] = Head(cmds).cmd]
        /\ UNCHANGED <<cur, prev, seen, switches, replies>>
    BY <1>2 DEF PopCommand, TypeOK, pools
  <2>2. /\ Head(cmds) = cmds[1] /\ Head(cmds) \in Cmd /\ Len(cmds) \in Nat \ {0}
        /\ Len(Tail(cmds)) = Len(cmds) - 1
        /\ \A i \in 1..Len(cmds)-1 : Tail(cmds)[i] = cmds[i+1]
    BY <2>1
  <2>3. pc'[IO] = Head(cmds).cmd /\ Head(cmds).cmd \in {"get", "submit", "abort"}
        /\ \A b \in Threads \ {IO} : pc'[b] = pc[b]
    BY <2>1, <2>2, MoveIs DEF Cmd
  <2>4. ASSUME NEW k \in Miners, NullComes(k)' PROVE NullComes(k)
    <3>1. CASE \E i \in 1..Len(cmds') : cmds'[i].cmd = "get" /\ cmds'[i].thr = k /\ cmds'[i].pool # cur
      <4>1. PICK i \in 1..Len(cmds') : cmds'[i].cmd = "get" /\ cmds'[i].thr = k /\ cmds'[i].pool # cur
        BY <3>1
      <4>2. i + 1 \in 1..Len(cmds) /\ cmds'[i] = cmds[i + 1]
        BY <2>1, <2>2
      <4>. QED  BY <4>1, <4>2 DEF NullComes
    <3>2. CASE pc'[IO] = "get" /\ cmd'.thr = k /\ cmd'.pool # cur
      <4>1. 1 \in 1..Len(cmds)
        BY <2>2
      <4>. QED  BY <2>1, <2>2, <2>3, <3>2, <4>1 DEF NullComes
    <3>3. CASE \E i \in 1..Len(replies[k]) : replies[k][i] = Null
      BY <3>3 DEF NullComes
    <3>. QED  BY <2>1, <2>4, <3>1, <3>2, <3>3 DEF NullComes
  <2>. QED  BY <1>0, <2>1, <2>3, <2>4, Quiet
<1>3. CASE GetWorks \/ GetOutdated
  <2>1. /\ pc[IO] = "get"
        /\ UNCHANGED <<cur, prev, seen, switches, cmds, cmd>>
    BY <1>3 DEF GetWorks, GetOutdated, pools
  <2>2. PICK r \in Pools \union {Null} : Answer(cmd.thr, r, "loop") /\ (r = Null => cmd.pool # cur)
    <3>1. CASE GetWorks
      <4>1. Answer(cmd.thr, cmd.pool, "loop") /\ cmd.pool \in Pools /\ cmd.pool # Null
        BY <3>1 DEF GetWorks, TypeOK
      <4>. QED  BY <4>1
    <3>2. CASE GetOutdated
      BY <3>2 DEF GetOutdated, Refuse
    <3>. QED  BY <1>3, <3>1, <3>2
  <2>3. cmd.thr \in Miners
    BY DEF TypeOK, Cmd, NoCmd
  <2>4. /\ pc'[IO] = "loop"
        /\ \A b \in Threads \ {IO} : \/ pc'[b] = pc[b]
                                     \/ pc'[b] = "awake" /\ pc[b] = "asleep"
    BY <2>1, <2>2, <2>3, AnswerIs
  <2>5. \A k \in Miners : NullComes(k)' => NullComes(k)
    BY <2>1, <2>2, <2>4, AnswerNull
  <2>. QED  BY <1>0, <2>1, <2>4, <2>5, Quiet
<1>4. CASE TryAgain \/ MainAborts \/ UNCHANGED vars
  <2>1. UNCHANGED <<cur, prev, seen, switches, cmds, cmd, replies, pc>>
    BY <1>4 DEF TryAgain, MainAborts, vars, queues, pools
  <2>2. \A k \in Miners : NullComes(k)' => NullComes(k)
    BY <2>1, NoNull
  <2>. QED  BY <1>0, <2>1, <2>2, Quiet
<1>5. CASE GiveUp
  <2>1. CASE conf.pools > 1 /\ conf.failover
    <3>1. ~Alone
      BY <1>5, <2>1 DEF GiveUp, AbortFits, Alone, FailsOver
    <3>. QED  BY <1>0, <3>1
  <2>2. CASE ~(conf.pools > 1 /\ conf.failover)
    <3>1. /\ pc' = [pc EXCEPT ![IO] = "ended"] /\ pc[IO] \in {"get", "submit", "abort"}
          /\ UNCHANGED <<cur, prev, seen, switches>>
      BY <1>5, <2>2 DEF GiveUp, pools
    <3>2. pc'[IO] = "ended" /\ \A b \in Threads \ {IO} : pc'[b] = pc[b]
      BY <3>1, MoveIs
    <3>. QED  BY <1>0, <3>1, <3>2, Quiet DEF Ended
  <2>. QED  BY <2>1, <2>2
<1>6. CASE Notify \/ ApiSwitch
  <2>1. ~Alone
    BY <1>6 DEF Notify, OnlyFirst, ApiSwitch, Alone
  <2>. QED  BY <1>0, <2>1
<1>. QED  BY <1>1, <1>2, <1>3, <1>4, <1>5, <1>6 DEF WorkioStep

LEMMA SurvivesNext == IInv /\ Survives /\ [Next]_vars => Survives'
<1>. SUFFICES ASSUME IInv, Survives, [Next]_vars PROVE Survives'
  OBVIOUS
<1>1. TypeOK'
  BY TypesNext DEF IInv
<1>. QED  BY <1>1, MinersExplained, SwitchesExplained, WorkioExplained DEF Next, Done

LEMMA SurvivesInit == Init => Survives
<1>. SUFFICES ASSUME Init PROVE Survives
  OBVIOUS
<1>1. TypeOK
  BY TypesInit
<1>2. ~InWindow
  BY <1>1, Basics DEF Init, InWindow
<1>3. pc[IO] = "loop" /\ IO \in Threads
  BY <1>1, Basics DEF Init
<1>4. \A m \in Miners : ~NullComes(m) /\ seen[m] <= switches
  BY <1>3 DEF Init, NullComes
<1>. QED  BY <1>2, <1>4 DEF Survives, PrevFits, Explained

\* What a miner thread that ends has seen: the end of the program or of the
\* workio thread, or a switch between its two halves.
LEMMA EndsForAReason ==
    ASSUME IInv, Survives, [Next]_vars, Alone, NEW m \in Miners,
           pc[m] # "out", pc'[m] = "out"
    PROVE  abort' \/ Ended \/ \E a \in Threads : pc[a] \in {"options", "publish"}
<1>. USE Basics DEF IInv
<1>0. pc \in [Threads -> Places] /\ cmd.thr \in Miners
  <2>1. pc \in [Threads -> Places] /\ cmd \in Cmd \union {NoCmd} /\ First \in Miners
    BY DEF TypeOK
  <2>. QED  BY ONLY <2>1 DEF Cmd, NoCmd
<1>1. ASSUME NEW k \in Miners, MinerStep(k)
      PROVE  abort' \/ Ended
  <2>1. CASE k = m
    <3>1. ASSUME NEW next, next # "out", pc' = [pc EXCEPT ![k] = next] PROVE FALSE
      BY <2>1, <3>1, MoveIs
    <3>2. CASE AskWork(k)
      BY <3>1, <3>2 DEF AskWork
    <3>3. CASE KeepWork(k) \/ Idle(k) \/ Spend(k) \/ Rotate(k)
      BY <3>1, <3>3 DEF KeepWork, Idle, Spend, Rotate, BeginSwitch
    <3>4. CASE Leave(k) \/ Stop(k)
      BY <3>4 DEF Leave, Stop, TellAll
    <3>5. CASE Submit(k)
      BY <3>1, <3>5 DEF Submit
    <3>. QED  BY <1>1, <3>2, <3>3, <3>4, <3>5 DEF MinerStep
  <2>2. CASE k # m
    <3>1. ~Asking(k) /\ (Out(k) \/ \E next : pc' = [pc EXCEPT ![k] = next])
      BY <1>1 DEF MinerStep, AskWork, NoWork, KeepWork, Leave, Idle, Stop, Submit, Spend,
                  Rotate, BeginSwitch, Asking
    <3>2. pc'[m] = pc[m] \/ pc'[m] = "awake"
      BY <2>2, <3>1, OutIs, MoveIs
    <3>. QED  BY <3>2
  <2>. QED  BY <2>1, <2>2
<1>2. ASSUME NEW a \in Threads, SwitchStep(a)
      PROVE  Ended \/ \E b \in Threads : pc[b] \in {"options", "publish"}
  <2>1. CASE ~PopAnswer(a)
    <3>1. \E next \in {"publish", "ask", "look", "top", "idle", "notify"} :
             pc' = [pc EXCEPT ![a] = next]
      BY <1>2, <2>1 DEF SwitchStep, Options, Publish, AskSwitched, Return
    <3>. QED  BY <3>1, MoveIs
  <2>2. CASE PopAnswer(a) /\ pc' = [pc EXCEPT ![a] = "asleep"]
    BY <2>2, MoveIs
  <2>3. CASE PopAnswer(a) /\ pc' # [pc EXCEPT ![a] = "asleep"]
    <3>1. /\ pc[a] \in {"look", "awake"} /\ replies[Queue(a)] # << >>
          /\ Got(a, Head(replies[Queue(a)]))
      BY <2>3 DEF PopAnswer, Woken
    <3>2. a = m
      BY <3>1, GotIs DEF Asking
    <3>3. Head(replies[m]) = Null /\ seen[m] = switches /\ Queue(a) = m
      BY <1>0, <3>1, <3>2, MoveIs DEF Got, ToSwitch, ToMiner, NoWork, Return, Queue
    <3>4. NullComes(m)
      <4>1. replies[m] \in Seq(Pools \union {Null})
        BY DEF TypeOK
      <4>2. Head(replies[m]) = replies[m][1] /\ 1 \in 1..Len(replies[m])
        BY <3>1, <3>3, <4>1
      <4>. QED  BY <3>3, <4>2 DEF NullComes
    <3>. QED  BY <3>3, <3>4 DEF Survives, Explained, InWindow
  <2>. QED  BY <2>1, <2>2, <2>3
<1>3. CASE WorkioStep \/ ApiSwitch \/ MainAborts \/ UNCHANGED vars
  <2>1. CASE GetWorks \/ GetOutdated \/ Notify
    <3>1. pc[IO] \in {"get", "notify"} /\ \E r : Answer(cmd.thr, r, "loop")
      BY <2>1 DEF GetWorks, GetOutdated, Refuse, Notify
    <3>. QED  BY <1>0, <3>1, AnswerIs
  <2>2. CASE ~(GetWorks \/ GetOutdated \/ Notify)
    <3>1. pc' = pc \/ (\E next : pc' = [pc EXCEPT ![IO] = next])
                   \/ (\E next : pc' = [pc EXCEPT ![Api] = next])
      BY <1>3, <2>2 DEF WorkioStep, Loop, PopCommand, SubmitEnds, TryAgain, GiveUp, ApiSwitch,
                        BeginSwitch, MainAborts, vars
    <3>. QED  BY <3>1, MoveIs
  <2>. QED  BY <2>1, <2>2
<1>. QED  BY <1>1, <1>2, <1>3 DEF Next, Done

\* A miner thread whose request for work fails goes on when a pool switch is
\* the reason (gbxminer.cpp:1862), unless that switch has changed cur_pooln and
\* is not counted yet (pools.cpp:178 and 233), as long as thread 0 is the only
\* one to switch pools.
THEOREM MinersGoOn == Spec => MinersSurvive
<1>1. IInv /\ Survives /\ [Next]_vars
         => [Alone => \A m \in Miners : pc[m] # "out" /\ pc'[m] = "out" =>
                abort' \/ Ended \/ \E a \in Threads : pc[a] \in {"options", "publish"}]_vars
  BY EndsForAReason
<1>. QED  BY <1>1, IInvInit, SurvivesInit, IInvNext, SurvivesNext, PTL DEF Spec, MinersSurvive
=============================================================================
