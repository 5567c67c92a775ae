----------------------------- MODULE ThreadQueue -----------------------------
(***************************************************************************)
(* The thread queue of util.cpp: a linked list, a frozen flag, a mutex and *)
(* a condition variable.  Each tq_* call is one critical section, except   *)
(* that tq_pop on an empty list gives the mutex up once, inside            *)
(* pthread_cond_wait, and looks at the list once more when it is back: a   *)
(* popper is idle, waiting on the condition, or woken and about to look.   *)
(***************************************************************************)
EXTENDS Naturals, Sequences, FiniteSets

CONSTANTS Poppers,          \* threads that call tq_pop on this queue
          Data,             \* the pointers that are pushed; NULL is one of them
          MaxPush,          \* bound on the calls of tq_push that are accepted
          SpuriousWakeups,  \* may pthread_cond_wait return without a signal?
          CanFreeze         \* does some thread freeze or thaw the queue?

ASSUME QueueAssumption == /\ IsFiniteSet(Poppers)
                          /\ MaxPush \in Nat
                          /\ SpuriousWakeups \in BOOLEAN
                          /\ CanFreeze \in BOOLEAN

VARIABLES q,         \* the list, head first
          frozen,    \* tq->frozen
          waiting,   \* poppers blocked in pthread_cond_wait
          woken,     \* poppers that left the wait and have still to look
          pushed,    \* history: everything tq_push put on the list
          popped,    \* history: everything tq_pop took off the list
          emptyHanded \* poppers whose last tq_pop found nothing to return

vars == <<q, frozen, waiting, woken, pushed, popped, emptyHanded>>

Init == /\ q = << >>
        /\ frozen = FALSE
        /\ waiting = {}
        /\ woken = {}
        /\ pushed = << >>
        /\ popped = << >>
        /\ emptyHanded = {}

\* Mutant: the signal is forgotten.
NoSignal == UNCHANGED <<waiting, woken>>

\* pthread_cond_signal: one waiter, if there is any, leaves the wait.
Signal == \/ /\ waiting = {}
             /\ UNCHANGED <<waiting, woken>>
          \/ \E c \in waiting : /\ waiting' = waiting \ {c}
                                /\ woken' = woken \union {c}

\* Mutant: the frozen flag is ignored.
PushFrozen(d) == /\ Len(pushed) < MaxPush
                 /\ q' = Append(q, d)
                 /\ pushed' = Append(pushed, d)
                 /\ Signal
                 /\ UNCHANGED <<frozen, popped, emptyHanded>>

\* tq_push: a frozen queue drops the entry, and signals all the same.
Push(d) == /\ Len(pushed) < MaxPush
           /\ IF frozen THEN UNCHANGED <<q, pushed>>
                        ELSE /\ q' = Append(q, d)
                             /\ pushed' = Append(pushed, d)
           /\ Signal
           /\ UNCHANGED <<frozen, popped, emptyHanded>>

\* tq_freeze and tq_thaw.
FreezeThaw(b) == /\ CanFreeze
                 /\ frozen' = b
                 /\ Signal
                 /\ UNCHANGED <<q, pushed, popped, emptyHanded>>

\* Mutant: the entry is read and never unlinked.
PeekHead(c) == /\ q # << >>
               /\ popped' = Append(popped, Head(q))
               /\ Len(popped) < MaxPush
               /\ emptyHanded' = emptyHanded \ {c}
               /\ UNCHANGED q

\* The part of tq_pop behind the label pop.
TakeHead(c) == /\ q # << >>
               /\ q' = Tail(q)
               /\ popped' = Append(popped, Head(q))
               /\ emptyHanded' = emptyHanded \ {c}

\* tq_pop is entered: an entry is taken at once, an empty list is waited on
\* (frozen or not: the flag is never read here).
PopBegin(c) == /\ c \notin waiting \union woken
               /\ \/ /\ TakeHead(c)
                     /\ UNCHANGED waiting
                  \/ /\ q = << >>
                     /\ waiting' = waiting \union {c}
                     /\ UNCHANGED <<q, popped, emptyHanded>>
               /\ UNCHANGED <<frozen, woken, pushed>>

\* Back from pthread_cond_wait: one look, no second wait.
PopWake(c) == /\ c \in woken
              /\ woken' = woken \ {c}
              /\ \/ TakeHead(c)
                 \/ /\ q = << >>
                    /\ emptyHanded' = emptyHanded \union {c}
                    /\ UNCHANGED <<q, popped>>
              /\ UNCHANGED <<frozen, waiting, pushed>>

Spurious(c) == /\ SpuriousWakeups
               /\ c \in waiting
               /\ waiting' = waiting \ {c}
               /\ woken' = woken \union {c}
               /\ UNCHANGED <<q, frozen, pushed, popped, emptyHanded>>

Next == \/ \E d \in Data : Push(d)
        \/ \E b \in BOOLEAN : FreezeThaw(b)
        \/ \E c \in Poppers : PopBegin(c) \/ PopWake(c) \/ Spurious(c)

Spec == Init /\ [][Next]_vars

\* A thread that owns a queue pops it in a loop, and the scheduler runs it.
Fairness == \A c \in Poppers : WF_vars(PopBegin(c)) /\ WF_vars(PopWake(c))

FairSpec == Spec /\ Fairness
-----------------------------------------------------------------------------
\* The types of the variables of the queue.
TypeOK == /\ q \in Seq(Data)
          /\ frozen \in BOOLEAN
          /\ waiting \subseteq Poppers
          /\ woken \subseteq Poppers
          /\ waiting \intersect woken = {}
          /\ pushed \in Seq(Data)
          /\ popped \in Seq(Data)
          /\ emptyHanded \subseteq Poppers

\* Nothing pushed is lost, doubled or reordered, whichever poppers race for
\* it: what was taken, then what is still listed, is what was pushed.
NothingLost == pushed = popped \o q

\* tq_push signals one waiter per entry and tq_pop never waits twice: as long
\* as anyone sleeps, at least as many poppers are awake as there are entries,
\* so no entry waits for a sleeper.
NoLostWakeup == waiting # {} => Len(q) <= Cardinality(woken)

\* The only popper of a queue nobody freezes comes back without an entry only
\* if pthread_cond_wait returned spuriously.  workio_thread relies on it: it
\* ends on the first NULL it pops.
LonePopperServed ==
    (~SpuriousWakeups /\ ~CanFreeze /\ Cardinality(Poppers) = 1) => emptyHanded = {}

\* Every entry is eventually taken while the poppers keep popping.
EveryEntryTaken ==
    \A n \in 1..MaxPush : (Len(pushed) >= n) ~> (Len(popped) >= n)

\* To its users the queue is a first-in first-out channel.
Chan == INSTANCE Channel WITH Message <- Data, sent <- pushed,
                              received <- popped, open <- ~frozen
IsChannel == Chan!Spec
=============================================================================
