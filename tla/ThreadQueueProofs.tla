-------------------------- MODULE ThreadQueueProofs --------------------------
(***************************************************************************)
(* Proofs about ThreadQueue, for every set of poppers, every data and      *)
(* every bound.                                                            *)
(***************************************************************************)
EXTENDS ThreadQueue, FiniteSetTheorems, SequenceTheorems, TLAPS

\* Taking the head of one part of a concatenation and appending it to the
\* other leaves the whole as it was (the two sides of NothingLost).
LEMMA MoveHead ==
    ASSUME NEW S, NEW s \in Seq(S), NEW t \in Seq(S), t # << >>
    PROVE  s \o t = Append(s, Head(t)) \o Tail(t)
  OBVIOUS

\* The types of the three sequences.
SeqsOK == q \in Seq(Data) /\ pushed \in Seq(Data) /\ popped \in Seq(Data)

\* The types of the sets of poppers.
SetsOK == /\ waiting \subseteq Poppers
          /\ woken \subseteq Poppers
          /\ waiting \intersect woken = {}
          /\ emptyHanded \subseteq Poppers

\* A signal moves one popper from the wait set to the awake ones.
LEMMA SignalSets ==
    ASSUME SetsOK, Signal, emptyHanded' = emptyHanded
    PROVE  SetsOK'
  BY DEF SetsOK, Signal

\* Taking the head keeps the three sequences sequences of data.
LEMMA TakeHeadSeqs ==
    ASSUME SeqsOK, NEW c, TakeHead(c), pushed' = pushed
    PROVE  SeqsOK'
<1>1. Head(q) \in Data /\ Tail(q) \in Seq(Data)
  BY HeadTailProperties DEF SeqsOK, TakeHead
<1>2. QED
  BY <1>1 DEF SeqsOK, TakeHead

\* The variables keep their types (tq_new to tq_free, any interleaving).
THEOREM TypeCorrect == Spec => []TypeOK
<1>1. Init => TypeOK
  <2>1. Init => SeqsOK
    BY EmptySeq DEF Init, SeqsOK
  <2>2. Init => SetsOK /\ frozen \in BOOLEAN
    BY DEF Init, SetsOK
  <2>3. QED
    BY <2>1, <2>2 DEF TypeOK, SeqsOK, SetsOK
<1>2. TypeOK /\ [Next]_vars => TypeOK'
  <2> SUFFICES ASSUME SeqsOK, SetsOK, frozen \in BOOLEAN, [Next]_vars
               PROVE  SeqsOK' /\ SetsOK' /\ frozen' \in BOOLEAN
    BY Zenon DEF TypeOK, SeqsOK, SetsOK
  <2>1. ASSUME NEW d \in Data, Push(d) PROVE SeqsOK' /\ SetsOK' /\ frozen' = frozen
    <3>1. SeqsOK'
      <4>1. CASE UNCHANGED <<q, pushed>>
        BY <2>1, <4>1 DEF Push, SeqsOK
      <4>2. CASE q' = Append(q, d) /\ pushed' = Append(pushed, d)
        BY <2>1, <4>2 DEF Push, SeqsOK
      <4>3. QED
        BY <2>1, <4>1, <4>2, Zenon DEF Push
    <3>2. QED
      BY <2>1, <3>1, SignalSets DEF Push
  <2>2. ASSUME NEW b \in BOOLEAN, FreezeThaw(b)
        PROVE  SeqsOK' /\ SetsOK' /\ frozen' \in BOOLEAN
    <3>1. SeqsOK'
      BY <2>2 DEF FreezeThaw, SeqsOK
    <3>2. frozen' \in BOOLEAN
      BY <2>2, Zenon DEF FreezeThaw
    <3>3. QED
      BY <2>2, <3>1, <3>2, SignalSets DEF FreezeThaw
  <2>3. ASSUME NEW c \in Poppers, PopBegin(c)
        PROVE  SeqsOK' /\ SetsOK' /\ frozen' = frozen
    <3>1. CASE TakeHead(c) /\ UNCHANGED waiting
      <4>1. SeqsOK'
        BY <2>3, <3>1, TakeHeadSeqs DEF PopBegin
      <4>2. QED
        BY <2>3, <3>1, <4>1 DEF PopBegin, TakeHead, SetsOK
    <3>2. CASE waiting' = waiting \union {c} /\ UNCHANGED <<q, popped, emptyHanded>>
      BY <2>3, <3>2 DEF PopBegin, SetsOK, SeqsOK
    <3>3. QED
      BY <2>3, <3>1, <3>2 DEF PopBegin
  <2>4. ASSUME NEW c \in Poppers, PopWake(c)
        PROVE  SeqsOK' /\ SetsOK' /\ frozen' = frozen
    <3>1. CASE TakeHead(c)
      <4>1. SeqsOK'
        BY <2>4, <3>1, TakeHeadSeqs DEF PopWake
      <4>2. QED
        BY <2>4, <3>1, <4>1 DEF PopWake, TakeHead, SetsOK
    <3>2. CASE emptyHanded' = emptyHanded \union {c} /\ UNCHANGED <<q, popped>>
      BY <2>4, <3>2 DEF PopWake, SetsOK, SeqsOK
    <3>3. QED
      BY <2>4, <3>1, <3>2 DEF PopWake
  <2>5. ASSUME NEW c \in Poppers, Spurious(c)
        PROVE  SeqsOK' /\ SetsOK' /\ frozen' = frozen
    BY <2>5 DEF Spurious, SetsOK, SeqsOK
  <2>6. CASE UNCHANGED vars
    BY <2>6 DEF vars, SetsOK, SeqsOK
  <2>7. QED
    BY <2>1, <2>2, <2>3, <2>4, <2>5, <2>6 DEF Next
<1>3. QED
  BY <1>1, <1>2, PTL DEF Spec

\* No entry is lost, doubled or reordered by racing poppers, a freeze or a
\* spurious wake-up.
THEOREM NothingLostHolds == Spec => []NothingLost
<1>1. Init => NothingLost
  BY DEF Init, NothingLost
<1>2. TypeOK /\ NothingLost /\ [Next]_vars => NothingLost'
  <2> SUFFICES ASSUME SeqsOK, NothingLost, [Next]_vars PROVE NothingLost'
    BY DEF TypeOK, SeqsOK
  <2> USE DEF SeqsOK, NothingLost
  <2>1. ASSUME NEW d \in Data, Push(d) PROVE NothingLost'
    <3>1. CASE UNCHANGED <<q, pushed>>
      BY <2>1, <3>1 DEF Push
    <3>2. CASE q' = Append(q, d) /\ pushed' = Append(pushed, d)
      <4>1. popped' = popped
        BY <2>1, Zenon DEF Push
      <4>2. popped \in Seq(Data) /\ q \in Seq(Data)
        OBVIOUS
      <4>3. Append(popped \o q, d) = popped \o Append(q, d)
        BY ONLY <4>2, d \in Data
      <4>4. QED
        BY <3>2, <4>1, <4>3, Zenon
    <3>3. QED
      BY <2>1, <3>1, <3>2, Zenon DEF Push
  <2>2. ASSUME NEW c, TakeHead(c), UNCHANGED pushed PROVE NothingLost'
    BY <2>2, MoveHead DEF TakeHead
  <2>3. ASSUME NEW c \in Poppers, PopBegin(c) PROVE NothingLost'
    BY <2>2, <2>3 DEF PopBegin
  <2>4. ASSUME NEW c \in Poppers, PopWake(c) PROVE NothingLost'
    BY <2>2, <2>4 DEF PopWake
  <2>5. CASE UNCHANGED <<q, pushed, popped>>
    BY <2>5
  <2>6. QED
    BY <2>1, <2>3, <2>4, <2>5 DEF Next, FreezeThaw, Spurious, vars
<1>3. QED
  BY <1>1, <1>2, TypeCorrect, PTL DEF Spec

\* One more, or one fewer, popper is awake.
LEMMA AwakeCount ==
    ASSUME NEW c \in Poppers, SetsOK
    PROVE  /\ Cardinality(woken) \in Nat
           /\ c \notin woken => Cardinality(woken \union {c}) = Cardinality(woken) + 1
           /\ c \in woken => Cardinality(woken \ {c}) = Cardinality(woken) - 1
<1>1. IsFiniteSet(woken)
  BY QueueAssumption, FS_Subset DEF SetsOK
<1>2. QED
  BY <1>1, FS_CardinalityType, FS_AddElement, FS_RemoveElement

\* As long as anyone sleeps there is an awake popper for every listed entry:
\* the single signal of tq_push and the single wait of tq_pop never strand an
\* entry beside a sleeping popper, for every number of poppers.
THEOREM NoLostWakeupHolds == Spec => []NoLostWakeup
<1>1. Init => NoLostWakeup
  BY DEF Init, NoLostWakeup
<1>2. TypeOK /\ NoLostWakeup /\ [Next]_vars => NoLostWakeup'
  <2> SUFFICES ASSUME SeqsOK, SetsOK, NoLostWakeup, [Next]_vars PROVE NoLostWakeup'
    BY Zenon DEF TypeOK, SeqsOK, SetsOK
  <2>0. Len(q) \in Nat
    BY LenProperties DEF SeqsOK
  <2>1. ASSUME Signal, Len(q') \in Nat, Len(q') <= Len(q) + 1 PROVE NoLostWakeup'
    <3>1. CASE waiting = {} /\ UNCHANGED <<waiting, woken>>
      BY <3>1 DEF NoLostWakeup
    <3>2. ASSUME NEW c \in waiting, woken' = woken \union {c} PROVE NoLostWakeup'
      <4>1. c \in Poppers /\ c \notin woken
        BY DEF SetsOK
      <4>2. Cardinality(woken') = Cardinality(woken) + 1 /\ Cardinality(woken) \in Nat
        BY <3>2, <4>1, AwakeCount
      <4>3. QED
        BY <2>0, <2>1, <4>2 DEF NoLostWakeup
    <3>3. QED
      BY <2>1, <3>1, <3>2 DEF Signal
  <2>2. ASSUME NEW d \in Data, Push(d) PROVE NoLostWakeup'
    <3>1. Len(q') \in Nat /\ Len(q') <= Len(q) + 1
      <4>1. q' = q \/ q' = Append(q, d)
        BY <2>2, Zenon DEF Push
      <4>2. QED
        BY <2>0, <4>1 DEF SeqsOK
    <3>2. QED
      BY <2>1, <2>2, <3>1 DEF Push
  <2>3. ASSUME NEW b \in BOOLEAN, FreezeThaw(b) PROVE NoLostWakeup'
    BY <2>0, <2>1, <2>3 DEF FreezeThaw
  <2>4. ASSUME NEW c \in Poppers, PopBegin(c) PROVE NoLostWakeup'
    <3>1. Cardinality(woken) \in Nat
      BY AwakeCount
    <3>2. CASE TakeHead(c) /\ UNCHANGED waiting
      <4>1. Len(q') = Len(q) - 1
        BY <3>2, HeadTailProperties DEF TakeHead, SeqsOK
      <4>2. QED
        BY <2>0, <2>4, <3>1, <3>2, <4>1 DEF PopBegin, NoLostWakeup
    <3>3. CASE q = << >> /\ UNCHANGED q
      BY <2>4, <3>1, <3>3 DEF PopBegin, NoLostWakeup
    <3>4. QED
      BY <2>4, <3>2, <3>3 DEF PopBegin
  <2>5. ASSUME NEW c \in Poppers, PopWake(c) PROVE NoLostWakeup'
    <3>1. Cardinality(woken) \in Nat /\ Cardinality(woken') = Cardinality(woken) - 1
      BY <2>5, AwakeCount DEF PopWake
    <3>2. CASE TakeHead(c)
      <4>1. Len(q') = Len(q) - 1
        BY <3>2, HeadTailProperties DEF TakeHead, SeqsOK
      <4>2. QED
        BY <2>0, <2>5, <3>1, <3>2, <4>1 DEF PopWake, NoLostWakeup
    <3>3. CASE q = << >> /\ UNCHANGED q
      <4>1. SetsOK'
        BY <2>5 DEF PopWake, SetsOK, TakeHead
      <4>2. Cardinality(woken') \in Nat
        BY <4>1, QueueAssumption, FS_Subset, FS_CardinalityType DEF SetsOK
      <4>3. QED
        BY <3>3, <4>2 DEF NoLostWakeup
    <3>4. QED
      BY <2>5, <3>2, <3>3 DEF PopWake
  <2>6. ASSUME NEW c \in Poppers, Spurious(c) PROVE NoLostWakeup'
    <3>1. c \notin woken
      BY <2>6 DEF Spurious, SetsOK
    <3>2. Cardinality(woken') = Cardinality(woken) + 1 /\ Cardinality(woken) \in Nat
      BY <2>6, <3>1, AwakeCount DEF Spurious
    <3>3. QED
      BY <2>0, <2>6, <3>2 DEF Spurious, NoLostWakeup
  <2>7. CASE UNCHANGED vars
    BY <2>7 DEF vars, NoLostWakeup
  <2>8. QED
    BY <2>2, <2>3, <2>4, <2>5, <2>6, <2>7 DEF Next
<1>3. QED
  BY <1>1, <1>2, TypeCorrect, PTL DEF Spec

\* The queue implements the abstract channel: every step of tq_push, tq_pop,
\* tq_freeze and tq_thaw is a send, a receive, an opening or a closing of the
\* channel, or nothing to it.
THEOREM ImplementsChannel == Spec => IsChannel
<1>1. Init => Chan!Init
  BY DEF Init, Chan!Init
<1>2. TypeOK /\ NothingLost /\ [Next]_vars => [Chan!Next]_Chan!vars
  <2> SUFFICES ASSUME SeqsOK, NothingLost, [Next]_vars
               PROVE  Chan!Next \/ UNCHANGED Chan!vars
    BY Zenon DEF TypeOK, SeqsOK
  <2>1. ASSUME NEW d \in Data, Push(d) PROVE Chan!Send(d) \/ UNCHANGED Chan!vars
    <3>1. CASE frozen
      BY <2>1, <3>1, Zenon DEF Push, Chan!vars
    <3>2. CASE ~frozen
      BY <2>1, <3>2, Zenon DEF Push, Chan!Send
    <3>3. QED
      BY <3>1, <3>2
  <2>2. ASSUME NEW b \in BOOLEAN, FreezeThaw(b) PROVE Chan!SetOpen(~b)
    BY <2>2, Zenon DEF FreezeThaw, Chan!SetOpen
  <2>3. ASSUME NEW c, TakeHead(c), UNCHANGED <<pushed, frozen>> PROVE Chan!Receive
    <3>1. Len(popped) \in Nat /\ Len(q) \in Nat \ {0} /\ Head(q) = q[1]
      BY <2>3, EmptySeq, LenProperties DEF TakeHead, SeqsOK
    <3>2. /\ Len(pushed) = Len(popped) + Len(q)
          /\ pushed[Len(popped) + 1] = q[1]
      BY <3>1, ConcatProperties DEF SeqsOK, NothingLost
    <3>3. Len(popped) < Len(pushed) /\ popped' = Append(popped, pushed[Len(popped) + 1])
      BY <2>3, <3>1, <3>2 DEF TakeHead
    <3>4. QED
      BY <2>3, <3>3, Zenon DEF Chan!Receive
  <2>4. ASSUME NEW c \in Poppers, PopBegin(c) \/ PopWake(c) \/ Spurious(c)
        PROVE  Chan!Receive \/ UNCHANGED Chan!vars
    <3>1. CASE TakeHead(c)
      <4>1. UNCHANGED <<pushed, frozen>>
        BY <2>4, Zenon DEF PopBegin, PopWake, Spurious
      <4>2. QED
        BY <2>3, <3>1, <4>1
    <3>2. CASE ~TakeHead(c)
      <4>1. pushed' = pushed /\ popped' = popped /\ frozen' = frozen
        BY <2>4, <3>2 DEF PopBegin, PopWake, Spurious
      <4>2. QED
        BY <4>1, Zenon DEF Chan!vars
    <3>3. QED
      BY <3>1, <3>2
  <2>5. CASE UNCHANGED vars
    BY <2>5, Zenon DEF vars, Chan!vars
  <2>6. QED
    BY <2>1, <2>2, <2>4, <2>5, Zenon DEF Next, Chan!Next
<1>3. QED
  BY <1>1, <1>2, TypeCorrect, NothingLostHolds, PTL DEF Spec, IsChannel, Chan!Spec

\* One popper, no freezing, no spurious wake-up.
Lone == ~SpuriousWakeups /\ ~CanFreeze /\ Cardinality(Poppers) = 1

\* workio_thread, the only popper of its queue, never takes NULL for an entry
\* while its condition variable wakes nobody spuriously and nobody freezes the
\* queue: a popper that is woken finds the entry it was woken for.
THEOREM LonePopperServedHolds == Spec => []LonePopperServed
<1>. DEFINE WokenServed == Lone => ~frozen /\ emptyHanded = {} /\ (woken # {} => q # << >>)
<1>1. Init => WokenServed
  BY DEF Init
<1>2. TypeOK /\ WokenServed /\ [Next]_vars => WokenServed'
  <2> SUFFICES ASSUME SeqsOK, SetsOK, Lone, ~frozen, emptyHanded = {}, woken # {} => q # << >>, [Next]_vars
               PROVE  ~frozen' /\ emptyHanded' = {} /\ (woken' # {} => q' # << >>)
    BY Zenon DEF TypeOK, SeqsOK, SetsOK, Lone
  <2>1. PICK p : Poppers = {p}
    BY QueueAssumption, FS_Singleton DEF Lone
  <2>2. CASE UNCHANGED vars
    BY <2>2 DEF vars
  <2>3. ASSUME NEW d \in Data, Push(d) PROVE ~frozen' /\ emptyHanded' = {} /\ q' # << >>
    <3>1. q' = Append(q, d) /\ UNCHANGED <<frozen, emptyHanded>>
      BY <2>3 DEF Push
    <3>2. q \in Seq(Data) /\ Append(q, d) # << >>
      BY DEF SeqsOK
    <3>. QED  BY <3>1, <3>2
  <2>4. ASSUME NEW c \in Poppers, PopBegin(c) PROVE ~frozen' /\ emptyHanded' = {} /\ woken' = {}
    BY <2>1, <2>4 DEF PopBegin, TakeHead, SetsOK
  <2>5. ASSUME NEW c \in Poppers, PopWake(c) PROVE ~frozen' /\ emptyHanded' = {} /\ woken' = {}
    BY <2>1, <2>5 DEF PopWake, TakeHead, SetsOK
  <2>6. \A b \in BOOLEAN : ~FreezeThaw(b)
    BY DEF FreezeThaw, Lone
  <2>7. \A c \in Poppers : ~Spurious(c)
    BY DEF Spurious, Lone
  <2> QED
    BY <2>2, <2>3, <2>4, <2>5, <2>6, <2>7 DEF Next
<1>3. WokenServed => LonePopperServed
  BY DEF LonePopperServed, Lone
<1> QED
  BY <1>1, <1>2, <1>3, TypeCorrect, PTL DEF Spec
=============================================================================
