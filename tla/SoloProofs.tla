----------------------------- MODULE SoloProofs -----------------------------
(***************************************************************************)
(* Proofs about the template registry for every ring size, heap and id     *)
(* range, while only the workio thread is in it: the counts are exact,     *)
(* nothing is used after it was freed, works and jobs do not drift apart,  *)
(* recent jobs are kept, no extranonce of a template is used twice.        *)
(***************************************************************************)
EXTENDS Solo, FiniteSetTheorems, TLAPS

\* The number of live jobs of a template in a heap.
JobsIn(J, t) == {j \in Jobs : J[j].refs > 0 /\ J[j].tpl = t}
Count(J, t) == Cardinality(JobsIn(J, t))

Job == [refs : Nat, id : 0..IdMod-1, tpl : Tpls \union {None}, extra : Nat]
Tpl == [refs : Nat, tip : 0..MaxTip]

\* malloc returns free memory.
LEMMA AllocFree == ASSUME NEW S, S # {} PROVE Alloc(S) \in S
  BY Zenon DEF Alloc

\* Sets of jobs are finite.
LEMMA CountIsNat == ASSUME NEW J, NEW t
                    PROVE  IsFiniteSet(JobsIn(J, t)) /\ Count(J, t) \in Nat
<1>1. IsFiniteSet(JobsIn(J, t))
  BY FS_Subset, SoloAssumption DEF JobsIn
<1>. QED  BY <1>1, FS_CardinalityType DEF Count

\* The counts of a heap with one more job.
LEMMA CountNew ==
    ASSUME NEW J \in [Jobs -> Job], NEW j \in Jobs, NEW new \in Job, NEW t,
           J[j].refs = 0, new.refs = 1
    PROVE  Count([J EXCEPT ![j] = new], t) = Count(J, t) + (IF new.tpl = t THEN 1 ELSE 0)
<1>. DEFINE K == [J EXCEPT ![j] = new]
<1>1. CASE new.tpl = t
  <2>1. JobsIn(K, t) = JobsIn(J, t) \union {j} /\ j \notin JobsIn(J, t)
    BY <1>1 DEF JobsIn, Job
  <2>2. IsFiniteSet(JobsIn(J, t)) /\ Cardinality(JobsIn(J, t)) \in Nat
    BY CountIsNat DEF Count
  <2>3. Cardinality(JobsIn(J, t) \union {j}) = Cardinality(JobsIn(J, t)) + 1
    BY ONLY <2>1, <2>2, FS_AddElement
  <2>. QED  BY <1>1, <2>1, <2>3 DEF Count
<1>2. CASE new.tpl # t
  <2>1. JobsIn(K, t) = JobsIn(J, t)
    BY <1>2 DEF JobsIn, Job
  <2>. QED  BY <1>2, <2>1, CountIsNat DEF Count
<1>. QED  BY <1>1, <1>2

\* What job_unref does to the jobs.
LEMMA UnrefIs ==
    ASSUME NEW J \in [Jobs -> Job], NEW j \in Jobs, J[j].refs > 0
    PROVE  /\ Unref(J, j) \in [Jobs -> Job]
           /\ Unref(J, j)[j].refs = J[j].refs - 1
           /\ J[j].refs # 1 => Unref(J, j)[j] = [J[j] EXCEPT !.refs = J[j].refs - 1]
           /\ \A i \in Jobs \ {j} : Unref(J, j)[i] = J[i]
<1>. DEFINE new == IF J[j].refs = 1 THEN FreedJob ELSE [J[j] EXCEPT !.refs = J[j].refs - 1]
<1>1. Unref(J, j) = [J EXCEPT ![j] = new]
  BY Zenon DEF Unref
<1>2. J[j] \in Job /\ J[j].refs \in Nat
  BY DEF Job
<1>3. FreedJob \in Job /\ FreedJob.refs = 0
  BY SoloAssumption DEF FreedJob, Job
<1>4. J[j].refs - 1 \in Nat
  BY <1>2
<1>5. /\ [J[j] EXCEPT !.refs = J[j].refs - 1] \in Job
      /\ [J[j] EXCEPT !.refs = J[j].refs - 1].refs = J[j].refs - 1
  BY <1>2, <1>4 DEF Job
<1>6. new \in Job /\ new.refs = J[j].refs - 1
  BY <1>2, <1>3, <1>5
<1>7. J[j].refs # 1 => new = [J[j] EXCEPT !.refs = J[j].refs - 1]
  OBVIOUS
<1>. HIDE DEF new
<1>. QED  BY <1>1, <1>6, <1>7

\* The counts of a heap after job_unref.
LEMMA CountUnref ==
    ASSUME NEW J \in [Jobs -> Job], NEW j \in Jobs, NEW t \in Tpls, J[j].refs > 0
    PROVE  Count(Unref(J, j), t) =
              Count(J, t) - (IF J[j].refs = 1 /\ J[j].tpl = t THEN 1 ELSE 0)
<1>. DEFINE K == Unref(J, j)
<1>0. J[j].refs \in Nat
  BY DEF Job
<1>1. /\ K[j].refs = J[j].refs - 1
      /\ J[j].refs # 1 => K[j] = [J[j] EXCEPT !.refs = J[j].refs - 1]
      /\ \A i \in Jobs \ {j} : K[i] = J[i]
  BY UnrefIs
<1>. HIDE DEF K
<1>2. CASE J[j].refs = 1 /\ J[j].tpl = t
  <2>1. JobsIn(K, t) = JobsIn(J, t) \ {j} /\ j \in JobsIn(J, t)
    BY <1>1, <1>2 DEF JobsIn
  <2>2. Cardinality(JobsIn(J, t) \ {j}) = Cardinality(JobsIn(J, t)) - 1
    BY <2>1, FS_RemoveElement, CountIsNat
  <2>3. Count(K, t) = Count(J, t) - 1
    BY <2>1, <2>2 DEF Count
  <2>. QED  BY <1>2, <2>3 DEF K
<1>3. CASE ~(J[j].refs = 1 /\ J[j].tpl = t)
  <2>1. JobsIn(K, t) = JobsIn(J, t)
    <3>1. CASE J[j].refs = 1
      BY <1>1, <1>3, <3>1 DEF JobsIn
    <3>2. CASE J[j].refs # 1
      <4>1. K[j].refs > 0 /\ K[j].tpl = J[j].tpl
        BY <1>0, <1>1, <3>2 DEF Job
      <4>. QED  BY <1>1, <4>1 DEF JobsIn
    <3>. QED  BY <3>1, <3>2
  <2>. QED  BY <1>3, <2>1, CountIsNat DEF Count, K
<1>. QED  BY <1>2, <1>3

\* tpl_unref keeps types and takes one reference.
LEMMA DropTplExact ==
    ASSUME NEW T \in [Tpls -> Tpl], NEW t \in Tpls, T[t].refs > 0
    PROVE  /\ DropTpl(T, t) \in [Tpls -> Tpl]
           /\ DropTpl(T, t)[t].refs = T[t].refs - 1
           /\ \A u \in Tpls \ {t} : DropTpl(T, t)[u] = T[u]
<1>. DEFINE new == IF T[t].refs = 1 THEN FreedTpl ELSE [T[t] EXCEPT !.refs = T[t].refs - 1]
<1>1. DropTpl(T, t) = [T EXCEPT ![t] = new]
  BY Zenon DEF DropTpl
<1>2. T[t] \in Tpl /\ T[t].refs \in Nat /\ T[t].refs - 1 \in Nat
  BY DEF Tpl
<1>3. FreedTpl \in Tpl /\ FreedTpl.refs = 0
  BY SoloAssumption DEF FreedTpl, Tpl
<1>4. /\ [T[t] EXCEPT !.refs = T[t].refs - 1] \in Tpl
      /\ [T[t] EXCEPT !.refs = T[t].refs - 1].refs = T[t].refs - 1
  BY <1>2 DEF Tpl
<1>5. new \in Tpl /\ new.refs = T[t].refs - 1
  BY <1>2, <1>3, <1>4
<1>. HIDE DEF new
<1>. QED  BY <1>1, <1>5
-----------------------------------------------------------------------------
\* A job in a slot of the ring has an id of that slot.
RingSlots == \A i \in 0..Ring-1 : ring[i] # None =>
                job[ring[i]].id \in 1..IdMod-1 /\ Slot(job[ring[i]].id) = i

\* A live job has a template.
JobsHaveTpls == \A j \in Jobs : Live(j) => job[j].tpl \in Tpls

\* What the locals hold at each stage of a handler.
LocalsFit == /\ pc = "take" => gtpl # None
             /\ pc = "create" => gtpl # None /\ gtpl = ltpl
             /\ pc # "create" => ltpl = None
             /\ pc \in {"assemble", "send", "tip"} <=> ljob # None
             /\ ljob # None => job[ljob].id = lwork.id /\ lwork.id # 0

\* The only live job with the id of a work is the work's.
IdsFit == \A j \in Jobs : Live(j) =>
             /\ job[j].id # 0
             /\ \A w \in Works : job[j].id = w.id => j = w.root

\* The jobs of the template in use were made with smaller extranonces.
ExtraBelow == \A j \in Jobs :
    Live(j) /\ job[j].tpl \in {gtpl, ltpl} => job[j].extra < extra

IInv == /\ TypeOK /\ JobRefsExact /\ TplRefsExact
        /\ RingSlots /\ JobsHaveTpls /\ LocalsFit

\* The facts about the heap that the steps need.
LEMMA HeapFacts ==
    ASSUME IInv
    PROVE  /\ job \in [Jobs -> Job] /\ tpl \in [Tpls -> Tpl]
           /\ \A t \in Tpls : tpl[t].refs = Count(job, t) + (IF gtpl = t THEN 1 ELSE 0)
           /\ gtpl # None => gtpl \in Tpls /\ tpl[gtpl].refs > 0
           /\ ljob # None => ljob \in Jobs /\ Live(ljob)
           /\ \A i \in 0..Ring-1 : ring[i] # None => ring[i] \in Jobs /\ Live(ring[i])
           /\ \A j \in Jobs : Live(j) => job[j].tpl \in Tpls /\ tpl[job[j].tpl].refs > 0
<1>1. job \in [Jobs -> Job] /\ tpl \in [Tpls -> Tpl]
  BY DEF IInv, TypeOK, Job, Tpl
<1>2. \A t \in Tpls : tpl[t].refs = Count(job, t) + (IF gtpl = t THEN 1 ELSE 0)
  BY DEF IInv, TplRefsExact, Count, JobsIn, JobsOf, Live
<1>3. gtpl # None => gtpl \in Tpls /\ tpl[gtpl].refs > 0
  BY <1>2, CountIsNat DEF IInv, TypeOK
<1>4. \A j \in Jobs : InRing(j) \/ ljob = j => Live(j)
  BY DEF IInv, JobRefsExact, Live
<1>5. ljob # None => ljob \in Jobs /\ Live(ljob)
  BY <1>4 DEF IInv, TypeOK
<1>6. \A i \in 0..Ring-1 : ring[i] # None => ring[i] \in Jobs /\ Live(ring[i])
  BY <1>4 DEF IInv, TypeOK, InRing
<1>7. ASSUME NEW j \in Jobs, Live(j) PROVE job[j].tpl \in Tpls /\ tpl[job[j].tpl].refs > 0
  <2>1. job[j].tpl \in Tpls
    BY <1>7 DEF IInv, JobsHaveTpls
  <2>2. j \in JobsIn(job, job[j].tpl)
    BY <1>7 DEF JobsIn, Live
  <2>3. Count(job, job[j].tpl) # 0
    BY <2>2, CountIsNat, FS_EmptySet DEF Count
  <2>. QED  BY <1>2, <2>1, <2>3, CountIsNat
<1>. QED  BY <1>1, <1>2, <1>3, <1>5, <1>6, <1>7

\* TplRefsExact in terms of Count.
LEMMA TplRefsAs ==
    TplRefsExact <=> \A t \in Tpls : tpl[t].refs = Count(job, t) + (IF gtpl = t THEN 1 ELSE 0)
  BY DEF TplRefsExact, Count, JobsIn, JobsOf, Live

\* The templates T are counted right for the jobs J and the global g.
Exact(T, J, g) == \A t \in Tpls : T[t].refs = Count(J, t) + (IF g = t THEN 1 ELSE 0)

\* The heap after a reference to a live job is given back.
LEMMA UnrefExact ==
    ASSUME NEW T \in [Tpls -> Tpl], NEW J \in [Jobs -> Job], NEW g, NEW j \in Jobs,
           J[j].refs > 0, J[j].tpl \in Tpls, Exact(T, J, g)
    PROVE  /\ TplsWithout(T, J, j) \in [Tpls -> Tpl]
           /\ Exact(TplsWithout(T, J, j), Unref(J, j), g)
<1>0. \A t \in Tpls : T[t].refs = Count(J, t) + (IF g = t THEN 1 ELSE 0)
  BY DEF Exact
<1>1. CASE J[j].refs = 1
  <2>. DEFINE u == J[j].tpl
              D == DropTpl(T, u)
  <2>1. j \in JobsIn(J, u)
    BY <1>1 DEF JobsIn
  <2>2. Count(J, u) # 0
    BY <2>1, CountIsNat, FS_EmptySet DEF Count
  <2>3. T[u].refs > 0
    BY <1>0, <2>2, CountIsNat
  <2>4. /\ D \in [Tpls -> Tpl] /\ D[u].refs = T[u].refs - 1
        /\ \A t \in Tpls \ {u} : D[t] = T[t]
    BY <2>3, DropTplExact
  <2>5. TplsWithout(T, J, j) = D
    BY <1>1 DEF TplsWithout
  <2>. HIDE DEF D
  <2>6. ASSUME NEW t \in Tpls
        PROVE  D[t].refs = Count(Unref(J, j), t) + (IF g = t THEN 1 ELSE 0)
    <3>1. Count(Unref(J, j), t) = Count(J, t) - (IF u = t THEN 1 ELSE 0)
      BY <1>1, CountUnref
    <3>2. D[t].refs = T[t].refs - (IF u = t THEN 1 ELSE 0)
      <4>1. T[t].refs \in Nat
        BY DEF Tpl
      <4>. QED  BY <2>4, <4>1
    <3>3. T[t].refs = Count(J, t) + (IF g = t THEN 1 ELSE 0) /\ Count(J, t) \in Nat
      BY <1>0, CountIsNat
    <3>. QED  BY ONLY <3>1, <3>2, <3>3
  <2>. QED  BY <2>4, <2>5, <2>6 DEF Exact
<1>2. CASE J[j].refs # 1
  <2>1. \A t \in Tpls : Count(Unref(J, j), t) = Count(J, t)
    <3>. SUFFICES ASSUME NEW t \in Tpls PROVE Count(Unref(J, j), t) = Count(J, t)
      OBVIOUS
    <3>. QED  BY <1>2, CountUnref, CountIsNat
  <2>2. TplsWithout(T, J, j) = T
    BY <1>2 DEF TplsWithout
  <2>. QED  BY <1>0, <2>1, <2>2 DEF Exact
<1>. QED  BY <1>1, <1>2

\* A handler gives its job back.
LEMMA DropRefKeeps ==
    ASSUME IInv, ljob # None, DropRef, UNCHANGED <<ring, gtpl>>
    PROVE  /\ job' \in [Jobs -> Job] /\ tpl' \in [Tpls -> Tpl]
           /\ JobRefsExact' /\ TplRefsExact' /\ RingSlots' /\ JobsHaveTpls'
           /\ \A j \in Jobs : Live(j)' => /\ job'[j].id = job[j].id
                                         /\ job'[j].tpl = job[j].tpl
                                         /\ job'[j].extra = job[j].extra
                                         /\ Live(j)
<1>0. /\ job \in [Jobs -> Job] /\ tpl \in [Tpls -> Tpl] /\ ljob \in Jobs /\ job[ljob].refs > 0
      /\ job[ljob].tpl \in Tpls
      /\ \A t \in Tpls : tpl[t].refs = Count(job, t) + (IF gtpl = t THEN 1 ELSE 0)
  BY HeapFacts DEF Live
<1>1. tpl' = TplsWithout(tpl, job, ljob) /\ job' = Unref(job, ljob) /\ ljob' = None
  BY DEF DropRef
<1>2. /\ job' \in [Jobs -> Job] /\ job'[ljob].refs = job[ljob].refs - 1
      /\ job[ljob].refs # 1 => job'[ljob] = [job[ljob] EXCEPT !.refs = job[ljob].refs - 1]
      /\ \A j \in Jobs \ {ljob} : job'[j] = job[j]
  BY <1>0, <1>1, UnrefIs
<1>3. tpl' \in [Tpls -> Tpl] /\ TplRefsExact'
  <2>1. /\ tpl' \in [Tpls -> Tpl]
        /\ \A t \in Tpls : tpl'[t].refs = Count(job', t) + (IF gtpl = t THEN 1 ELSE 0)
    <3>1. Exact(tpl, job, gtpl)
      BY <1>0 DEF Exact
    <3>2. /\ TplsWithout(tpl, job, ljob) \in [Tpls -> Tpl]
          /\ Exact(TplsWithout(tpl, job, ljob), Unref(job, ljob), gtpl)
      BY <1>0, <3>1, UnrefExact
    <3>. QED  BY <1>1, <3>2 DEF Exact
  <2>. QED  BY <2>1 DEF TplRefsExact, Count, JobsIn, JobsOf, Live
<1>4. JobRefsExact'
  <2>1. \A j \in Jobs : InRing(j)' = InRing(j)
    BY DEF InRing
  <2>2. None \notin Jobs
    BY SoloAssumption
  <2>3. \A j \in Jobs : job[j].refs = (IF InRing(j) THEN 1 ELSE 0) + (IF ljob = j THEN 1 ELSE 0)
    BY DEF IInv, JobRefsExact
  <2>4. ASSUME NEW j \in Jobs
        PROVE  job'[j].refs = (IF InRing(j) THEN 1 ELSE 0) + (IF ljob' = j THEN 1 ELSE 0)
    <3>1. CASE j = ljob
      BY <1>0, <1>1, <1>2, <2>2, <2>3, <3>1
    <3>2. CASE j # ljob
      BY <1>1, <1>2, <2>2, <2>3, <3>2
    <3>. QED  BY <3>1, <3>2
  <2>. QED  BY <2>1, <2>4 DEF JobRefsExact
\* A job that lives on is the job it was.
<1>5. ASSUME NEW j \in Jobs, Live(j)'
      PROVE  /\ job'[j].id = job[j].id /\ job'[j].tpl = job[j].tpl
             /\ job'[j].extra = job[j].extra /\ Live(j)
  <2>1. CASE j = ljob
    <3>1. job[ljob].refs # 1
      BY <1>2, <1>5, <2>1 DEF Live
    <3>. QED  BY <1>0, <1>2, <2>1, <3>1 DEF Live, Job
  <2>2. CASE j # ljob
    BY <1>2, <1>5, <2>2 DEF Live
  <2>. QED  BY <2>1, <2>2
<1>6. RingSlots'
  <2>. SUFFICES ASSUME NEW i \in 0..Ring-1, ring[i] # None
                PROVE  job'[ring[i]].id \in 1..IdMod-1 /\ Slot(job'[ring[i]].id) = i
    BY DEF RingSlots, Slot
  <2>1. ring[i] \in Jobs /\ InRing(ring[i])'
    BY HeapFacts DEF InRing
  <2>2. Live(ring[i])'
    BY <1>1, <1>4, <2>1 DEF JobRefsExact, Live
  <2>3. job'[ring[i]].id = job[ring[i]].id
    BY <1>5, <2>1, <2>2
  <2>. QED  BY <2>3 DEF IInv, RingSlots
<1>7. JobsHaveTpls'
  BY <1>5 DEF JobsHaveTpls, IInv
<1>. QED  BY <1>2, <1>3, <1>4, <1>5, <1>6, <1>7

\* Steps that leave the heap and the references alone.
LEMMA FrameKeeps ==
    ASSUME IInv, UNCHANGED <<tpl, job, gtpl, ring, ljob>>
    PROVE  JobRefsExact' /\ TplRefsExact' /\ RingSlots' /\ JobsHaveTpls'
<1>1. JobRefsExact'
  BY DEF IInv, JobRefsExact, InRing
<1>2. TplRefsExact'
  BY DEF IInv, TplRefsExact, JobsOf, Live
<1>3. RingSlots'
  BY DEF IInv, RingSlots, Slot
<1>4. JobsHaveTpls'
  BY DEF IInv, JobsHaveTpls, Live
<1>. QED  BY <1>1, <1>2, <1>3, <1>4

\* g_tpl moves to a new template.
LEMMA FetchKeeps ==
    ASSUME IInv, FetchOk
    PROVE  /\ tpl' \in [Tpls -> Tpl] /\ gtpl' \in Tpls
           /\ JobRefsExact' /\ TplRefsExact' /\ RingSlots' /\ JobsHaveTpls'
           /\ \A j \in Jobs : Live(j) => job[j].tpl # gtpl'
<1>. DEFINE t == Alloc(FreeTpls)
            released == IF gtpl = None THEN tpl ELSE DropTpl(tpl, gtpl)
<1>0. /\ job \in [Jobs -> Job] /\ tpl \in [Tpls -> Tpl]
      /\ gtpl # None => gtpl \in Tpls /\ tpl[gtpl].refs > 0
      /\ \A u \in Tpls : tpl[u].refs = Count(job, u) + (IF gtpl = u THEN 1 ELSE 0)
  BY HeapFacts
<1>1. t \in Tpls /\ tpl[t].refs = 0
  <2>1. t \in FreeTpls
    BY AllocFree DEF FetchOk
  <2>. QED  BY <2>1 DEF FreeTpls
<1>2. gtpl' = t /\ tpl' = [released EXCEPT ![t] = [refs |-> 1, tip |-> node.tip]]
  BY DEF FetchOk, ReplaceTpl
<1>. HIDE DEF t
<1>3. /\ released \in [Tpls -> Tpl]
      /\ \A u \in Tpls : released[u].refs = Count(job, u)
  <2>1. CASE gtpl = None
    <3>1. None \notin Tpls
      BY SoloAssumption
    <3>. QED  BY <1>0, <2>1, <3>1, CountIsNat
  <2>2. CASE gtpl # None
    <3>1. /\ released \in [Tpls -> Tpl] /\ released[gtpl].refs = tpl[gtpl].refs - 1
          /\ \A u \in Tpls \ {gtpl} : released[u] = tpl[u]
      BY <1>0, <2>2, DropTplExact
    <3>. HIDE DEF released
    <3>2. ASSUME NEW u \in Tpls PROVE released[u].refs = Count(job, u)
      BY <1>0, <2>2, <3>1, CountIsNat
    <3>. QED  BY <3>1, <3>2
  <2>. QED  BY <2>1, <2>2
<1>. HIDE DEF released
<1>4. Count(job, t) = 0
  BY <1>0, <1>1, CountIsNat
<1>5. [refs |-> 1, tip |-> node.tip] \in Tpl
  BY DEF IInv, TypeOK, Tpl
<1>6. tpl' \in [Tpls -> Tpl]
  BY <1>2, <1>3, <1>5
<1>7. \A u \in Tpls : tpl'[u].refs = Count(job, u) + (IF gtpl' = u THEN 1 ELSE 0)
  <2>. SUFFICES ASSUME NEW u \in Tpls
                PROVE  tpl'[u].refs = Count(job, u) + (IF t = u THEN 1 ELSE 0)
    BY <1>2
  <2>1. CASE u = t
    BY <1>1, <1>2, <1>3, <1>4, <2>1
  <2>2. CASE u # t
    BY <1>2, <1>3, <2>2, CountIsNat
  <2>. QED  BY <2>1, <2>2
<1>8. UNCHANGED <<job, ring, ljob>>
  BY DEF FetchOk
<1>9. TplRefsExact'
  BY <1>7, <1>8 DEF TplRefsExact, Count, JobsIn, JobsOf, Live
<1>10. JobRefsExact' /\ RingSlots' /\ JobsHaveTpls'
  BY <1>8 DEF IInv, JobRefsExact, InRing, RingSlots, Slot, JobsHaveTpls, Live
<1>11. \A j \in Jobs : Live(j) => job[j].tpl # gtpl'
  <2>1. JobsIn(job, t) = {}
    BY <1>4, CountIsNat, FS_EmptySet DEF Count
  <2>. QED  BY <1>2, <2>1 DEF JobsIn, Live
<1>. QED  BY <1>1, <1>2, <1>6, <1>9, <1>10, <1>11

\* Every id has a slot.
LEMMA SlotInRing == ASSUME NEW id \in Nat PROVE Slot(id) \in 0..Ring-1
  BY SoloAssumption DEF Slot

\* The heap, the ring and the global references after a new job took its slot.
LEMMA CreateKeeps ==
    ASSUME IInv, CreateJob
    PROVE  /\ job' \in [Jobs -> Job] /\ tpl' \in [Tpls -> Tpl]
           /\ ring' \in [0..Ring-1 -> Jobs \union {None}]
           /\ gwork' \in Work
           /\ JobRefsExact' /\ TplRefsExact' /\ RingSlots' /\ JobsHaveTpls'
           /\ \E j \in Jobs :
                 /\ gwork' = [id |-> nextId, root |-> j]
                 /\ \A w \in Works : w.root # j /\ w.id # nextId
                 /\ ~Live(j)
                 /\ job'[j] = [refs |-> 1, id |-> nextId, tpl |-> ltpl, extra |-> extra]
                 /\ \A i \in Jobs \ {j} : Live(i)' => /\ Live(i) /\ job'[i] = job[i]
                                                     /\ job[i].id # nextId
<1>. DEFINE j == Alloc(FreeJobs)
            s == Slot(nextId)
            new == [refs |-> 1, id |-> nextId, tpl |-> ltpl, extra |-> extra]
            T == [tpl EXCEPT ![ltpl].refs = @ + 1]
            J == [job EXCEPT ![j] = new]
            old == ring[s]
<1>0. /\ job \in [Jobs -> Job] /\ tpl \in [Tpls -> Tpl]
      /\ \A t \in Tpls : tpl[t].refs = Count(job, t) + (IF gtpl = t THEN 1 ELSE 0)
      /\ \A i \in 0..Ring-1 : ring[i] # None => ring[i] \in Jobs /\ Live(ring[i])
      /\ \A i \in Jobs : Live(i) => job[i].tpl \in Tpls
  BY HeapFacts
<1>1. /\ ring \in [0..Ring-1 -> Jobs \union {None}] /\ nextId \in 1..IdMod-1 /\ nextId \in Nat
      /\ extra \in Nat /\ None \notin Jobs
  <2>1. ring \in [0..Ring-1 -> Jobs \union {None}] /\ nextId \in 1..IdMod-1 /\ extra \in Nat
    BY DEF IInv, TypeOK
  <2>2. IdMod \in Nat /\ None \notin Jobs
    BY SoloAssumption
  <2>. QED  BY <2>1, <2>2
<1>2. ltpl \in Tpls /\ ljob = None
  BY DEF IInv, LocalsFit, TypeOK, CreateJob
<1>3. /\ FreeJobs # {} /\ IdsOutlived /\ PutJob(j, new)
      /\ ring' = [ring EXCEPT ![s] = j] /\ gwork' = [id |-> nextId, root |-> j]
      /\ ljob' = ljob /\ gtpl' = gtpl
  BY DEF CreateJob
<1>4. j \in Jobs /\ job[j].refs = 0 /\ \A w \in Works : w.root # j
  <2>1. j \in FreeJobs
    BY <1>3, AllocFree
  <2>. HIDE DEF j
  <2>. QED  BY <2>1 DEF FreeJobs
<1>5. s \in 0..Ring-1
  BY <1>1, SlotInRing
<1>6. new \in Job /\ new.refs = 1
  BY <1>1, <1>2 DEF Job, IInv, TypeOK
<1>7. old = None => job' = J /\ tpl' = T
  BY <1>3 DEF PutJob
<1>8. old # None => job' = Unref(J, old) /\ tpl' = TplsWithout(T, J, old)
  BY <1>3 DEF PutJob
<1>. HIDE DEF j
<1>9. J \in [Jobs -> Job] /\ J[j] = new /\ \A i \in Jobs \ {j} : J[i] = job[i]
  <2>. HIDE DEF new
  <2>. QED  BY <1>0, <1>4, <1>6
<1>10. T \in [Tpls -> Tpl] /\ \A t \in Tpls : T[t].refs = tpl[t].refs + (IF ltpl = t THEN 1 ELSE 0)
  BY <1>0, <1>2 DEF Tpl
<1>11. Exact(T, J, gtpl)
  <2>1. ASSUME NEW t \in Tpls PROVE Count(J, t) = Count(job, t) + (IF ltpl = t THEN 1 ELSE 0)
    <3>1. new.tpl = ltpl
      OBVIOUS
    <3>2. new \in Job /\ new.refs = 1 /\ job \in [Jobs -> Job] /\ j \in Jobs /\ job[j].refs = 0
      BY <1>0, <1>4, <1>6
    <3>. HIDE DEF new
    <3>3. Count([job EXCEPT ![j] = new], t) = Count(job, t) + (IF new.tpl = t THEN 1 ELSE 0)
      BY <3>2, CountNew
    <3>. QED  BY <3>1, <3>3
  <2>. HIDE DEF J, T
  <2>2. ASSUME NEW t \in Tpls PROVE T[t].refs = Count(J, t) + (IF gtpl = t THEN 1 ELSE 0)
    BY <1>0, <1>2, <1>10, <2>1, CountIsNat
  <2>. QED  BY <2>2 DEF Exact
\* The job that has the slot has one reference, the ring's, and one slot.
<1>12. \A i \in Jobs : job[i].refs = IF InRing(i) THEN 1 ELSE 0
  BY <1>1, <1>2 DEF IInv, JobRefsExact
<1>13. \A k \in 0..Ring-1 : ring[k] # None => Slot(job[ring[k]].id) = k
  BY DEF IInv, RingSlots
<1>14. /\ \A k \in 0..Ring-1 : ring[k] # j
       /\ old # None => old \in Jobs /\ old # j /\ job[old].refs = 1
  BY <1>0, <1>4, <1>5, <1>12 DEF InRing, Live
<1>. HIDE DEF J, T, new
<1>15. /\ job' \in [Jobs -> Job] /\ job'[j] = new
       /\ old # None => job'[old].refs = 0
       /\ \A i \in Jobs \ {j, old} : job'[i] = job[i]
  <2>1. CASE old = None
    BY <1>4, <1>7, <1>9, <2>1
  <2>2. CASE old # None
    <3>1. J[old] = job[old] /\ J[old].refs = 1
      BY <1>9, <1>14, <2>2
    <3>2. /\ Unref(J, old) \in [Jobs -> Job] /\ Unref(J, old)[old].refs = J[old].refs - 1
          /\ \A i \in Jobs \ {old} : Unref(J, old)[i] = J[i]
      <4>1. old \in Jobs /\ J[old].refs > 0 /\ J \in [Jobs -> Job]
        BY <1>9, <1>14, <2>2, <3>1
      <4>. HIDE DEF old
      <4>. QED  BY <4>1, UnrefIs
    <3>. QED  BY <1>4, <1>8, <1>9, <1>14, <2>2, <3>1, <3>2
  <2>. QED  BY <2>1, <2>2
<1>16. tpl' \in [Tpls -> Tpl] /\ Exact(tpl', job', gtpl)
  <2>1. CASE old = None
    BY <1>7, <1>10, <1>11, <2>1
  <2>2. CASE old # None
    <3>1. J[old] = job[old] /\ J[old].refs > 0 /\ J[old].tpl \in Tpls
      BY <1>0, <1>9, <1>14, <2>2 DEF Live
    <3>2. /\ TplsWithout(T, J, old) \in [Tpls -> Tpl]
          /\ Exact(TplsWithout(T, J, old), Unref(J, old), gtpl)
      BY <1>9, <1>10, <1>11, <1>14, <2>2, <3>1, UnrefExact
    <3>. QED  BY <1>8, <2>2, <3>2
  <2>. QED  BY <2>1, <2>2
<1>17. TplRefsExact'
  BY <1>3, <1>16 DEF Exact, TplRefsExact, Count, JobsIn, JobsOf, Live
<1>18. /\ ring' \in [0..Ring-1 -> Jobs \union {None}] /\ ring'[s] = j
       /\ \A k \in 0..Ring-1 : k # s => ring'[k] = ring[k]
  BY <1>1, <1>3, <1>4, <1>5
<1>19. \A k \in 0..Ring-1 : k # s /\ ring[k] # None => ring[k] # old /\ ring[k] # j
  BY <1>5, <1>13, <1>14
<1>. HIDE DEF s
<1>20. JobRefsExact'
  <2>1. ASSUME NEW i \in Jobs PROVE job'[i].refs = IF InRing(i)' THEN 1 ELSE 0
    <3>1. CASE i = j
      BY <1>5, <1>6, <1>15, <1>18, <3>1 DEF InRing
    <3>2. CASE i # j /\ i = old
      <4>1. ~InRing(i)'
        BY <1>1, <1>18, <1>19, <3>2 DEF InRing
      <4>. QED  BY <1>1, <1>15, <3>2, <4>1
    <3>3. CASE i # j /\ i # old
      <4>1. InRing(i)' <=> InRing(i)
        BY <1>1, <1>5, <1>18, <3>3 DEF InRing
      <4>. QED  BY <1>12, <1>15, <3>3, <4>1
    <3>. QED  BY <3>1, <3>2, <3>3
  <2>. QED  BY <1>1, <1>2, <1>3, <2>1 DEF JobRefsExact
<1>21. new = [refs |-> 1, id |-> nextId, tpl |-> ltpl, extra |-> extra]
  BY DEF new
<1>22. ASSUME NEW i \in Jobs \ {j}, Live(i)'
       PROVE  Live(i) /\ job'[i] = job[i] /\ job[i].id # nextId
  <2>1. i # old
    BY <1>1, <1>15, <1>22 DEF Live
  <2>2. Live(i) /\ job'[i] = job[i]
    BY <1>15, <1>22, <2>1 DEF Live
  <2>3. PICK k \in 0..Ring-1 : ring[k] = i
    BY <1>12, <2>2 DEF Live, InRing
  <2>4. k # s
    BY <2>1, <2>3
  <2>5. job[i].id # nextId
    BY <1>1, <1>13, <2>3, <2>4 DEF s
  <2>. QED  BY <2>2, <2>5
<1>23. RingSlots'
  <2>. SUFFICES ASSUME NEW k \in 0..Ring-1, ring'[k] # None
                PROVE  job'[ring'[k]].id \in 1..IdMod-1 /\ Slot(job'[ring'[k]].id) = k
    BY DEF RingSlots, Slot
  <2>1. CASE k = s
    BY <1>1, <1>15, <1>18, <1>21, <2>1 DEF s
  <2>2. CASE k # s
    <3>1. ring'[k] = ring[k] /\ ring[k] \in Jobs \ {j, old}
      BY <1>0, <1>18, <1>19, <2>2
    <3>. QED  BY <1>15, <3>1 DEF IInv, RingSlots
  <2>. QED  BY <2>1, <2>2
<1>24. JobsHaveTpls'
  <2>1. ASSUME NEW i \in Jobs, Live(i)' PROVE job'[i].tpl \in Tpls
    <3>1. CASE i = j
      BY <1>2, <1>15, <1>21, <3>1
    <3>2. CASE i # j
      BY <1>0, <1>22, <2>1, <3>2
    <3>. QED  BY <3>1, <3>2
  <2>. QED  BY <2>1 DEF JobsHaveTpls
<1>25. gwork' \in Work
  BY <1>1, <1>3, <1>4 DEF Work
<1>26. \A w \in Works : w.root # j /\ w.id # nextId
  BY <1>3, <1>4 DEF IdsOutlived
<1>27. ~Live(j)
  BY <1>4 DEF Live
<1>. QED  BY <1>3, <1>4, <1>15, <1>16, <1>17, <1>18, <1>20, <1>21, <1>22, <1>23, <1>24, <1>25, <1>26, <1>27

\* What the lookup finds is a live job of the ring with the id asked for.
LEMMA RingGetFinds ==
    ASSUME IInv, NEW id \in Nat, RingGet(id) # None
    PROVE  /\ RingGet(id) \in Jobs /\ Live(RingGet(id)) /\ InRing(RingGet(id))
           /\ job[RingGet(id)].id = id /\ id # 0
<1>1. /\ id # 0 /\ RingGet(id) = ring[Slot(id)] /\ job[ring[Slot(id)]].id = id
      /\ ring[Slot(id)] # None
  BY DEF RingGet
<1>2. Slot(id) \in 0..Ring-1
  BY SlotInRing
<1>3. InRing(ring[Slot(id)])
  BY <1>2 DEF InRing
<1>. QED  BY <1>1, <1>2, <1>3, HeapFacts

\* A submission takes a reference of the job it found.
LEMMA LookupKeeps ==
    ASSUME IInv, NEW w \in Work, Lookup(w)
    PROVE  /\ job' \in [Jobs -> Job] /\ ljob' \in Jobs \union {None} /\ lwork' \in Work
           /\ JobRefsExact' /\ TplRefsExact' /\ RingSlots' /\ JobsHaveTpls' /\ LocalsFit'
           /\ lwork' \in {lwork, w}
           /\ \A i \in Jobs : Live(i)' => /\ Live(i) /\ job'[i].id = job[i].id
                                        /\ job'[i].tpl = job[i].tpl
                                        /\ job'[i].extra = job[i].extra
<1>. DEFINE j == RingGet(w.id)
<1>0. /\ job \in [Jobs -> Job] /\ w.id \in Nat /\ None \notin Jobs
      /\ ljob \in Jobs \union {None} /\ lwork \in Work
  <2>1. job \in [Jobs -> Job] /\ ljob \in Jobs \union {None} /\ lwork \in Work
    BY DEF IInv, TypeOK, Job
  <2>2. IdMod \in Nat /\ None \notin Jobs
    BY SoloAssumption
  <2>. QED  BY <2>1, <2>2 DEF Work
<1>1. UNCHANGED <<tpl, gtpl, ring, ltpl>> /\ pc = "idle"
  BY DEF Lookup, registry
<1>2. ljob = None
  BY <1>1 DEF IInv, LocalsFit
<1>3. CASE j = None
  <2>1. UNCHANGED <<job, ljob, lwork, pc>>
    BY <1>3 DEF Lookup
  <2>2. JobRefsExact' /\ TplRefsExact' /\ RingSlots' /\ JobsHaveTpls'
    BY <1>1, <2>1, FrameKeeps
  <2>3. LocalsFit'
    BY <1>1, <2>1 DEF IInv, LocalsFit
  <2>. QED  BY <1>0, <2>1, <2>2, <2>3 DEF Live
<1>4. CASE j # None
  <2>1. /\ job' = [job EXCEPT ![j].refs = @ + 1] /\ ljob' = j /\ lwork' = w /\ pc' = "assemble"
    BY <1>4 DEF Lookup
  <2>2. j \in Jobs /\ Live(j) /\ InRing(j) /\ job[j].id = w.id /\ w.id # 0
    BY <1>0, <1>4, RingGetFinds
  <2>. HIDE DEF j
  <2>3. job[j].refs \in Nat
    BY <1>0, <2>2 DEF Job
  <2>4. /\ job' \in [Jobs -> Job] /\ job'[j].refs = job[j].refs + 1
        /\ job'[j].id = job[j].id /\ job'[j].tpl = job[j].tpl /\ job'[j].extra = job[j].extra
        /\ \A i \in Jobs \ {j} : job'[i] = job[i]
    BY <1>0, <2>1, <2>2, <2>3 DEF Job
  <2>5. \A i \in Jobs : /\ Live(i)' <=> Live(i)
                        /\ job'[i].id = job[i].id /\ job'[i].tpl = job[i].tpl
                        /\ job'[i].extra = job[i].extra
    BY <2>2, <2>3, <2>4 DEF Live
  <2>6. JobRefsExact'
    <3>1. \A i \in Jobs : /\ InRing(i)' = InRing(i)
                          /\ job[i].refs = IF InRing(i) THEN 1 ELSE 0
      BY <1>0, <1>1, <1>2 DEF InRing, IInv, JobRefsExact
    <3>2. ASSUME NEW i \in Jobs
          PROVE  job'[i].refs = (IF InRing(i) THEN 1 ELSE 0) + (IF j = i THEN 1 ELSE 0)
      <4>1. CASE i = j
        BY <2>2, <2>4, <3>1, <4>1
      <4>2. CASE i # j
        BY <2>4, <3>1, <4>2
      <4>. QED  BY <4>1, <4>2
    <3>. QED  BY <2>1, <3>1, <3>2 DEF JobRefsExact
  <2>7. TplRefsExact'
    <3>1. \A t \in Tpls : JobsOf(t)' = JobsOf(t)
      BY <2>5 DEF JobsOf
    <3>. QED  BY <1>1, <3>1 DEF IInv, TplRefsExact
  <2>8. RingSlots'
    BY <1>0, <1>1, <2>5, HeapFacts DEF IInv, RingSlots, Slot
  <2>9. JobsHaveTpls'
    BY <2>5 DEF IInv, JobsHaveTpls
  <2>10. LocalsFit'
    BY <1>0, <1>1, <2>1, <2>2, <2>4 DEF IInv, LocalsFit
  <2>. QED  BY <2>1, <2>2, <2>4, <2>5, <2>6, <2>7, <2>8, <2>9, <2>10
<1>. QED  BY <1>3, <1>4

\* TypeOK but for the heap.
OtherTypes ==
    /\ gtpl \in Tpls \union {None}
    /\ ring \in [0..Ring-1 -> Jobs \union {None}]
    /\ nextId \in 1..IdMod-1
    /\ extra \in Nat /\ force \in BOOLEAN /\ age \in 0..MaxAge
    /\ cookie \in Nat
    /\ counted \in [found : Nat, accepted : Nat]
    /\ pc \in {"idle", "failed", "fetch", "refetch", "take", "create", "assemble", "send", "tip"}
    /\ sampled \in 0..MaxAge
    /\ ltpl \in Tpls \union {None} /\ ljob \in Jobs \union {None}
    /\ lwork \in Work /\ gwork \in Work
    /\ held \in [Miners -> Work]
    /\ node \in [up : BOOLEAN, tip : 0..MaxTip, cookie : Nat]
    /\ own \in [reached : BOOLEAN, best : BOOLEAN, kept : Nat]

LEMMA TypesSplit == TypeOK <=> tpl \in [Tpls -> Tpl] /\ job \in [Jobs -> Job] /\ OtherTypes
  BY DEF TypeOK, OtherTypes, Tpl, Job

\* Bounds that the types need.
LEMMA Bounds == /\ MaxAge \in Nat /\ MaxTip \in Nat /\ MaxCookie \in Nat
                /\ IdMod \in Nat /\ 1 \in 1..IdMod-1
                /\ NoWork \in Work /\ None \notin Jobs /\ None \notin Tpls
<1>1. /\ MaxAge \in Nat /\ MaxTip \in Nat /\ MaxCookie \in Nat
      /\ IdMod \in Nat /\ 1 \in 1..IdMod-1 /\ None \notin Jobs /\ None \notin Tpls
  BY SoloAssumption DEF MaxAge
<1>. QED  BY <1>1 DEF NoWork, Work

LEMMA InitHolds == Init => IInv
<1>. SUFFICES ASSUME Init PROVE IInv
  OBVIOUS
<1>1. FreedTpl \in Tpl /\ FreedTpl.refs = 0 /\ FreedJob \in Job /\ FreedJob.refs = 0
  BY Bounds DEF FreedTpl, FreedJob, Tpl, Job
<1>2. tpl \in [Tpls -> Tpl] /\ job \in [Jobs -> Job]
  BY <1>1 DEF Init
<1>3. OtherTypes
  <2>1. gtpl = None /\ ltpl = None /\ ljob = None
    BY DEF Init
  <2>2. ring \in [0..Ring-1 -> Jobs \union {None}] /\ held \in [Miners -> Work]
    BY Bounds DEF Init
  <2>3. /\ nextId \in 1..IdMod-1 /\ extra \in Nat /\ age \in 0..MaxAge /\ sampled \in 0..MaxAge
        /\ cookie \in Nat
    BY Bounds DEF Init
  <2>4. /\ counted \in [found : Nat, accepted : Nat]
        /\ node \in [up : BOOLEAN, tip : 0..MaxTip, cookie : Nat]
        /\ own \in [reached : BOOLEAN, best : BOOLEAN, kept : Nat]
    BY Bounds DEF Init
  <2>5. /\ force \in BOOLEAN /\ pc = "idle"
        /\ lwork \in Work /\ gwork \in Work
    BY Bounds DEF Init
  <2>. QED  BY <2>1, <2>2, <2>3, <2>4, <2>5 DEF OtherTypes
<1>4. \A j \in Jobs : job[j].refs = 0 /\ ~InRing(j) /\ ljob # j
  BY <1>1, Bounds DEF Init, InRing
<1>5. JobRefsExact /\ JobsHaveTpls
  BY <1>4 DEF JobRefsExact, JobsHaveTpls, Live
<1>6. TplRefsExact
  <2>1. ASSUME NEW t \in Tpls PROVE tpl[t].refs = Cardinality(JobsOf(t)) + (IF gtpl = t THEN 1 ELSE 0)
    <3>1. JobsOf(t) = {}
      BY <1>4 DEF JobsOf, Live
    <3>2. tpl[t].refs = 0 /\ gtpl # t
      BY <1>1, Bounds DEF Init
    <3>. QED  BY <3>1, <3>2, FS_EmptySet
  <2>. QED  BY <2>1 DEF TplRefsExact
<1>7. RingSlots /\ LocalsFit
  BY DEF Init, RingSlots, LocalsFit
<1>. QED  BY <1>2, <1>3, <1>5, <1>6, <1>7, TypesSplit DEF IInv

\* A step that leaves the heap and the references alone keeps the invariant if
\* it keeps the other types and what the locals hold.
LEMMA FrameStep ==
    ASSUME IInv, UNCHANGED <<tpl, job, gtpl, ring, ljob>>, OtherTypes', LocalsFit'
    PROVE  IInv'
<1>1. tpl' \in [Tpls -> Tpl] /\ job' \in [Jobs -> Job]
  BY HeapFacts
<1>2. TypeOK'
  BY <1>1 DEF OtherTypes, TypeOK, Tpl, Job
<1>. QED  BY <1>2, FrameKeeps DEF IInv

\* One step.
LEMMA StepKeeps == ASSUME IInv, [Next]_vars PROVE IInv'
<1>0. OtherTypes
  BY TypesSplit DEF IInv
<1>1. LocalsFit
  BY DEF IInv
<1>. USE DEF heap, registry, locals, miners
<1>2. CASE GetWork
  <2>1. OtherTypes'
    BY <1>0, <1>2 DEF OtherTypes, GetWork
  <2>2. LocalsFit'
    BY <1>1, <1>2 DEF LocalsFit, GetWork, NeedsTemplate
  <2>. QED  BY <1>2, <2>1, <2>2, FrameStep DEF GetWork
<1>3. CASE FetchOk
  <2>1. UNCHANGED <<job, ring, ltpl, ljob, lwork>> /\ pc' = "take" /\ pc \in {"fetch", "refetch"}
    BY <1>3 DEF FetchOk
  <2>2. /\ tpl' \in [Tpls -> Tpl] /\ gtpl' \in Tpls
        /\ JobRefsExact' /\ TplRefsExact' /\ RingSlots' /\ JobsHaveTpls'
    BY <1>3, FetchKeeps
  <2>3. OtherTypes'
    <3>1. /\ extra' = 0 /\ force' = FALSE /\ age' = 0 /\ pc' = "take" /\ sampled' = 0
          /\ UNCHANGED <<job, ring, nextId, cookie, counted, ltpl, ljob, lwork, miners, node, own>>
      BY <1>3 DEF FetchOk
    <3>2. extra' \in Nat /\ age' \in 0..MaxAge /\ sampled' \in 0..MaxAge
      BY ONLY <3>1, Bounds
    <3>3. force' \in BOOLEAN
      BY ONLY <3>1, Zenon
    <3>. QED  BY <1>0, <2>2, <3>1, <3>2, <3>3 DEF OtherTypes
  <2>4. LocalsFit'
    BY <1>1, <2>1, <2>2, Bounds DEF LocalsFit
  <2>5. job' \in [Jobs -> Job]
    BY <2>1, HeapFacts
  <2>6. TypeOK'
    BY <2>2, <2>3, <2>5 DEF TypeOK, OtherTypes, Tpl, Job
  <2>. QED  BY <2>2, <2>4, <2>6 DEF IInv
<1>4. CASE FetchFails
  <2>1. OtherTypes'
    BY <1>0, <1>4 DEF OtherTypes, FetchFails
  <2>2. LocalsFit'
    BY <1>1, <1>4 DEF LocalsFit, FetchFails, TooOld
  <2>. QED  BY <1>4, <2>1, <2>2, FrameStep DEF FetchFails
<1>5. CASE TakeTpl
  <2>1. OtherTypes'
    BY <1>0, <1>5, Bounds DEF OtherTypes, TakeTpl
  <2>2. LocalsFit'
    BY <1>1, <1>5 DEF LocalsFit, TakeTpl
  <2>. QED  BY <1>5, <2>1, <2>2, FrameStep DEF TakeTpl
<1>6. CASE CreateJob
  <2>1. /\ job' \in [Jobs -> Job] /\ tpl' \in [Tpls -> Tpl]
        /\ ring' \in [0..Ring-1 -> Jobs \union {None}] /\ gwork' \in Work
        /\ JobRefsExact' /\ TplRefsExact' /\ RingSlots' /\ JobsHaveTpls'
    BY <1>6, CreateKeeps
  <2>2. /\ UNCHANGED <<gtpl, force, age, cookie, counted, sampled, ljob, lwork, held, node, own>>
        /\ ltpl' = None /\ pc' = "idle" /\ pc = "create" /\ nextId' = NextId /\ extra' = extra + 1
    BY <1>6 DEF CreateJob, NextExtra
  <2>3. nextId' \in 1..IdMod-1
    BY <1>0, <2>2, Bounds DEF OtherTypes, NextId
  <2>4. extra' \in Nat
    BY <1>0, <2>2 DEF OtherTypes
  <2>5. OtherTypes'
    BY <1>0, <2>1, <2>2, <2>3, <2>4 DEF OtherTypes
  <2>6. LocalsFit'
    BY <1>1, <2>2 DEF LocalsFit
  <2>7. TypeOK'
    BY <2>1, <2>5 DEF TypeOK, OtherTypes, Tpl, Job
  <2>. QED  BY <2>1, <2>6, <2>7 DEF IInv
<1>7. CASE CreateFails
  <2>1. OtherTypes'
    BY <1>0, <1>7 DEF OtherTypes, CreateFails, NextExtra
  <2>2. LocalsFit'
    BY <1>1, <1>7 DEF LocalsFit, CreateFails
  <2>. QED  BY <1>7, <2>1, <2>2, FrameStep DEF CreateFails
<1>8. ASSUME NEW m \in Miners, CopyWork(m) PROVE IInv'
  <2>1. held' \in [Miners -> Work]
    BY <1>0, <1>8 DEF OtherTypes, CopyWork
  <2>2. UNCHANGED <<heap, registry, cookie, counted, pc, locals, gwork, node, own>>
    BY <1>8 DEF CopyWork
  <2>3. OtherTypes'
    BY <1>0, <2>1, <2>2 DEF OtherTypes
  <2>4. LocalsFit'
    BY <1>1, <2>2 DEF LocalsFit
  <2>. QED  BY <2>2, <2>3, <2>4, FrameStep
<1>9. ASSUME NEW m \in Miners, Lookup(held[m]) PROVE IInv'
  <2>1. held[m] \in Work
    BY <1>0 DEF OtherTypes
  <2>2. /\ job' \in [Jobs -> Job] /\ ljob' \in Jobs \union {None} /\ lwork' \in Work
        /\ JobRefsExact' /\ TplRefsExact' /\ RingSlots' /\ JobsHaveTpls' /\ LocalsFit'
    BY <1>9, <2>1, LookupKeeps
  <2>3. /\ UNCHANGED <<tpl, registry, cookie, counted, sampled, ltpl, miners, node>>
        /\ own' = [own EXCEPT !.reached = FALSE, !.best = FALSE]
    BY <1>9 DEF Lookup
  <2>4. pc' \in {"idle", "assemble"}
    <3>1. pc = "idle" /\ pc' \in {pc, "assemble"}
      BY <1>9 DEF Lookup
    <3>. QED  BY <3>1
  <2>5. own' \in [reached : BOOLEAN, best : BOOLEAN, kept : Nat]
    BY <1>0, <2>3 DEF OtherTypes
  <2>6. OtherTypes'
    BY <1>0, <2>2, <2>3, <2>4, <2>5 DEF OtherTypes
  <2>7. tpl' \in [Tpls -> Tpl]
    BY <2>3, HeapFacts
  <2>8. TypeOK'
    BY <2>2, <2>6, <2>7 DEF TypeOK, OtherTypes, Tpl, Job
  <2>. QED  BY <2>2, <2>8 DEF IInv
<1>10. CASE Assemble
  <2>1. /\ UNCHANGED <<registry, cookie, sampled, ltpl, miners, node, own>> /\ pc = "assemble"
    BY <1>10 DEF Assemble
  <2>2. counted' \in [found : Nat, accepted : Nat]
    BY <1>0, <1>10 DEF OtherTypes, Assemble
  <2>3. CASE UNCHANGED <<heap, ljob, lwork>> /\ pc' = "send"
    <3>1. OtherTypes'
      BY <1>0, <2>1, <2>2, <2>3 DEF OtherTypes
    <3>2. LocalsFit'
      BY <1>1, <2>1, <2>3 DEF LocalsFit
    <3>. QED  BY <2>1, <2>3, <3>1, <3>2, FrameStep
  <2>4. CASE DropRef /\ pc' = "idle"
    <3>1. ljob # None /\ ljob' = None /\ lwork' = NoWork
      BY <1>1, <2>1, <2>4 DEF LocalsFit, DropRef
    <3>2. /\ job' \in [Jobs -> Job] /\ tpl' \in [Tpls -> Tpl]
          /\ JobRefsExact' /\ TplRefsExact' /\ RingSlots' /\ JobsHaveTpls'
      BY <2>1, <2>4, <3>1, DropRefKeeps
    <3>3. OtherTypes'
      BY <1>0, <2>1, <2>2, <2>4, <3>1, Bounds DEF OtherTypes
    <3>4. LocalsFit'
      BY <1>1, <2>1, <2>4, <3>1 DEF LocalsFit
    <3>5. TypeOK'
      BY <3>2, <3>3 DEF TypeOK, OtherTypes, Tpl, Job
    <3>. QED  BY <3>2, <3>4, <3>5 DEF IInv
  <2>. QED  BY <1>10, <2>3, <2>4 DEF Assemble
<1>11. CASE SendBlock
  <2>1. /\ UNCHANGED <<heap, registry, cookie, counted, locals, miners>>
        /\ pc = "send" /\ pc' = "tip"
    BY <1>11 DEF SendBlock
  <2>2. /\ node' \in [up : BOOLEAN, tip : 0..MaxTip, cookie : Nat]
        /\ own' \in [reached : BOOLEAN, best : BOOLEAN, kept : Nat]
    <3>1. /\ node \in [up : BOOLEAN, tip : 0..MaxTip, cookie : Nat]
          /\ own \in [reached : BOOLEAN, best : BOOLEAN, kept : Nat]
      BY <1>0 DEF OtherTypes
    <3>2. CASE UNCHANGED <<node, own>>
      BY <3>1, <3>2
    <3>3. CASE /\ node.tip < MaxTip /\ node' = [node EXCEPT !.tip = @ + 1]
               /\ own' = [reached |-> TRUE, best |-> TRUE, kept |-> own.kept + 1]
      BY <3>1, <3>3, Bounds
    <3>4. CASE own' = [own EXCEPT !.reached = TRUE] /\ UNCHANGED node
      BY <3>1, <3>4
    <3>. QED  BY <1>11, <3>2, <3>3, <3>4 DEF SendBlock
  <2>3. OtherTypes'
    BY <1>0, <2>1, <2>2 DEF OtherTypes
  <2>4. LocalsFit'
    BY <1>1, <2>1 DEF LocalsFit
  <2>. QED  BY <2>1, <2>3, <2>4, FrameStep
<1>12. CASE AskTip
  <2>1. /\ UNCHANGED <<gtpl, ring, nextId, extra, age, cookie, sampled, ltpl, miners, node>>
        /\ pc = "tip" /\ pc' = "idle" /\ DropRef /\ force' = TRUE
        /\ own' = [own EXCEPT !.reached = FALSE]
    BY <1>12 DEF AskTip, ForceRefresh
  <2>2. PICK said \in BOOLEAN : counted' = [counted EXCEPT !.accepted = IF said THEN @ + 1 ELSE @]
    BY <1>12 DEF AskTip
  <2>3. counted' \in [found : Nat, accepted : Nat]
    BY <1>0, <2>2 DEF OtherTypes
  <2>4. own' \in [reached : BOOLEAN, best : BOOLEAN, kept : Nat]
    BY <1>0, <2>1 DEF OtherTypes
  <2>5. ljob # None /\ ljob' = None /\ lwork' = NoWork
    BY <1>1, <2>1 DEF LocalsFit, DropRef
  <2>6. /\ job' \in [Jobs -> Job] /\ tpl' \in [Tpls -> Tpl]
        /\ JobRefsExact' /\ TplRefsExact' /\ RingSlots' /\ JobsHaveTpls'
    BY <2>1, <2>5, DropRefKeeps
  <2>7. OtherTypes'
    BY <1>0, <2>1, <2>3, <2>4, <2>5, Bounds DEF OtherTypes
  <2>8. LocalsFit'
    BY <1>1, <2>1, <2>5 DEF LocalsFit
  <2>9. TypeOK'
    BY <2>6, <2>7 DEF TypeOK, OtherTypes, Tpl, Job
  <2>. QED  BY <2>6, <2>8, <2>9 DEF IInv
<1>13. CASE Tick
  <2>1. age' \in 0..MaxAge
    BY <1>0, <1>13, Bounds DEF OtherTypes, Tick
  <2>2. UNCHANGED <<heap, gtpl, ring, nextId, extra, force, cookie, counted, pc, locals, miners, node, own>>
    BY <1>13 DEF Tick
  <2>3. OtherTypes'
    BY <1>0, <2>1, <2>2 DEF OtherTypes
  <2>4. LocalsFit'
    BY <1>1, <2>2 DEF LocalsFit
  <2>. QED  BY <2>2, <2>3, <2>4, FrameStep
<1>14. CASE NewBlock \/ NodeStops \/ NodeStarts
  <2>1. UNCHANGED <<heap, registry, cookie, counted, pc, locals, miners>>
    BY <1>14 DEF NewBlock, NodeStops, NodeStarts
  <2>2. /\ node' \in [up : BOOLEAN, tip : 0..MaxTip, cookie : Nat]
        /\ own' \in [reached : BOOLEAN, best : BOOLEAN, kept : Nat]
    <3>1. /\ node \in [up : BOOLEAN, tip : 0..MaxTip, cookie : Nat]
          /\ own \in [reached : BOOLEAN, best : BOOLEAN, kept : Nat]
      BY <1>0 DEF OtherTypes
    <3>2. CASE NewBlock
      <4>1. /\ node.tip < MaxTip /\ node' = [node EXCEPT !.tip = @ + 1]
            /\ own' = [own EXCEPT !.best = FALSE]
        BY <3>2 DEF NewBlock
      <4>2. node.tip + 1 \in 0..MaxTip
        BY <3>1, <4>1, Bounds
      <4>. QED  BY <3>1, <4>1, <4>2
    <3>3. CASE NodeStops
      BY <3>1, <3>3 DEF NodeStops
    <3>4. CASE NodeStarts
      <4>1. node' = [node EXCEPT !.up = TRUE, !.cookie = @ + 1] /\ own' = own
        BY <3>4 DEF NodeStarts
      <4>2. node.cookie + 1 \in Nat
        BY <3>1
      <4>. QED  BY <3>1, <4>1, <4>2
    <3>. QED  BY <1>14, <3>2, <3>3, <3>4
  <2>3. OtherTypes'
    BY <1>0, <2>1, <2>2 DEF OtherTypes
  <2>4. LocalsFit'
    BY <1>1, <2>1 DEF LocalsFit
  <2>. QED  BY <2>1, <2>3, <2>4, FrameStep
<1>15. CASE UNCHANGED vars
  <2>1. OtherTypes' /\ LocalsFit'
    BY <1>0, <1>1, <1>15 DEF OtherTypes, LocalsFit, vars
  <2>. QED  BY <1>15, <2>1, FrameStep DEF vars
<1>. QED  BY <1>2, <1>3, <1>4, <1>5, <1>6, <1>7, <1>8, <1>9, <1>10, <1>11, <1>12, <1>13, <1>14,
             <1>15 DEF Next
-----------------------------------------------------------------------------
\* The jobs that live on are the jobs they were.
JobsStay == \A i \in Jobs : Live(i)' => /\ Live(i) /\ job'[i].id = job[i].id
                                       /\ job'[i].tpl = job[i].tpl
                                       /\ job'[i].extra = job[i].extra

\* No other template comes into use, and the extranonce goes on.
Onward == /\ {gtpl', ltpl'} \subseteq {gtpl, ltpl, None}
          /\ extra' \in {extra, extra + 1}

\* All steps but CreateJob make no work and no job.
LEMMA NoNewJob ==
    ASSUME IInv, [Next]_vars, ~CreateJob
    PROVE  /\ JobsStay /\ Works' \subseteq Works \union {NoWork}
           /\ FetchOk \/ Onward
<1>. USE DEF heap, registry, locals, miners
<1>0. OtherTypes
  BY TypesSplit DEF IInv
<1>1. ASSUME UNCHANGED <<job, lwork, miners>>, Onward
      PROVE  JobsStay /\ Works' \subseteq Works \union {NoWork} /\ Onward
  BY <1>1 DEF JobsStay, Live, Works
<1>2. ASSUME UNCHANGED <<gtpl, ltpl, extra, ring, miners>>, DropRef, ljob # None
      PROVE  JobsStay /\ Works' \subseteq Works \union {NoWork} /\ Onward
  <2>1. JobsStay
    BY <1>2, DropRefKeeps DEF JobsStay
  <2>2. lwork' = NoWork
    BY <1>2 DEF DropRef
  <2>. QED  BY <1>2, <2>1, <2>2 DEF Works, Onward
<1>3. CASE GetWork \/ FetchFails \/ TakeTpl \/ CreateFails \/ SendBlock
  BY <1>1, <1>3 DEF GetWork, FetchFails, TakeTpl, CreateFails, NextExtra, SendBlock, Onward
<1>4. CASE Tick \/ NewBlock \/ NodeStops \/ NodeStarts \/ UNCHANGED vars
  BY <1>1, <1>4 DEF Tick, NewBlock, NodeStops, NodeStarts, vars, Onward
<1>5. CASE FetchOk
  BY <1>5 DEF FetchOk, JobsStay, Live, Works
<1>6. ASSUME NEW m \in Miners, CopyWork(m)
      PROVE  JobsStay /\ Works' \subseteq Works \union {NoWork} /\ Onward
  <2>1. UNCHANGED <<job, gtpl, ltpl, extra, lwork, gwork>> /\ held' = [held EXCEPT ![m] = gwork]
    BY <1>6 DEF CopyWork
  <2>2. \A n \in Miners : held'[n] \in {held[n], gwork}
    BY <1>0, <2>1 DEF OtherTypes
  <2>3. Works' \subseteq Works
    BY <2>1, <2>2 DEF Works
  <2>. QED  BY <2>1, <2>3 DEF JobsStay, Live, Onward
<1>7. ASSUME NEW m \in Miners, Lookup(held[m])
      PROVE  JobsStay /\ Works' \subseteq Works \union {NoWork} /\ Onward
  <2>1. held[m] \in Work
    BY <1>0 DEF OtherTypes
  <2>2. JobsStay /\ lwork' \in {lwork, held[m]}
    BY <1>7, <2>1, LookupKeeps DEF JobsStay
  <2>3. UNCHANGED <<registry, ltpl, miners>>
    BY <1>7 DEF Lookup
  <2>. QED  BY <2>2, <2>3 DEF Works, Onward
<1>8. CASE Assemble
  <2>1. /\ UNCHANGED <<registry, ltpl, miners>> /\ ljob # None
        /\ UNCHANGED <<heap, ljob, lwork>> \/ DropRef
    BY <1>8 DEF Assemble, IInv, LocalsFit
  <2>. QED  BY <1>1, <1>2, <2>1 DEF Onward
<1>9. CASE AskTip
  <2>1. UNCHANGED <<gtpl, ltpl, ring, extra, miners>> /\ ljob # None /\ DropRef
    BY <1>9 DEF AskTip, IInv, LocalsFit
  <2>. QED  BY <1>2, <2>1
<1>. QED  BY <1>3, <1>4, <1>5, <1>6, <1>7, <1>8, <1>9 DEF Next

\* The ids and the extranonces of the jobs, step by step.
LEMMA IdsStep ==
    ASSUME IInv, [Next]_vars, IdsFit, ExtraBelow, UniqueExtra
    PROVE  IdsFit' /\ ExtraBelow' /\ UniqueExtra'
<1>0. /\ job \in [Jobs -> Job] /\ extra \in Nat /\ nextId \in Nat /\ nextId # 0
  <2>1. OtherTypes /\ job \in [Jobs -> Job]
    BY TypesSplit DEF IInv
  <2>. QED  BY <2>1, Bounds DEF OtherTypes
<1>1. CASE CreateJob
  <2>1. PICK j \in Jobs :
            /\ gwork' = [id |-> nextId, root |-> j]
            /\ \A w \in Works : w.root # j /\ w.id # nextId
            /\ job'[j] = [refs |-> 1, id |-> nextId, tpl |-> ltpl, extra |-> extra]
            /\ \A i \in Jobs \ {j} : Live(i)' => /\ Live(i) /\ job'[i] = job[i]
                                                /\ job[i].id # nextId
    BY <1>1, CreateKeeps
  <2>2. extra' = extra + 1 /\ gtpl' = gtpl /\ ltpl' = None /\ UNCHANGED <<lwork, held>>
    BY <1>1 DEF CreateJob, NextExtra
  <2>3. /\ \A w \in Works' : w \in Works \/ (w.id = nextId /\ w.root = j)
        /\ job'[j].id = nextId /\ job'[j].tpl = ltpl /\ job'[j].extra = extra
    BY <2>1, <2>2 DEF Works
  <2>4. IdsFit'
    <3>1. ASSUME NEW i \in Jobs, Live(i)'
          PROVE  job'[i].id # 0 /\ \A w \in Works' : job'[i].id = w.id => i = w.root
      <4>1. CASE i = j
        BY <1>0, <2>1, <2>3, <4>1
      <4>2. CASE i # j
        BY <2>1, <2>3, <3>1, <4>2 DEF IdsFit
      <4>. QED  BY <4>1, <4>2
    <3>. QED  BY <3>1 DEF IdsFit
  <2>5. ExtraBelow'
    <3>1. ASSUME NEW i \in Jobs, Live(i)', job'[i].tpl \in {gtpl', ltpl'}
          PROVE  job'[i].extra < extra'
      <4>1. CASE i = j
        BY <1>0, <2>2, <2>3, <4>1
      <4>2. CASE i # j
        <5>1. Live(i) /\ job'[i] = job[i] /\ job[i].extra \in Nat
          BY <1>0, <2>1, <3>1, <4>2 DEF Job
        <5>2. job[i].extra < extra
          BY <2>2, <3>1, <5>1, Bounds DEF ExtraBelow, IInv, JobsHaveTpls
        <5>. QED  BY <1>0, <2>2, <5>1, <5>2
      <4>. QED  BY <4>1, <4>2
    <3>. QED  BY <3>1 DEF ExtraBelow
  <2>6. UniqueExtra'
    <3>1. \A i \in Jobs \ {j} : Live(i)' /\ job'[i].tpl = ltpl => job'[i].extra # extra
      BY <1>0, <2>1 DEF ExtraBelow
    <3>2. ASSUME NEW i \in Jobs, NEW k \in Jobs, i # k, Live(i)', Live(k)', job'[i].tpl = job'[k].tpl
          PROVE  job'[i].extra # job'[k].extra
      <4>1. CASE i = j \/ k = j
        BY <2>3, <3>1, <3>2, <4>1
      <4>2. CASE i # j /\ k # j
        BY <2>1, <3>2, <4>2 DEF UniqueExtra
      <4>. QED  BY <4>1, <4>2
    <3>. QED  BY <3>2 DEF UniqueExtra
  <2>. QED  BY <2>4, <2>5, <2>6
<1>2. CASE ~CreateJob
  <2>1. /\ JobsStay /\ Works' \subseteq Works \union {NoWork}
        /\ FetchOk \/ Onward
    BY <1>2, NoNewJob
  <2>2. IdsFit'
    BY <2>1 DEF IdsFit, JobsStay, NoWork
  <2>3. UniqueExtra'
    BY <2>1 DEF UniqueExtra, JobsStay
  <2>4. ExtraBelow'
    <3>1. ASSUME NEW i \in Jobs, Live(i)', job'[i].tpl \in {gtpl', ltpl'}
          PROVE  job'[i].extra < extra'
      <4>1. Live(i) /\ job'[i].tpl = job[i].tpl /\ job'[i].extra = job[i].extra
        BY <2>1, <3>1 DEF JobsStay
      <4>2. job[i].tpl # None
        BY <4>1, Bounds DEF IInv, JobsHaveTpls
      <4>3. Onward
        <5>1. CASE FetchOk
          <6>1. ltpl' = None
            BY <5>1 DEF FetchOk, IInv, LocalsFit
          <6>. QED  BY <3>1, <4>1, <4>2, <5>1, <6>1, FetchKeeps
        <5>. QED  BY <2>1, <5>1
      <4>4. job[i].extra < extra /\ job[i].extra \in Nat
        BY <1>0, <3>1, <4>1, <4>2, <4>3 DEF ExtraBelow, Job, Onward
      <4>. QED  BY <1>0, <4>1, <4>3, <4>4 DEF Onward
    <3>. QED  BY <3>1 DEF ExtraBelow
  <2>. QED  BY <2>2, <2>3, <2>4
<1>. QED  BY <1>1, <1>2
-----------------------------------------------------------------------------
\* The registry keeps its types.
THEOREM TypeCorrect == Spec => []TypeOK
<1>1. IInv /\ [Next]_vars => IInv'
  BY StepKeeps
<1>2. IInv => TypeOK
  BY DEF IInv
<1>. QED  BY <1>1, <1>2, InitHolds, PTL DEF Spec

\* The counts of bitcoin_solo.cpp are the references there are: nothing leaks,
\* nothing is freed while something refers to it, on any early return.
THEOREM RefsExactHolds == Spec => []RefsExact
<1>1. IInv /\ [Next]_vars => IInv'
  BY StepKeeps
<1>2. IInv => RefsExact
  BY DEF IInv, RefsExact
<1>. QED  BY <1>1, <1>2, InitHolds, PTL DEF Spec

LEMMA HeapSafe == ASSUME IInv PROVE NoUseAfterFree
<1>1. /\ gtpl # None => gtpl \in Tpls /\ tpl[gtpl].refs > 0
      /\ ljob # None => ljob \in Jobs /\ Live(ljob)
      /\ \A j \in Jobs : Live(j) => job[j].tpl \in Tpls /\ tpl[job[j].tpl].refs > 0
  BY HeapFacts
<1>2. LocalsFit /\ None \notin Tpls
  BY Bounds DEF IInv
<1>. QED  BY <1>1, <1>2 DEF LocalsFit, NoUseAfterFree

\* No handler of bitcoin_solo.cpp works on a job or a template that another
\* one freed: a refresh and an eviction leave what is in use alone.
THEOREM NoUseAfterFreeHolds == Spec => []NoUseAfterFree
<1>1. IInv /\ [Next]_vars => IInv'
  BY StepKeeps
<1>2. IInv => NoUseAfterFree
  BY HeapSafe
<1>. QED  BY <1>1, <1>2, InitHolds, PTL DEF Spec

\* Initially there are no jobs.
LEMMA NoJobsYet == Init => IdsFit /\ ExtraBelow /\ UniqueExtra
  BY DEF Init, IdsFit, ExtraBelow, UniqueExtra, Live, FreedJob

\* The job that a submission finds is the job its work was made of, for every
\* id range: bitcoin_solo.cpp:520 never sees work and job drift apart.
THEOREM NoDriftHolds == Spec => []NoDrift
<1>. DEFINE Strong == IInv /\ IdsFit /\ ExtraBelow /\ UniqueExtra
<1>1. Init => Strong
  BY InitHolds, NoJobsYet
<1>2. Strong /\ [Next]_vars => Strong'
  BY StepKeeps, IdsStep
<1>3. Strong => NoDrift
  <2>. SUFFICES ASSUME Strong, NEW w \in Works, RingGet(w.id) # None
                PROVE  RingGet(w.id) = w.root
    BY DEF NoDrift
  <2>1. Works \subseteq Work /\ IdMod \in Nat
    BY TypesSplit, Bounds DEF Works, OtherTypes, IInv
  <2>2. w.id \in Nat
    BY <2>1 DEF Work
  <2>. QED  BY <2>2, RingGetFinds DEF IdsFit
<1>. HIDE DEF Strong
<1>. QED  BY <1>1, <1>2, <1>3, PTL DEF Spec

\* No two live jobs of one fetched template have the same extranonce.
THEOREM UniqueExtraHolds == Spec => []UniqueExtra
<1>. DEFINE Strong == IInv /\ IdsFit /\ ExtraBelow /\ UniqueExtra
<1>1. Init => Strong
  BY InitHolds, NoJobsYet
<1>2. Strong /\ [Next]_vars => Strong'
  BY StepKeeps, IdsStep
<1>3. Strong => UniqueExtra
  OBVIOUS
<1>. HIDE DEF Strong
<1>. QED  BY <1>1, <1>2, <1>3, PTL DEF Spec
-----------------------------------------------------------------------------
\* A recent work still has its job in its slot.
Recent(w) == w.id # 0 /\ Distance(w) < Ring
JobsKept == \A w \in Works : Recent(w) =>
               /\ w.root # None /\ ring[Slot(w.id)] = w.root
               /\ job[w.root].id = w.id

\* Division by the size of the ring.
LEMMA Division == ASSUME NEW a \in Nat
                  PROVE  a \div Ring \in Nat /\ a = Ring * (a \div Ring) + Slot(a)
  BY SoloAssumption DEF Slot

\* A positive multiple of the size of the ring is no less than it.
LEMMA Multiple == ASSUME NEW k \in Int, Ring * k > 0 PROVE Ring * k >= Ring
<1>1. Ring \in Nat \ {0}
  BY SoloAssumption
<1>2. CASE k <= 0
  BY <1>1, <1>2
<1>3. CASE k >= 1
  BY <1>1, <1>3
<1>. QED  BY <1>2, <1>3

\* Ids less than Ring apart have different slots, also where they wrap: the
\* id range is a multiple of Ring.
LEMMA SlotsDiffer ==
    ASSUME NEW a \in Nat, NEW b \in Nat,
           \/ 0 < a - b /\ a - b < Ring
           \/ 0 < a - b + IdMod /\ a - b + IdMod < Ring
    PROVE  Slot(a) # Slot(b)
<1>. DEFINE p == a \div Ring
            q == b \div Ring
            r == IdMod \div Ring
<1>1. p \in Nat /\ a = Ring * p + Slot(a)
  BY Division
<1>2. q \in Nat /\ b = Ring * q + Slot(b)
  BY Division
<1>3. r \in Nat /\ IdMod = Ring * r
  BY Division, SoloAssumption DEF Slot
<1>4. Ring \in Nat
  BY SoloAssumption
<1>5. Slot(a) \in Nat /\ Slot(b) \in Nat
  BY SlotInRing, <1>4
<1>. HIDE DEF p, q, r
<1>. SUFFICES ASSUME Slot(a) = Slot(b)
              PROVE  FALSE
  OBVIOUS
<1>6. a - b = Ring * (p - q) /\ a - b + IdMod = Ring * (p - q + r)
  BY <1>1, <1>2, <1>3, <1>4, <1>5
<1>7. CASE 0 < a - b /\ a - b < Ring
  <2>1. Ring * (p - q) >= Ring
    BY <1>1, <1>2, <1>6, <1>7, Multiple
  <2>2. a - b >= Ring
    BY ONLY <1>6, <2>1
  <2>. QED  BY ONLY <1>4, <1>7, <2>2, a \in Nat, b \in Nat
<1>8. CASE 0 < a - b + IdMod /\ a - b + IdMod < Ring
  <2>1. Ring * (p - q + r) >= Ring
    BY <1>1, <1>2, <1>3, <1>6, <1>8, Multiple
  <2>2. a - b + IdMod >= Ring
    BY ONLY <1>6, <2>1
  <2>3. IdMod \in Nat
    BY SoloAssumption
  <2>. QED  BY ONLY <1>4, <1>8, <2>2, <2>3, a \in Nat, b \in Nat
<1>. QED  BY <1>7, <1>8

\* A work recent after the next job was recent before, and has another slot.
LEMMA RecentBefore ==
    ASSUME NEW w \in Work, w.id # 0, w.id # nextId, nextId \in 1..IdMod-1,
           nextId' = NextId, Recent(w)'
    PROVE  Recent(w) /\ Slot(w.id) # Slot(nextId)
<1>. DEFINE id == w.id
            n == nextId
<1>1. id \in Nat /\ n \in Nat /\ IdMod \in Nat /\ Ring \in Nat
  BY SoloAssumption DEF Work
<1>2. id >= 1 /\ id < IdMod /\ n >= 1 /\ n < IdMod /\ id # n
  BY <1>1 DEF Work
<1>3. /\ Distance(w) = IF id < n THEN n - id ELSE n - 1 + IdMod - id
      /\ Distance(w)' = IF id < nextId' THEN nextId' - id ELSE nextId' - 1 + IdMod - id
      /\ nextId' = IF n + 1 = IdMod THEN 1 ELSE n + 1
  BY DEF Distance, NextId
<1>. HIDE DEF id, n
<1>4. Distance(w)' = Distance(w) + 1 /\ Distance(w) \in Nat
  <2>1. CASE n + 1 = IdMod
    BY ONLY <1>1, <1>2, <1>3, <2>1
  <2>2. CASE n + 1 # IdMod
    BY ONLY <1>1, <1>2, <1>3, <2>2
  <2>. QED  BY <2>1, <2>2
<1>5. Distance(w) + 1 < Ring
  BY <1>4 DEF Recent
<1>6. Recent(w)
  BY ONLY <1>1, <1>2, <1>4, <1>5 DEF Recent, id
<1>7. \/ 0 < n - id /\ n - id < Ring
      \/ 0 < n - id + IdMod /\ n - id + IdMod < Ring
  <2>1. CASE id < n
    BY ONLY <1>1, <1>2, <1>3, <1>4, <1>5, <2>1
  <2>2. CASE ~(id < n)
    BY ONLY <1>1, <1>2, <1>3, <1>4, <1>5, <2>2
  <2>. QED  BY <2>1, <2>2
<1>8. Slot(n) # Slot(id)
  BY <1>1, <1>7, SlotsDiffer
<1>. QED  BY <1>6, <1>8 DEF id, n

\* Only a new job changes the ring and takes an id.
LEMMA RingStays == ASSUME [Next]_vars, ~CreateJob
                   PROVE  UNCHANGED <<ring, nextId>>
  BY DEF Next, GetWork, FetchOk, FetchFails, TakeTpl, CreateFails, CopyWork, Lookup,
         Assemble, SendBlock, AskTip, Tick, NewBlock, NodeStops, NodeStarts,
         registry, vars

\* The ring keeps the jobs of the recent works, step by step.
LEMMA KeptStep == ASSUME IInv, JobsKept, [Next]_vars
                  PROVE  JobsKept'
<1>1. IInv'
  BY StepKeeps
<1>2. \A i \in 0..Ring-1 : ring'[i] # None => Live(ring[i])'
  <2>. SUFFICES ASSUME NEW i \in 0..Ring-1, ring'[i] # None
                PROVE  job'[ring'[i]].refs > 0
    BY DEF Live
  <2>1. ring'[i] \in Jobs
    BY <1>1 DEF IInv, TypeOK
  <2>2. ASSUME NEW j \in Jobs, NEW k \in 0..Ring-1, ring'[k] = j
        PROVE  job'[j].refs = 1 + (IF ljob' = j THEN 1 ELSE 0)
    BY <1>1, <2>2 DEF IInv, JobRefsExact, InRing
  <2>3. job'[ring'[i]].refs = 1 + (IF ljob' = ring'[i] THEN 1 ELSE 0)
    BY ONLY <2>1, <2>2, i \in 0..Ring-1
  <2>. QED  BY <2>3
<1>3. Works \subseteq Work /\ IdMod \in Nat /\ nextId \in 1..IdMod-1
  BY TypesSplit, Bounds DEF Works, OtherTypes, IInv
<1>4. \A w \in Works : w.id \in Nat /\ Slot(w.id) \in 0..Ring-1
  BY <1>3, SlotInRing DEF Work
<1>5. CASE CreateJob
  <2>1. PICK j \in Jobs :
            /\ gwork' = [id |-> nextId, root |-> j]
            /\ \A w \in Works : w.root # j /\ w.id # nextId
            /\ job'[j] = [refs |-> 1, id |-> nextId, tpl |-> ltpl, extra |-> extra]
            /\ \A i \in Jobs \ {j} : Live(i)' => /\ Live(i) /\ job'[i] = job[i]
                                                /\ job[i].id # nextId
    BY <1>5, CreateKeeps
  <2>2. /\ ring' = [ring EXCEPT ![Slot(nextId)] = gwork'.root] /\ nextId' = NextId
        /\ UNCHANGED <<lwork, held>>
    BY <1>5 DEF CreateJob
  <2>3. /\ ring \in [0..Ring-1 -> Jobs \union {None}] /\ Slot(nextId) \in 0..Ring-1
        /\ None \notin Jobs
    <3>1. ring \in [0..Ring-1 -> Jobs \union {None}] /\ None \notin Jobs
      BY TypesSplit, Bounds DEF OtherTypes, IInv
    <3>2. Slot(nextId) \in 0..Ring-1
      BY <1>3, SlotInRing
    <3>. QED  BY <3>1, <3>2
  <2>4. gwork'.root = j /\ gwork'.id = nextId /\ job'[j].id = nextId
    BY <2>1
  <2>5. /\ ring'[Slot(nextId)] = j
        /\ \A i \in 0..Ring-1 \ {Slot(nextId)} : ring'[i] = ring[i]
    BY <2>2, <2>3, <2>4
  <2>6. ASSUME NEW w \in Works, Recent(w)'
        PROVE  /\ w.root # None /\ ring'[Slot(w.id)] = w.root
               /\ job'[w.root].id = w.id
    <3>1. w.id # 0
      BY <2>6 DEF Recent
    <3>2. Recent(w) /\ Slot(w.id) # Slot(nextId)
      BY <1>3, <2>1, <2>2, <2>6, <3>1, RecentBefore
    <3>3. w.root # None /\ ring[Slot(w.id)] = w.root /\ job[w.root].id = w.id
      BY <3>2 DEF JobsKept
    <3>4. ring'[Slot(w.id)] = w.root
      BY <1>4, <2>5, <3>2, <3>3
    <3>5. Live(w.root)' /\ w.root \in Jobs \ {j}
      BY <1>2, <1>3, <1>4, <2>1, <3>3, <3>4 DEF Work
    <3>. QED  BY <2>1, <3>3, <3>4, <3>5
  <2>7. ASSUME NEW w \in Works'
        PROVE  w \in Works \/ w = gwork'
    BY <2>2 DEF Works
  <2>8. Slot(gwork'.id) = Slot(nextId)
    BY <2>4
  <2>. QED  BY <2>3, <2>4, <2>5, <2>6, <2>7, <2>8 DEF JobsKept, Slot
<1>6. CASE ~CreateJob
  <2>1. JobsStay /\ Works' \subseteq Works \union {NoWork}
    BY <1>6, NoNewJob
  <2>2. UNCHANGED <<ring, nextId>>
    BY <1>6, RingStays
  <2>3. ASSUME NEW w \in Works', Recent(w)'
        PROVE  /\ w.root # None /\ ring'[Slot(w.id)] = w.root
               /\ job'[w.root].id = w.id
    <3>1. w \in Works /\ Recent(w)
      BY <2>1, <2>2, <2>3 DEF Recent, Distance, NoWork
    <3>2. w.root # None /\ ring[Slot(w.id)] = w.root /\ job[w.root].id = w.id
      BY <3>1 DEF JobsKept
    <3>3. Live(w.root)' /\ w.root \in Jobs
      BY <1>2, <1>3, <1>4, <2>2, <3>1, <3>2 DEF Work
    <3>. QED  BY <2>1, <2>2, <3>2, <3>3 DEF JobsStay
  <2>. QED  BY <2>3 DEF JobsKept, Slot
<1>. QED  BY <1>5, <1>6

\* A block found for one of the last Ring - 1 works finds its job in the ring of
\* bitcoin_solo.cpp, also across the wrap of the ids at 2^32.
THEOREM RecentKeptHolds == Spec => []RecentKept
<1>. DEFINE Strong == IInv /\ JobsKept
<1>1. Init => Strong
  BY InitHolds DEF Init, JobsKept, Recent, Works, NoWork
<1>2. Strong /\ [Next]_vars => Strong'
  BY StepKeeps, KeptStep
<1>3. Strong => RecentKept
  BY DEF JobsKept, RecentKept, Recent, RingGet
<1>. HIDE DEF Strong
<1>. QED  BY <1>1, <1>2, <1>3, PTL DEF Spec
-----------------------------------------------------------------------------
CountTypes == /\ counted \in [found : Nat, accepted : Nat]
              /\ own \in [reached : BOOLEAN, best : BOOLEAN, kept : Nat]

\* A block that is on its way is counted as found, not yet as accepted; until
\* it is sent no block is the tip of the node, and one that is was kept.
Pending == /\ pc \in {"assemble", "send"} => ~own.best
           /\ pc \in {"send", "tip"} => counted.accepted + 1 <= counted.found
           /\ pc = "tip" /\ own.best => counted.accepted + 1 <= own.kept

CountInv == CountTypes /\ CountsOnlyKept /\ Pending

\* The steps that submit no block.
OtherStep == \/ GetWork \/ FetchOk \/ FetchFails \/ TakeTpl \/ CreateJob \/ CreateFails
             \/ \E m \in Miners : CopyWork(m)
             \/ Tick \/ NodeStops \/ NodeStarts \/ UNCHANGED vars

LEMMA OthersSubmitNothing ==
    ASSUME OtherStep
    PROVE  /\ UNCHANGED <<counted, own>>
           /\ pc' = pc \/ pc' \notin {"assemble", "send", "tip"}
<1>1. CASE GetWork
  BY <1>1 DEF GetWork
<1>2. CASE FetchOk \/ FetchFails \/ TakeTpl \/ CreateJob \/ CreateFails
  BY <1>2 DEF FetchOk, FetchFails, TakeTpl, CreateJob, CreateFails
<1>3. CASE \E m \in Miners : CopyWork(m)
  BY <1>3 DEF CopyWork
<1>4. CASE Tick \/ NodeStops \/ NodeStarts \/ UNCHANGED vars
  BY <1>4 DEF Tick, NodeStops, NodeStarts, vars
<1>. QED  BY <1>1, <1>2, <1>3, <1>4 DEF OtherStep

\* The counters, step by step.
LEMMA CountStep == ASSUME CountInv, [Next]_vars PROVE CountInv'
<1>. USE DEF CountInv, CountTypes, CountsOnlyKept, Pending
<1>1. CASE OtherStep
  BY <1>1, OthersSubmitNothing
<1>2. CASE NewBlock
  BY <1>2 DEF NewBlock
<1>3. ASSUME NEW m \in Miners, Lookup(held[m])
      PROVE  CountInv'
  <2>1. /\ own' = [own EXCEPT !.reached = FALSE, !.best = FALSE]
        /\ counted' = counted /\ pc' \in {"idle", "assemble"}
    BY <1>3 DEF Lookup
  <2>. QED  BY <2>1
<1>4. CASE Assemble
  <2>1. /\ own' = own /\ ~own.best /\ pc' \in {"idle", "send"}
        /\ counted' = [counted EXCEPT !.found = @ + 1] \/ (counted' = counted /\ pc' = "idle")
    BY <1>4 DEF Assemble
  <2>. QED  BY <2>1
<1>5. CASE SendBlock
  <2>1. pc = "send" /\ pc' = "tip" /\ counted' = counted
    BY <1>5 DEF SendBlock
  <2>2. \/ own' = own \/ own' = [own EXCEPT !.reached = TRUE]
        \/ own' = [reached |-> TRUE, best |-> TRUE, kept |-> own.kept + 1]
    BY <1>5 DEF SendBlock
  <2>3. CASE own' = own \/ own' = [own EXCEPT !.reached = TRUE]
    <3>1. /\ own'.best = own.best /\ own'.kept = own.kept
          /\ own' \in [reached : BOOLEAN, best : BOOLEAN, kept : Nat]
      BY <2>3
    <3>. QED  BY <2>1, <3>1
  <2>4. CASE own' = [reached |-> TRUE, best |-> TRUE, kept |-> own.kept + 1]
    BY <2>1, <2>4
  <2>. QED  BY <2>2, <2>3, <2>4
<1>6. CASE AskTip
  <2>1. pc = "tip" /\ pc' = "idle" /\ own' = [own EXCEPT !.reached = FALSE]
    BY <1>6 DEF AskTip
  <2>2. PICK said \in BOOLEAN :
           /\ said => TipIsOurs
           /\ counted' = [counted EXCEPT !.accepted = IF said THEN @ + 1 ELSE @]
    BY <1>6 DEF AskTip
  <2>3. CASE said
    <3>1. /\ own.best /\ counted'.accepted = counted.accepted + 1
          /\ counted'.found = counted.found /\ own'.kept = own.kept
      BY <2>1, <2>2, <2>3 DEF TipIsOurs
    <3>2. counted' \in [found : Nat, accepted : Nat]
      BY <2>2, <2>3
    <3>3. own' \in [reached : BOOLEAN, best : BOOLEAN, kept : Nat]
      BY <2>1
    <3>. QED  BY <2>1, <3>1, <3>2, <3>3
  <2>4. CASE ~said
    BY <2>1, <2>2, <2>4
  <2>. QED  BY <2>3, <2>4
<1>. QED  BY <1>1, <1>2, <1>3, <1>4, <1>5, <1>6 DEF Next, OtherStep

\* solo_blocks_accepted tells of no block that the node did not keep, and of no
\* more than were found.
THEOREM CountsOnlyKeptHolds == Spec => []CountsOnlyKept
<1>1. Init => CountInv
  BY DEF Init, CountInv, CountTypes, CountsOnlyKept, Pending
<1>2. CountInv /\ [Next]_vars => CountInv'
  BY CountStep
<1>3. CountInv => CountsOnlyKept
  BY DEF CountInv
<1>. QED  BY <1>1, <1>2, <1>3, PTL DEF Spec
-----------------------------------------------------------------------------
\* Once a block of ours is the tip, the template is of that tip or will be
\* asked for again.
TipSeen == own.best /\ pc # "tip" /\ gtpl # None /\ ~force => tpl[gtpl].tip = node.tip

\* tpl_unref leaves a template with another reference its tip.
LEMMA DropTplTip ==
    ASSUME NEW T \in [Tpls -> Tpl], NEW t \in Tpls, NEW u \in Tpls,
           t = u => T[t].refs # 1
    PROVE  DropTpl(T, t)[u].tip = T[u].tip
<1>1. CASE t = u
  <2>1. DropTpl(T, t)[t] = [T[t] EXCEPT !.refs = T[t].refs - 1]
    BY <1>1 DEF DropTpl
  <2>. QED  BY <1>1, <2>1 DEF Tpl
<1>2. CASE t # u
  BY <1>2 DEF DropTpl
<1>. QED  BY <1>1, <1>2

\* The template in use keeps its tip when a handler gives its job back, and
\* when a job is put in the ring.
LEMMA TipStays ==
    ASSUME IInv, gtpl # None, (DropRef /\ ljob # None) \/ CreateJob
    PROVE  tpl'[gtpl].tip = tpl[gtpl].tip
<1>1. /\ job \in [Jobs -> Job] /\ tpl \in [Tpls -> Tpl]
      /\ \A t \in Tpls : tpl[t].refs = Count(job, t) + (IF gtpl = t THEN 1 ELSE 0)
      /\ gtpl \in Tpls
      /\ ljob # None => ljob \in Jobs /\ Live(ljob)
      /\ \A i \in 0..Ring-1 : ring[i] # None => ring[i] \in Jobs /\ Live(ring[i])
      /\ \A j \in Jobs : Live(j) => job[j].tpl \in Tpls
  BY HeapFacts
<1>2. ASSUME NEW j \in Jobs, Live(j), job[j].tpl = gtpl
      PROVE  tpl[gtpl].refs > 1
  <2>1. JobsIn(job, gtpl) # {}
    BY <1>2 DEF JobsIn, Live
  <2>. QED  BY <1>1, <2>1, CountIsNat, FS_EmptySet DEF Count
<1>3. CASE DropRef /\ ljob # None
  <2>1. tpl' = TplsWithout(tpl, job, ljob)
    BY <1>3 DEF DropRef
  <2>2. job[ljob].tpl \in Tpls /\ (job[ljob].tpl = gtpl => tpl[gtpl].refs # 1)
    BY <1>1, <1>2, <1>3
  <2>3. DropTpl(tpl, job[ljob].tpl)[gtpl].tip = tpl[gtpl].tip
    BY <1>1, <2>2, DropTplTip
  <2>. QED  BY <2>1, <2>3 DEF TplsWithout
<1>4. CASE CreateJob
  <2>. DEFINE T == [tpl EXCEPT ![ltpl].refs = @ + 1]
              j == Alloc(FreeJobs)
              J == [job EXCEPT ![j] = [refs |-> 1, id |-> nextId, tpl |-> ltpl, extra |-> extra]]
              old == ring[Slot(nextId)]
  <2>1. ltpl = gtpl
    BY <1>4 DEF CreateJob, IInv, LocalsFit
  <2>2. /\ T \in [Tpls -> Tpl] /\ T[gtpl].tip = tpl[gtpl].tip /\ T[gtpl].refs # 1
    <3>1. tpl[gtpl] \in Tpl /\ tpl[gtpl].refs \in Nat /\ tpl[gtpl].refs # 0
      BY <1>1, CountIsNat DEF Tpl
    <3>. QED  BY <1>1, <2>1, <3>1 DEF Tpl
  <2>3. IF old = None THEN tpl' = T ELSE tpl' = TplsWithout(T, J, old)
    BY <1>4 DEF CreateJob, PutJob
  <2>4. CASE old = None
    BY <2>2, <2>3, <2>4
  <2>5. CASE old # None
    <3>1. Slot(nextId) \in 0..Ring-1
      <4>1. nextId \in 1..IdMod-1 /\ IdMod \in Nat
        BY Bounds DEF IInv, TypeOK
      <4>. QED  BY <4>1, SlotInRing
    <3>2. old \in Jobs /\ Live(old) /\ job[old].tpl \in Tpls
      BY <1>1, <2>5, <3>1
    <3>3. j \in Jobs /\ ~Live(j)
      <4>1. j \in FreeJobs
        BY <1>4, AllocFree DEF CreateJob
      <4>. QED  BY <4>1 DEF FreeJobs, Live
    <3>4. J[old] = job[old]
      BY <1>1, <3>2, <3>3
    <3>. HIDE DEF T, J, old, j
    <3>5. DropTpl(T, job[old].tpl)[gtpl].tip = T[gtpl].tip
      BY <1>1, <2>2, <3>2, DropTplTip
    <3>. QED  BY <2>2, <2>3, <2>5, <3>4, <3>5 DEF TplsWithout
  <2>. QED  BY <2>4, <2>5
<1>. QED  BY <1>3, <1>4

\* The tip of the template in use, step by step.
LEMMA TipStep == ASSUME IInv, TipSeen, CountInv, [Next]_vars
                 PROVE  TipSeen'
<1>. USE DEF heap, registry, locals, miners
<1>1. CASE GetWork \/ FetchFails \/ TakeTpl \/ CreateFails \/ Tick \/ UNCHANGED vars
  BY <1>1 DEF TipSeen, GetWork, FetchFails, TakeTpl, CreateFails, Tick, vars
<1>2. CASE NodeStops \/ NodeStarts \/ NewBlock
  BY <1>2, TypesSplit DEF TipSeen, NodeStops, NodeStarts, NewBlock, OtherTypes, IInv
<1>3. ASSUME NEW m \in Miners, CopyWork(m)
      PROVE  TipSeen'
  BY <1>3 DEF TipSeen, CopyWork
<1>4. ASSUME NEW m \in Miners, Lookup(held[m])
      PROVE  TipSeen'
  BY <1>4, TypesSplit DEF TipSeen, Lookup, OtherTypes, IInv
<1>5. CASE FetchOk
  <2>1. gtpl' = Alloc(FreeTpls) /\ tpl' = ReplaceTpl(Alloc(FreeTpls)) /\ node' = node
    BY <1>5 DEF FetchOk
  <2>2. gtpl' \in Tpls /\ tpl' \in [Tpls -> Tpl]
    BY <1>5, FetchKeeps
  <2>. DEFINE t == Alloc(FreeTpls)
              released == IF gtpl = None THEN tpl ELSE DropTpl(tpl, gtpl)
  <2>3. tpl' = [released EXCEPT ![t] = [refs |-> 1, tip |-> node.tip]] /\ gtpl' = t
    BY <2>1 DEF ReplaceTpl
  <2>. HIDE DEF t, released
  <2>4. DOMAIN released = Tpls
    BY <2>2, <2>3
  <2>5. tpl'[gtpl'].tip = node.tip
    BY <2>2, <2>3, <2>4
  <2>. QED  BY <2>1, <2>5 DEF TipSeen
<1>6. CASE CreateJob
  <2>1. UNCHANGED <<gtpl, force, own, node>> /\ pc = "create"
    BY <1>6 DEF CreateJob
  <2>. QED  BY <1>6, <2>1, TipStays DEF TipSeen
<1>7. CASE Assemble
  <2>1. pc = "assemble" /\ own' = own
    BY <1>7 DEF Assemble
  <2>. QED  BY <2>1 DEF TipSeen, CountInv, Pending
<1>8. CASE SendBlock
  BY <1>8 DEF SendBlock, TipSeen
<1>9. CASE AskTip
  BY <1>9 DEF AskTip, ForceRefresh, TipSeen
<1>. QED  BY <1>1, <1>2, <1>3, <1>4, <1>5, <1>6, <1>7, <1>8, <1>9 DEF Next

\* Once a block of ours is the tip, solo_get_work makes no work of a template
\* of the tip before it without asking the node.
THEOREM MovesOnHolds == Spec => MovesOn
<1>. DEFINE Strong == IInv /\ CountInv /\ TipSeen
            Moves == own.best /\ pc \in {"idle", "failed"} /\ pc' = "take"
                        => tpl[gtpl].tip = node.tip
<1>1. Init => Strong
  BY InitHolds DEF Init, CountInv, CountTypes, CountsOnlyKept, Pending, TipSeen
<1>2. Strong /\ [Next]_vars => Strong'
  BY StepKeeps, CountStep, TipStep
<1>3. Strong /\ [Next]_vars => [Moves]_vars
  <2>. SUFFICES ASSUME Strong, Next, pc \in {"idle", "failed"}, pc' = "take", own.best
                PROVE  tpl[gtpl].tip = node.tip
    OBVIOUS
  <2>1. GetWork
    BY DEF Next, FetchOk, FetchFails, TakeTpl, CreateJob, CreateFails, CopyWork, Lookup,
           Assemble, SendBlock, AskTip, Tick, NewBlock, NodeStops, NodeStarts
  <2>. QED  BY <2>1 DEF GetWork, NeedsTemplate, TipSeen
<1>. HIDE DEF Strong
<1>. QED  BY <1>1, <1>2, <1>3, PTL DEF Spec, MovesOn
=============================================================================
