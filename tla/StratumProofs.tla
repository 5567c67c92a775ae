--------------------------- MODULE StratumProofs ---------------------------
(***************************************************************************)
(* Proofs about a stratum session, for any number of miner threads, jobs,  *)
(* difficulties and connections.                                           *)
(***************************************************************************)
EXTENDS Stratum, SequenceTheorems, TLAPS

Share == [w : Work, nonce : Nonces]
Entry == [key : [ntime : Nat, nonce : Nonces], old : BOOLEAN]

\* A work that is not blank is of a job, and so is every share; workio has a
\* share in hand while it sends; the job stays while it is installed.
HasJobs ==
    /\ ~gwork.blank => gwork.h.id # 0
    /\ \A t \in Miners : ~work[t].blank => work[t].h.id # 0
    /\ \A i \in 1..Len(subq) : subq[i].w.h.id # 0
    /\ pcw \in {"send", "remember"} => subq # << >>
    /\ pcs = "install" => job.h.id # 0

\* The constants' types.
LEMMA Constants ==
    /\ MaxJob \in Nat /\ MaxXnonce2 \in Nat /\ MaxConns \in Nat /\ MaxSubmits \in Nat
    /\ NoHeader \in Header /\ NoHeader.id = 0
    /\ NoWork \in Work /\ NoWork.blank /\ NoWork.h.id = 0
    /\ NoJob \in [h : Header, diff : Diffs \union {0}, clean : BOOLEAN] /\ NoJob.h.id = 0
BY StratumAssumption DEF StratumAssumption, NoHeader, NoWork, NoJob, Header, Work

\* xnonce2 counts on, or wraps to 0.
LEMMA NextXnonce2Type ==
    ASSUME NEW x \in 0..MaxXnonce2
    PROVE  /\ NextXnonce2(x) \in 0..MaxXnonce2
           /\ NextXnonce2(x) # 0 => NextXnonce2(x) = x + 1
<1>1. MaxXnonce2 \in Nat BY StratumAssumption DEF StratumAssumption
<1>2. CASE x = MaxXnonce2
  <2>1. (x + 1) % (MaxXnonce2 + 1) = 0 BY <1>1, <1>2
  <2>2. QED BY <1>1, <2>1 DEF NextXnonce2
<1>3. CASE x < MaxXnonce2
  <2>1. (x + 1) % (MaxXnonce2 + 1) = x + 1 BY <1>1, <1>3
  <2>2. QED BY <1>1, <1>3, <2>1 DEF NextXnonce2
<1>4. QED BY <1>1, <1>2, <1>3

\* A copy of g_work has the type of a work, and is of a job when it is not
\* blank.
LEMMA CopiedType ==
    ASSUME NEW w \in Work, NEW g \in Work
    PROVE  /\ Copied(w, g) \in Work
           /\ (~w.blank => w.h.id # 0) /\ (~g.blank => g.h.id # 0)
                => (~Copied(w, g).blank => Copied(w, g).h.id # 0)
BY DEF Copied, Work

\* Making a header from a job in hand.
LEMMA GenHeaderType ==
    ASSUME TypeOK, job.h.id # 0, GenHeader
    PROVE  /\ used' \subseteq Header
           /\ job' \in [h : Header, diff : Diffs \union {0}, clean : BOOLEAN]
           /\ job'.h.id = job.h.id /\ job'.diff = job.diff
<1> DEFINE next == NextXnonce2(job.h.xnonce2)
<1>1. job \in [h : Header, diff : Diffs \union {0}, clean : BOOLEAN] /\ job.h \in Header
  BY DEF TypeOK
<1>2. next \in 0..MaxXnonce2 BY <1>1, NextXnonce2Type DEF Header
<1>3. [job.h EXCEPT !.xnonce2 = next] \in Header
      /\ [job.h EXCEPT !.xnonce2 = next].id = job.h.id
  BY <1>1, <1>2 DEF Header
<1>4. job' = [job EXCEPT !.h = [job.h EXCEPT !.xnonce2 = next]]
  BY DEF GenHeader
<1>5. job' \in [h : Header, diff : Diffs \union {0}, clean : BOOLEAN]
      /\ job'.h.id = job.h.id /\ job'.diff = job.diff
  BY <1>1, <1>3, <1>4
<1>6. used' \subseteq Header BY <1>1 DEF GenHeader, TypeOK
<1>7. QED BY <1>5, <1>6

\* The header in g_work, and its target.
LEMMA HalfMadeType ==
    ASSUME TypeOK, job.h.id # 0
    PROVE  /\ HalfMade \in Work /\ ~HalfMade.blank
           /\ HalfMade.h = job.h /\ HalfMade.torn
<1>1. job.h \in Header BY DEF TypeOK
<1>2. job.h.id \in Jobs BY <1>1 DEF Header
<1>3. HeightOf[job.h.id] \in Nat BY <1>2, StratumAssumption DEF StratumAssumption
<1>4. QED BY <1>1, <1>3 DEF HalfMade, Work, TypeOK

LEMMA TargetedType ==
    ASSUME TypeOK, NEW g \in Work
    PROVE  /\ Targeted(g) \in Work
           /\ Targeted(g).h = g.h /\ Targeted(g).blank = g.blank
           /\ Targeted(g).diff = job.diff
           /\ Targeted(g).torn = (job.h.id # g.h.id)
<1>1. job.diff \in Diffs \union {0} BY DEF TypeOK
<1>2. QED BY <1>1 DEF Targeted, Work
-----------------------------------------------------------------------------
\* What a miner thread copies keeps the types.
LEMMA CopyWorkType ==
    ASSUME TypeOK, HasJobs, NEW t \in Miners, CopyWork(t),
           gwork' \in Work, ~gwork'.blank => gwork'.h.id # 0
    PROVE  /\ work' \in [Miners -> Work] /\ pc' \in [Miners -> {"mine", "gen", "target", "gone"}]
           /\ \A u \in Miners : ~work'[u].blank => work'[u].h.id # 0
<1> DEFINE w == Copied(work[t], gwork')
<1>1. work[t] \in Work BY DEF TypeOK
<1>2. w \in Work /\ (~w.blank => w.h.id # 0)
  BY <1>1, CopiedType DEF HasJobs
<1>3. work' = [work EXCEPT ![t] = w] /\ pc' = [pc EXCEPT ![t] = "mine"]
  BY DEF CopyWork
<1> HIDE DEF w
<1>4. QED BY <1>2, <1>3 DEF TypeOK, HasJobs

\* A share behind the queue, and one taken from it.
LEMMA QueueType ==
    ASSUME NEW q \in Seq(Share), \A i \in 1..Len(q) : q[i].w.h.id # 0
    PROVE  /\ \A s \in Share : s.w.h.id # 0 =>
                 /\ Append(q, s) \in Seq(Share)
                 /\ \A i \in 1..Len(Append(q, s)) : Append(q, s)[i].w.h.id # 0
           /\ q # << >> =>
                 /\ Head(q) \in Share /\ Head(q).w.h.id # 0
                 /\ Tail(q) \in Seq(Share)
                 /\ \A i \in 1..Len(Tail(q)) : Tail(q)[i].w.h.id # 0
<1>1. ASSUME NEW s \in Share, s.w.h.id # 0
      PROVE  /\ Append(q, s) \in Seq(Share)
             /\ \A i \in 1..Len(Append(q, s)) : Append(q, s)[i].w.h.id # 0
  <2>1. Append(q, s) \in Seq(Share) BY <1>1, AppendProperties
  <2>2. ASSUME NEW i \in 1..Len(Append(q, s)) PROVE Append(q, s)[i].w.h.id # 0
    <3>1. CASE i = Len(q) + 1 BY <1>1, <3>1, AppendProperties
    <3>2. CASE i # Len(q) + 1
      <4>1. i \in 1..Len(q) BY <2>2, <3>2, AppendProperties, LenProperties
      <4>2. Append(q, s)[i] = q[i] BY <1>1, <4>1, AppendProperties
      <4>3. QED BY <4>1, <4>2
    <3>3. QED BY <3>1, <3>2
  <2>3. QED BY <2>1, <2>2
<1>2. ASSUME q # << >>
      PROVE  /\ Head(q) \in Share /\ Head(q).w.h.id # 0
             /\ Tail(q) \in Seq(Share)
             /\ \A i \in 1..Len(Tail(q)) : Tail(q)[i].w.h.id # 0
  <2>1. Len(q) \in Nat \ {0} /\ Head(q) = q[1]
    BY <1>2, EmptySeq, LenProperties, HeadTailProperties
  <2>2. Tail(q) \in Seq(Share) /\ Len(Tail(q)) = Len(q) - 1
        /\ \A i \in 1..Len(Tail(q)) : Tail(q)[i] = q[i + 1]
    BY <1>2, HeadTailProperties
  <2>3. 1 \in 1..Len(q) BY <2>1
  <2>4. \A i \in 1..Len(Tail(q)) : i + 1 \in 1..Len(q) BY <2>1, <2>2
  <2>5. Head(q) \in Share /\ Head(q).w.h.id # 0 BY <2>1, <2>3, ElementOfSeq
  <2>6. QED BY <2>2, <2>4, <2>5
<1>3. QED BY <1>1, <1>2

\* The key of a share of a job.
LEMMA KeyType ==
    ASSUME NEW s \in Share, s.w.h.id # 0
    PROVE  Key(s) \in [ntime : Nat, nonce : Nonces]
<1>1. s.w.h.id \in Jobs BY DEF Share, Work, Header
<1>2. NTimeOf[s.w.h.id] \in Nat BY <1>1, StratumAssumption DEF StratumAssumption
<1>3. QED BY <1>2 DEF Key, NTime, Share
-----------------------------------------------------------------------------
Typed == TypeOK /\ HasJobs

LEMMA TypedInit == Init => Typed
<1>1. << >> \in Seq(Share) /\ Len(<< >>) = 0 BY EmptySeq
<1>2. SUFFICES ASSUME Init PROVE Typed
  OBVIOUS
<1>3. NoHeader.xnonce1 \in Xnonce1s BY Constants DEF Header
<1>4. /\ made \in 0..MaxJob /\ due \in [Jobs -> Diffs \union {0}]
      /\ conns \in 0..MaxConns /\ conn \in {"none", "up", "dead"}
      /\ xnonce1 \in Xnonce1s /\ nextDiff \in Diffs
  BY <1>2, <1>3, Constants, StratumAssumption DEF StratumAssumption, Init
<1>5. /\ job \in [h : Header, diff : Diffs \union {0}, clean : BOOLEAN]
      /\ gwork \in Work /\ work \in [Miners -> Work]
  BY <1>2, Constants DEF Init
<1>6. /\ pcs = "down" /\ expired = TRUE /\ glock = Free
      /\ pc = [t \in Miners |-> "mine"]
      /\ subq = << >> /\ submits = 0 /\ pcw = "idle"
      /\ log = {} /\ seen = {} /\ used = {}
  BY <1>2 DEF Init
<1>7. TypeOK BY <1>1, <1>4, <1>5, <1>6, Constants DEF TypeOK, Share
<1>8. HasJobs BY <1>1, <1>2, <1>6, Constants DEF HasJobs, Init
<1>9. QED BY <1>7, <1>8 DEF Typed

\* The steps of the stratum thread up to the login, and of the connection.
LEMMA TypedSession ==
    ASSUME Typed, \/ Down \/ Connect \/ ConnectFails \/ Subscribe \/ Authorize
                  \/ Lose \/ Interrupted \/ ReconnectAsked
    PROVE  Typed'
<1> USE DEF Typed, pool, session, shared, mining, upstream
<1>1. CASE Down BY <1>1 DEF TypeOK, HasJobs, Down, BlankWork, Work
<1>2. CASE Connect BY <1>2, Constants DEF TypeOK, HasJobs, Connect
<1>3. CASE ConnectFails BY <1>3 DEF TypeOK, HasJobs, ConnectFails
<1>4. CASE Subscribe
  BY <1>4, StratumAssumption DEF StratumAssumption, TypeOK, HasJobs, Subscribe
<1>5. CASE Authorize BY <1>5 DEF TypeOK, HasJobs, Authorize
<1>6. CASE Lose BY <1>6 DEF TypeOK, HasJobs, Lose
<1>7. CASE Interrupted
  BY <1>7, Constants DEF TypeOK, HasJobs, Interrupted, Disconnect
<1>8. CASE ReconnectAsked
  BY <1>8, Constants DEF TypeOK, HasJobs, ReconnectAsked, Disconnect
<1>9. QED BY <1>1, <1>2, <1>3, <1>4, <1>5, <1>6, <1>7, <1>8

\* The pool's lines and the installation of jobs.
LEMMA TypedLines ==
    ASSUME Typed, Notify \/ SetDifficulty \/ SetExtranonce \/ TestJob \/ InstallJob
    PROVE  Typed'
<1> USE DEF Typed, pool, session, shared, mining, upstream
<1>1. CASE Notify
  <2>1. PICK j \in {made, made + 1} \intersect Jobs, c \in BOOLEAN :
           /\ made' = j
           /\ due' = [due EXCEPT ![j] = nextDiff]
           /\ job' = [h |-> [xnonce1 |-> xnonce1, id |-> j,
                             xnonce2 |-> FirstXnonce2(j)],
                      diff |-> nextDiff, clean |-> c]
    BY <1>1 DEF Notify
  <2>2. FirstXnonce2(j) \in 0..MaxXnonce2
    BY Constants DEF FirstXnonce2, TypeOK, Header
  <2>3. [xnonce1 |-> xnonce1, id |-> j, xnonce2 |-> FirstXnonce2(j)] \in Header
    BY <2>1, <2>2 DEF Header, TypeOK
  <2>4. job' \in [h : Header, diff : Diffs \union {0}, clean : BOOLEAN] /\ job'.h.id # 0
    BY <2>1, <2>3, Constants DEF TypeOK, Jobs
  <2>5. made' \in 0..MaxJob /\ due' \in [Jobs -> Diffs \union {0}]
    BY <2>1, Constants DEF TypeOK, Jobs
  <2>6. UNCHANGED <<session, shared, mining, upstream, used>> BY <1>1 DEF Notify
  <2>7. pcs' \in {pcs, "test"} BY <1>1 DEF Notify, AfterLine
  <2>8. QED BY <2>4, <2>5, <2>6, <2>7 DEF TypeOK, HasJobs
<1>2. CASE SetDifficulty BY <1>2 DEF TypeOK, HasJobs, SetDifficulty, AfterLine
<1>3. CASE SetExtranonce BY <1>3 DEF TypeOK, HasJobs, SetExtranonce, AfterLine
<1>4. CASE TestJob BY <1>4 DEF TypeOK, HasJobs, TestJob, NewJob
<1>5. CASE InstallJob
  <2>1. job.h.id # 0 /\ GenHeader BY <1>5 DEF InstallJob, HasJobs
  <2>2. used' \subseteq Header
        /\ job' \in [h : Header, diff : Diffs \union {0}, clean : BOOLEAN]
    BY <2>1, GenHeaderType
  <2>3. gwork' \in Work /\ ~gwork'.blank /\ gwork'.h.id # 0
    BY <1>5, <2>1, HalfMadeType, TargetedType DEF InstallJob
  <2>4. log' \subseteq log BY <1>5 DEF InstallJob, PurgeOld
  <2>5. pcs' = "recv" /\ expired' = FALSE BY <1>5 DEF InstallJob
  <2>6. UNCHANGED <<pool, session, mining, subq, submits, pcw, seen>>
    BY <1>5 DEF InstallJob
  <2>7. QED BY <2>2, <2>3, <2>4, <2>5, <2>6 DEF TypeOK, HasJobs
<1>6. QED BY <1>1, <1>2, <1>3, <1>4, <1>5

\* The steps of the miner threads.
LEMMA TypedMiner ==
    ASSUME Typed, NEW t \in Miners, MinerStep(t)
    PROVE  Typed'
<1> USE DEF Typed, pool, session, shared, mining, upstream
<1>1. CASE TakeWork(t)
  <2>1. gwork' \in Work /\ (~gwork'.blank => gwork'.h.id # 0)
    BY <1>1 DEF TakeWork, TypeOK, HasJobs
  <2>2. /\ work' \in [Miners -> Work] /\ pc' \in [Miners -> {"mine", "gen", "target", "gone"}]
        /\ \A u \in Miners : ~work'[u].blank => work'[u].h.id # 0
    BY <1>1, <2>1, CopyWorkType DEF TakeWork
  <2>3. QED BY <1>1, <2>2 DEF TakeWork, TypeOK, HasJobs
<1>2. CASE WantExtraWork(t) BY <1>2 DEF WantExtraWork, TypeOK, HasJobs
<1>3. CASE MakeHeader(t)
  <2>1. job.h.id # 0 /\ GenHeader BY <1>3 DEF MakeHeader
  <2>2. /\ used' \subseteq Header /\ job'.h.id # 0
        /\ job' \in [h : Header, diff : Diffs \union {0}, clean : BOOLEAN]
    BY <2>1, GenHeaderType
  <2>3. gwork' \in Work /\ ~gwork'.blank /\ gwork'.h.id # 0
    BY <1>3, <2>1, HalfMadeType DEF MakeHeader
  <2>4. QED BY <1>3, <2>2, <2>3 DEF MakeHeader, TypeOK, HasJobs
<1>4. CASE SetTarget(t)
  <2>1. gwork' \in Work /\ (~gwork'.blank => gwork'.h.id # 0)
    BY <1>4, TargetedType DEF SetTarget, HasJobs, TypeOK
  <2>2. /\ work' \in [Miners -> Work] /\ pc' \in [Miners -> {"mine", "gen", "target", "gone"}]
        /\ \A u \in Miners : ~work'[u].blank => work'[u].h.id # 0
    BY <1>4, <2>1, CopyWorkType DEF SetTarget
  <2>3. QED BY <1>4, <2>1, <2>2 DEF SetTarget, TypeOK, HasJobs
<1>5. CASE UseFreedJob(t) BY <1>5 DEF UseFreedJob, TypeOK, HasJobs
<1>6. CASE FindNonce(t)
  <2>1. PICK n \in Nonces : subq' = Append(subq, [w |-> work[t], nonce |-> n])
    BY <1>6 DEF FindNonce
  <2>2. [w |-> work[t], nonce |-> n] \in Share /\ work[t].h.id # 0
    BY <1>6 DEF FindNonce, TypeOK, HasJobs, Share
  <2>3. subq \in Seq(Share) BY DEF TypeOK, Share
  <2>4. subq' \in Seq(Share) /\ \A i \in 1..Len(subq') : subq'[i].w.h.id # 0
    BY <2>1, <2>2, <2>3, QueueType DEF HasJobs
  <2>5. subq' # << >> BY <2>1, <2>2, <2>3, AppendProperties, EmptySeq
  <2>6. submits' \in 0..MaxSubmits BY <1>6, Constants DEF FindNonce, TypeOK
  <2>7. UNCHANGED <<pool, session, job, pcs, shared, mining, pcw, log, seen, used>>
    BY <1>6 DEF FindNonce
  <2>8. QED BY <2>4, <2>5, <2>6, <2>7 DEF TypeOK, HasJobs, Share
<1>7. QED BY <1>1, <1>2, <1>3, <1>4, <1>5, <1>6 DEF MinerStep

\* The steps of the workio thread.
LEMMA TypedUpstream ==
    ASSUME Typed, CheckShare \/ SendShare \/ SendFails \/ RememberShare \/ TimePasses
    PROVE  Typed'
<1> USE DEF Typed, pool, session, shared, mining, upstream
<1>1. subq \in Seq(Share) BY DEF TypeOK, Share
<1>2. CASE CheckShare
  <2>1. subq # << >> BY <1>2 DEF CheckShare
  <2>2. Tail(subq) \in Seq(Share)
        /\ \A i \in 1..Len(Tail(subq)) : Tail(subq)[i].w.h.id # 0
    BY <1>1, <2>1, QueueType DEF HasJobs
  <2>3. /\ expired' \in BOOLEAN
        /\ \/ subq' = subq /\ pcw' = "send"
           \/ subq' = Tail(subq) /\ pcw' = pcw
    BY <1>2 DEF CheckShare, Drop, TypeOK
  <2>4. pcw = "idle" BY <1>2 DEF CheckShare
  <2>5. subq' \in Seq(Share) /\ (\A i \in 1..Len(subq') : subq'[i].w.h.id # 0)
        /\ pcw' \in {"idle", "send"} /\ (pcw' = "send" => subq' # << >>)
    BY <1>1, <2>1, <2>2, <2>3, <2>4 DEF HasJobs
  <2>6. UNCHANGED <<pool, session, job, pcs, gwork, mining, submits, log, seen, used>>
    BY <1>2 DEF CheckShare
  <2>7. QED BY <2>3, <2>5, <2>6 DEF TypeOK, HasJobs, Share
<1>3. CASE SendShare
  <2>1. subq # << >> BY <1>3 DEF SendShare, HasJobs
  <2>2. Head(subq) \in Share BY <1>1, <2>1, QueueType DEF HasJobs
  <2>3. AsSeen(Head(subq)) \in [h : Header, nonce : Nonces]
    BY <2>2 DEF AsSeen, Share, Work, Header, TypeOK
  <2>4. QED BY <1>3, <2>3 DEF SendShare, TypeOK, HasJobs
<1>4. CASE SendFails BY <1>4 DEF SendFails, TypeOK, HasJobs
<1>5. CASE RememberShare
  <2>1. subq # << >> BY <1>5 DEF RememberShare, HasJobs
  <2>2. /\ Head(subq) \in Share /\ Head(subq).w.h.id # 0
        /\ Tail(subq) \in Seq(Share)
        /\ \A i \in 1..Len(Tail(subq)) : Tail(subq)[i].w.h.id # 0
    BY <1>1, <2>1, QueueType DEF HasJobs
  <2>3. Key(Head(subq)) \in [ntime : Nat, nonce : Nonces] BY <2>2, KeyType
  <2>4. log' \subseteq [key : [ntime : Nat, nonce : Nonces], old : BOOLEAN]
    <3>1. ASSUME NEW e \in log' PROVE e \in Entry
      <4> DEFINE new == [key |-> Key(Head(subq)), old |-> FALSE]
      <4>1. new \in Entry BY <2>3 DEF Entry
      <4>2. e \in log \/ e = new BY <1>5, <3>1 DEF RememberShare
      <4>3. log \subseteq Entry BY DEF TypeOK, Entry
      <4> HIDE DEF new
      <4>4. QED BY <4>1, <4>2, <4>3
    <3>2. QED BY <3>1 DEF Entry
  <2>5. subq' = Tail(subq) /\ pcw' = "idle" BY <1>5 DEF RememberShare
  <2>6. UNCHANGED <<pool, session, job, pcs, shared, mining, submits, seen, used>>
    BY <1>5 DEF RememberShare
  <2>7. QED BY <2>2, <2>4, <2>5, <2>6 DEF TypeOK, HasJobs, Share
<1>6. CASE TimePasses
  <2>1. log' \subseteq [key : [ntime : Nat, nonce : Nonces], old : BOOLEAN] /\ seen' = {}
    <3>1. ASSUME NEW e \in log' PROVE e \in Entry
      <4>1. PICK f \in log : e = [f EXCEPT !.old = TRUE]
        BY <1>6, <3>1 DEF TimePasses
      <4>2. f \in Entry BY DEF TypeOK, Entry
      <4>3. QED BY <4>1, <4>2 DEF Entry
    <3>2. QED BY <1>6, <3>1 DEF Entry, TimePasses
  <2>2. UNCHANGED <<pool, session, job, pcs, shared, mining, subq, submits, pcw, used>>
    BY <1>6 DEF TimePasses
  <2>3. QED BY <2>1, <2>2 DEF TypeOK, HasJobs
<1>7. QED BY <1>2, <1>3, <1>4, <1>5, <1>6

LEMMA TypedStep == Typed /\ [Next]_vars => Typed'
<1> SUFFICES ASSUME Typed, [Next]_vars PROVE Typed'
  OBVIOUS
<1>1. CASE UNCHANGED vars
  BY <1>1 DEF vars, pool, session, shared, mining, upstream, Typed, TypeOK, HasJobs
<1>2. CASE Next
  BY <1>2, TypedSession, TypedLines, TypedMiner, TypedUpstream DEF Next
<1>3. QED BY <1>1, <1>2

\* The types of the variables of a session hold throughout.
THEOREM TypeCorrect == Spec => []TypeOK
<1>1. Spec => []Typed BY TypedInit, TypedStep, PTL DEF Spec
<1>2. Typed => TypeOK BY DEF Typed
<1>3. QED BY <1>1, <1>2, PTL
-----------------------------------------------------------------------------
\* A header made in this connection is of an earlier job, or of the present
\* one with a smaller xnonce2.
UsedBehind ==
    /\ job.h.id \in {0, made}
    /\ job.h.id = 0 => used = {}
    /\ \A u \in used : /\ u.id <= job.h.id
                       /\ u.id = job.h.id => u.xnonce2 < job.h.xnonce2

LEMMA UsedGenHeader ==
    ASSUME Typed, UsedBehind, job.h.id # 0, GenHeader
    PROVE  /\ job'.h.id = job.h.id
           /\ \A u \in used' : /\ u.id <= job'.h.id
                               /\ u.id = job'.h.id => u.xnonce2 < job'.h.xnonce2
<1> DEFINE next == NextXnonce2(job.h.xnonce2)
<1>1. job \in [h : Header, diff : Diffs \union {0}, clean : BOOLEAN] /\ job.h \in Header
  BY DEF Typed, TypeOK
<1>2. next \in 0..MaxXnonce2 /\ (next # 0 => next = job.h.xnonce2 + 1)
  BY <1>1, NextXnonce2Type DEF Header
<1>3. job' = [job EXCEPT !.h = [job.h EXCEPT !.xnonce2 = next]] BY DEF GenHeader
<1>4. job'.h.id = job.h.id /\ job'.h.xnonce2 = next BY <1>1, <1>3 DEF Header
<1>5. used' = IF next = 0 THEN {} ELSE used \union {job.h} BY DEF GenHeader
<1> HIDE DEF next
<1>6. ASSUME NEW u \in used'
      PROVE  /\ u.id <= job'.h.id
             /\ u.id = job'.h.id => u.xnonce2 < job'.h.xnonce2
  <2>1. next = job.h.xnonce2 + 1 /\ (u \in used \/ u = job.h) BY <1>2, <1>5, <1>6
  <2>2. u \in Header BY <1>1, <2>1 DEF Typed, TypeOK
  <2>3. job.h.xnonce2 \in Nat /\ job.h.id \in Nat /\ u.xnonce2 \in Nat /\ u.id \in Nat
    BY <1>1, <2>2, Constants DEF Header, Jobs
  <2>4. CASE u = job.h BY <1>4, <2>1, <2>3, <2>4
  <2>5. CASE u \in used BY <1>4, <2>1, <2>3, <2>5 DEF UsedBehind
  <2>6. QED BY <2>1, <2>4, <2>5
<1>7. QED BY <1>4, <1>6

\* A new job comes behind the last one, the last one keeps its xnonce2.
LEMMA UsedNotify ==
    ASSUME Typed, UsedBehind, Notify
    PROVE  UsedBehind'
<1>1. PICK j \in {made, made + 1} \intersect Jobs, c \in BOOLEAN :
         /\ made' = j
         /\ job' = [h |-> [xnonce1 |-> xnonce1, id |-> j, xnonce2 |-> FirstXnonce2(j)],
                    diff |-> nextDiff, clean |-> c]
  BY DEF Notify
<1>2. used' = used /\ job'.h.id = j /\ j # 0 /\ job'.h.xnonce2 = FirstXnonce2(j)
  BY <1>1, Constants DEF Notify, Jobs
<1>3. made \in Nat BY Constants DEF Typed, TypeOK
<1>4. ASSUME NEW u \in used
      PROVE  u.id <= j /\ (u.id = j => u.xnonce2 < FirstXnonce2(j))
  <2>1. job.h.id = made /\ u.id <= made BY <1>4 DEF UsedBehind
  <2>2. u.id \in Nat BY Constants DEF Typed, TypeOK, Header, Jobs
  <2>3. CASE j = made BY <2>1, <2>3 DEF UsedBehind, FirstXnonce2
  <2>4. CASE j = made + 1 BY <1>3, <2>1, <2>2, <2>4
  <2>5. QED BY <1>1, <2>3, <2>4
<1>5. QED BY <1>1, <1>2, <1>4 DEF UsedBehind

LEMMA UsedStep == Typed /\ UsedBehind /\ [Next]_vars => UsedBehind'
<1> SUFFICES ASSUME Typed, UsedBehind, [Next]_vars PROVE UsedBehind'
  OBVIOUS
<1> USE DEF pool
<1>1. ASSUME UNCHANGED <<made, job, used>> PROVE UsedBehind'
  BY <1>1 DEF UsedBehind
<1>2. CASE Notify BY <1>2, UsedNotify
<1>3. ASSUME Disconnect PROVE UsedBehind'
  BY <1>3, Constants DEF Disconnect, UsedBehind
<1>4. CASE InstallJob
  BY <1>4, UsedGenHeader DEF InstallJob, UsedBehind, Typed, HasJobs
<1>5. ASSUME NEW t \in Miners, MakeHeader(t) PROVE UsedBehind'
  BY <1>5, UsedGenHeader DEF MakeHeader, UsedBehind
<1>6. CASE Interrupted BY <1>3, <1>6 DEF Interrupted
<1>7. CASE ReconnectAsked BY <1>3, <1>7 DEF ReconnectAsked
<1>8. CASE Down \/ Connect \/ ConnectFails \/ Subscribe \/ Authorize \/ Lose
           \/ SetDifficulty \/ SetExtranonce \/ TestJob
  BY <1>1, <1>8 DEF Down, Connect, ConnectFails, Subscribe, Authorize, Lose,
                    SetDifficulty, SetExtranonce, TestJob
<1>9. CASE CheckShare \/ SendShare \/ SendFails \/ RememberShare \/ TimePasses
  BY <1>1, <1>9 DEF CheckShare, SendShare, SendFails, RememberShare, TimePasses
<1>10. ASSUME NEW t \in Miners,
              \/ TakeWork(t) \/ WantExtraWork(t) \/ SetTarget(t)
              \/ UseFreedJob(t) \/ FindNonce(t)
       PROVE  UsedBehind'
  BY <1>1, <1>10 DEF TakeWork, WantExtraWork, SetTarget, UseFreedJob, FindNonce
<1>11. CASE UNCHANGED vars BY <1>1, <1>11 DEF vars
<1>12. QED
  BY <1>2, <1>4, <1>5, <1>6, <1>7, <1>8, <1>9, <1>10, <1>11 DEF Next, MinerStep

LEMMA UsedFresh == Typed /\ UsedBehind => job.h \notin used
<1> SUFFICES ASSUME Typed, UsedBehind, job.h \in used PROVE FALSE
  OBVIOUS
<1>1. job.h.xnonce2 < job.h.xnonce2 BY DEF UsedBehind
<1>2. job.h.xnonce2 \in Nat BY Constants DEF Typed, TypeOK, Header
<1>3. QED BY <1>1, <1>2

\* Within a connection no header is made twice before xnonce2 wraps, whether
\* the stratum thread or a miner thread makes it, for any order of notifies,
\* repeated notifies and new extranonces.
THEOREM HeadersDifferHolds == Spec => HeadersDiffer
<1> DEFINE I == Typed /\ UsedBehind
<1>1. Init => I
  <2>1. Init => UsedBehind BY Constants DEF Init, UsedBehind
  <2>2. QED BY <2>1, TypedInit
<1>2. I /\ [Next]_vars => I' BY TypedStep, UsedStep
<1>3. I /\ [Next]_vars => [Makes => job.h \notin used]_vars BY UsedFresh
<1> HIDE DEF I
<1>4. QED BY <1>1, <1>2, <1>3, PTL DEF Spec, HeadersDiffer
-----------------------------------------------------------------------------
KeyOf(x) == [ntime |-> NTimeOf[x.h.id], nonce |-> x.nonce]

\* What the pool has seen lately is in the log or about to be, and what is
\* about to be sent is not.
Remembered ==
    /\ \A x \in seen : \/ pcw = "gone"
                       \/ \E e \in log : ~e.old /\ e.key = KeyOf(x)
                       \/ pcw = "remember" /\ KeyOf(x) = Key(Head(subq))
    /\ pcw = "send" /\ Head(subq).nonce # 0
          => \A e \in log : e.key # Key(Head(subq))

\* The share in hand stays at the head while others are queued.
LEMMA HeadStays ==
    ASSUME Typed, subq # << >>, NEW t \in Miners, FindNonce(t)
    PROVE  Head(subq') = Head(subq)
<1>1. PICK n \in Nonces : subq' = Append(subq, [w |-> work[t], nonce |-> n])
  BY DEF FindNonce
<1>2. subq \in Seq(Share) /\ [w |-> work[t], nonce |-> n] \in Share
  BY DEF Typed, TypeOK, Share
<1>3. Len(subq) \in Nat \ {0} /\ Head(subq) = subq[1]
  BY <1>2, EmptySeq, LenProperties, HeadTailProperties
<1>4. /\ subq' \in Seq(Share) /\ Len(subq') = Len(subq) + 1
      /\ subq'[1] = subq[1]
  BY <1>1, <1>2, <1>3, AppendProperties
<1>5. subq' # << >> BY <1>3, <1>4, EmptySeq
<1>6. Head(subq') = subq'[1] BY <1>4, <1>5, HeadTailProperties
<1>7. QED BY <1>3, <1>4, <1>6

LEMMA RememberedUpstream ==
    ASSUME Typed, Remembered,
           CheckShare \/ SendShare \/ SendFails \/ RememberShare \/ TimePasses
    PROVE  Remembered'
<1>1. CASE CheckShare
  <2>1. pcw = "idle" /\ UNCHANGED <<log, seen>> /\ pcw' \in {"idle", "send"}
    BY <1>1 DEF CheckShare
  <2>2. \A x \in seen : \E e \in log : ~e.old /\ e.key = KeyOf(x)
    BY <2>1 DEF Remembered
  <2>3. pcw' = "send" => subq' = subq /\ ~Logged(Head(subq))
    BY <1>1, <2>1 DEF CheckShare
  <2>4. Head(subq).nonce # 0 /\ ~Logged(Head(subq))
           => \A e \in log : e.key # Key(Head(subq))
    BY DEF Logged
  <2>5. QED BY <2>1, <2>2, <2>3, <2>4 DEF Remembered, KeyOf, Key, NTime
<1>2. CASE SendShare
  <2>1. /\ pcw = "send" /\ pcw' = "remember" /\ UNCHANGED <<log, subq>>
        /\ seen' = seen \union {AsSeen(Head(subq))}
    BY <1>2 DEF SendShare
  <2>2. Head(subq) \in Share
    BY <2>1, QueueType DEF Typed, TypeOK, HasJobs, Share
  <2>3. KeyOf(AsSeen(Head(subq))) = Key(Head(subq))
    BY <2>2 DEF KeyOf, AsSeen, Key, NTime, Share, Work, Header
  <2>4. \A x \in seen : \E e \in log : ~e.old /\ e.key = KeyOf(x)
    BY <2>1 DEF Remembered
  <2>5. QED BY <2>1, <2>3, <2>4 DEF Remembered, KeyOf, Key, NTime
<1>3. CASE SendFails
  BY <1>3 DEF SendFails, Remembered, KeyOf, Key, NTime
<1>4. CASE RememberShare
  <2> DEFINE new == [key |-> Key(Head(subq)), old |-> FALSE]
  <2>1. /\ pcw = "remember" /\ pcw' = "idle" /\ UNCHANGED seen
        /\ log' = {e \in log : e.key # Key(Head(subq))} \union {new}
    BY <1>4 DEF RememberShare
  <2>2. new \in log' /\ ~new.old /\ new.key = Key(Head(subq)) BY <2>1
  <2> HIDE DEF new
  <2>3. ASSUME NEW x \in seen
        PROVE  \E e \in log' : ~e.old /\ e.key = KeyOf(x)
    <3>1. CASE KeyOf(x) = Key(Head(subq)) BY <2>2, <3>1
    <3>2. CASE KeyOf(x) # Key(Head(subq))
      <4>1. PICK e \in log : ~e.old /\ e.key = KeyOf(x)
        BY <2>1, <2>3, <3>2 DEF Remembered
      <4>2. e \in log' BY <2>1, <3>2, <4>1
      <4>3. QED BY <4>1, <4>2
    <3>3. QED BY <3>1, <3>2
  <2>4. QED BY <2>1, <2>3 DEF Remembered, KeyOf
<1>5. CASE TimePasses BY <1>5 DEF TimePasses, Remembered
<1>6. QED BY <1>1, <1>2, <1>3, <1>4, <1>5

LEMMA RememberedStep == Typed /\ Remembered /\ [Next]_vars => Remembered'
<1> SUFFICES ASSUME Typed, Remembered, [Next]_vars PROVE Remembered'
  OBVIOUS
<1> USE DEF upstream
<1>1. ASSUME UNCHANGED upstream PROVE Remembered'
  BY <1>1 DEF Remembered, KeyOf, Key, NTime
<1>2. CASE CheckShare \/ SendShare \/ SendFails \/ RememberShare \/ TimePasses
  BY <1>2, RememberedUpstream
<1>3. CASE InstallJob
  <2>1. /\ UNCHANGED <<subq, pcw, seen>> /\ log' \subseteq log
        /\ \A e \in log : ~e.old => e \in log'
    BY <1>3 DEF InstallJob, PurgeOld, mining
  <2>2. QED BY <2>1 DEF Remembered, KeyOf, Key, NTime
<1>4. ASSUME NEW t \in Miners, FindNonce(t) PROVE Remembered'
  <2>1. UNCHANGED <<pcw, log, seen>> BY <1>4 DEF FindNonce
  <2>2. pcw \in {"send", "remember"} => Head(subq') = Head(subq)
    BY <1>4, HeadStays DEF Typed, HasJobs
  <2>3. QED BY <2>1, <2>2 DEF Remembered, KeyOf, Key, NTime
<1>5. ASSUME NEW t \in Miners, UseFreedJob(t) PROVE Remembered'
  BY <1>5 DEF UseFreedJob, Remembered
<1>6. ASSUME NEW t \in Miners, \/ TakeWork(t) \/ WantExtraWork(t)
             \/ MakeHeader(t) \/ SetTarget(t)
      PROVE  Remembered'
  BY <1>1, <1>6 DEF TakeWork, WantExtraWork, MakeHeader, SetTarget
<1>7. CASE Down \/ Connect \/ ConnectFails \/ Subscribe \/ Authorize \/ Lose
           \/ Interrupted \/ ReconnectAsked
  BY <1>1, <1>7 DEF Down, Connect, ConnectFails, Subscribe, Authorize, Lose,
                    Interrupted, ReconnectAsked, Disconnect
<1>8. CASE Notify \/ SetDifficulty \/ SetExtranonce \/ TestJob
  BY <1>1, <1>8 DEF Notify, SetDifficulty, SetExtranonce, TestJob
<1>9. CASE UNCHANGED vars BY <1>1, <1>9 DEF vars
<1>10. QED
  BY <1>2, <1>3, <1>4, <1>5, <1>6, <1>7, <1>8, <1>9 DEF Next, MinerStep

LEMMA RememberedNew ==
    ASSUME Remembered, Sends, Head(subq).nonce # 0, Typed
    PROVE  AsSeen(Head(subq)) \notin seen
<1>1. Head(subq) \in Share
  BY QueueType DEF Typed, TypeOK, HasJobs, Share, Sends
<1>2. KeyOf(AsSeen(Head(subq))) = Key(Head(subq))
  BY <1>1 DEF KeyOf, AsSeen, Key, NTime, Share, Work, Header
<1>3. QED BY <1>2 DEF Remembered, Sends

\* No share with a nonce other than 0 reaches the pool a second time within the
\* time the log keeps it, over any number of connections, whichever jobs share
\* their ntime, and whenever the log is purged.
THEOREM NoShareTwiceHolds == Spec => NoShareTwice
<1> DEFINE I == Typed /\ Remembered
<1>1. Init => I
  <2>1. Init => Remembered BY DEF Init, Remembered
  <2>2. QED BY <2>1, TypedInit
<1>2. I /\ [Next]_vars => I' BY TypedStep, RememberedStep
<1>3. I /\ [Next]_vars =>
        [Sends /\ Head(subq).nonce # 0 => AsSeen(Head(subq)) \notin seen]_vars
  BY RememberedNew
<1> HIDE DEF I
<1>4. QED BY <1>1, <1>2, <1>3, PTL DEF Spec, NoShareTwice
-----------------------------------------------------------------------------
\* A work is not of a job behind that of g_work; a work of the same job has the
\* difficulty the pool gave that job, unless it is torn.
Sound(w) == /\ w.h.id <= gwork.h.id
            /\ w.h.id = gwork.h.id /\ w.h.id # 0 /\ ~w.torn
                  => w.diff = due[w.h.id] /\ w.diff # 0

DueInTime ==
    /\ job.h.id \in {0, made}
    /\ job.h.id # 0 => job.diff = due[job.h.id] /\ job.diff # 0
    /\ gwork.h.id <= made
    /\ gwork.h.id # 0 /\ ~gwork.torn => gwork.diff = due[gwork.h.id] /\ gwork.diff # 0
    /\ \A t \in Miners : Sound(work[t])
    /\ \A i \in 1..Len(subq) : Sound(subq[i].w)
    /\ pcw = "send" /\ ~Head(subq).w.torn
          => Head(subq).w.diff = due[Head(subq).w.h.id] /\ Head(subq).w.diff # 0

\* Ids are numbers.
LEMMA Ids ==
    ASSUME NEW w \in Work
    PROVE  w.h.id \in Nat /\ (w.h.id # 0 => w.h.id \in Jobs)
BY StratumAssumption DEF StratumAssumption, Work, Header, Jobs

LEMMA QueueWorks ==
    ASSUME Typed
    PROVE  /\ \A i \in 1..Len(subq) : subq[i] \in Share /\ subq[i].w \in Work
           /\ subq # << >> => 1 \in 1..Len(subq) /\ Head(subq) = subq[1]
<1>1. subq \in Seq(Share) BY DEF Typed, TypeOK, Share
<1>2. \A i \in 1..Len(subq) : subq[i] \in Share BY <1>1, ElementOfSeq
<1>3. subq # << >> => Len(subq) \in Nat \ {0} /\ Head(subq) = subq[1]
  BY <1>1, EmptySeq, LenProperties, HeadTailProperties
<1>4. QED BY <1>2, <1>3 DEF Share

\* The part that is about g_work, the jobs and the copies is kept by a step
\* that touches neither.
LEMMA DueKept ==
    ASSUME Typed, DueInTime, UNCHANGED <<pool, job, work>>,
           gwork'.h = gwork.h, gwork'.diff = gwork.diff, gwork'.torn = gwork.torn,
           UNCHANGED subq \/ (subq # << >> /\ subq' = Tail(subq)),
           pcw' = "send" => UNCHANGED subq /\
              (pcw = "send" \/ (subq # << >> /\ Head(subq).w.h.id = gwork.h.id))
    PROVE  DueInTime'
<1>1. \A i \in 1..Len(subq') : \E k \in 1..Len(subq) : subq'[i] = subq[k]
  <2>1. CASE UNCHANGED subq BY <2>1
  <2>2. CASE subq # << >> /\ subq' = Tail(subq)
    <3>1. subq \in Seq(Share) BY DEF Typed, TypeOK, Share
    <3>2. /\ Len(subq) \in Nat \ {0} /\ Len(Tail(subq)) = Len(subq) - 1
          /\ \A i \in 1..Len(Tail(subq)) : Tail(subq)[i] = subq[i + 1]
      BY <2>2, <3>1, EmptySeq, LenProperties, HeadTailProperties
    <3>3. \A i \in 1..Len(Tail(subq)) : i + 1 \in 1..Len(subq) BY <3>2
    <3>4. QED BY <2>2, <3>2, <3>3
  <2>3. QED BY <2>1, <2>2
<1>2. (\A i \in 1..Len(subq) : Sound(subq[i].w))'
  BY <1>1 DEF DueInTime, Sound, pool
<1>3. pcw' = "send" /\ ~Head(subq').w.torn
        => Head(subq').w.diff = due'[Head(subq').w.h.id] /\ Head(subq').w.diff # 0
  <2> SUFFICES ASSUME pcw' = "send", pcw # "send", ~Head(subq).w.torn,
                      subq # << >>, Head(subq).w.h.id = gwork.h.id
               PROVE  Head(subq).w.diff = due[Head(subq).w.h.id] /\ Head(subq).w.diff # 0
    BY DEF DueInTime, pool
  <2>1. 1 \in 1..Len(subq) /\ Head(subq) = subq[1] BY QueueWorks
  <2>2. Head(subq).w.h.id # 0 BY <2>1 DEF Typed, HasJobs
  <2>3. QED BY <2>1, <2>2 DEF DueInTime, Sound
<1>4. QED BY <1>2, <1>3 DEF DueInTime, Sound, pool

\* What a thread copies from g_work is sound.
LEMMA SoundCopied ==
    ASSUME NEW w \in Work, NEW g \in Work, NEW d,
           w.h.id <= g.h.id,
           w.h.id = g.h.id /\ w.h.id # 0 /\ ~w.torn => w.diff = d[w.h.id] /\ w.diff # 0,
           g.h.id # 0 /\ ~g.torn => g.diff = d[g.h.id] /\ g.diff # 0
    PROVE  LET c == Copied(w, g) IN
           /\ c.h.id <= g.h.id
           /\ c.h.id = g.h.id /\ c.h.id # 0 /\ ~c.torn => c.diff = d[c.h.id] /\ c.diff # 0
<1> DEFINE v == [w EXCEPT !.height = g.height, !.diff = g.diff, !.torn = g.torn]
<1>1. Copied(w, g) \in {w, g, v} BY DEF Copied
<1>2. g.h.id \in Nat BY Ids
<1>3. v.h = w.h /\ v.diff = g.diff /\ v.torn = g.torn BY DEF Work
<1> HIDE DEF v
<1>4. CASE Copied(w, g) = v BY <1>3, <1>4
<1>5. CASE Copied(w, g) \in {w, g} BY <1>2, <1>5
<1>6. QED BY <1>1, <1>4, <1>5

\* A header made of the job in hand: g_work gets the id of the newest job, and
\* every sound work stays sound.
LEMMA DueHeader ==
    ASSUME Typed, DueInTime, job.h.id # 0, GenHeader, UNCHANGED pool,
           gwork'.h = job.h, ~gwork'.torn => gwork'.diff = job.diff
    PROVE  /\ job'.h.id = made /\ job'.diff = due[made] /\ due[made] # 0
           /\ gwork'.h.id = made /\ made # 0
           /\ ~gwork'.torn => gwork'.diff = due[made]
           /\ \A w \in Work : Sound(w) =>
                 /\ w.h.id <= made
                 /\ w.h.id = made /\ ~w.torn => w.diff = due[made] /\ w.diff # 0
<1>1. job.h.id = made /\ made # 0 /\ job.diff = due[made] /\ due[made] # 0 BY DEF DueInTime
<1>2. job'.h.id = job.h.id /\ job'.diff = job.diff BY GenHeaderType DEF Typed
<1>3. ASSUME NEW w \in Work, Sound(w)
      PROVE  /\ w.h.id <= made
             /\ w.h.id = made /\ ~w.torn => w.diff = due[made] /\ w.diff # 0
  <2>1. w.h.id \in Nat /\ gwork.h.id \in Nat BY <1>3, Ids DEF Typed, TypeOK
  <2>2. made \in Nat BY Constants DEF Typed, TypeOK
  <2>3. w.h.id <= gwork.h.id /\ gwork.h.id <= made BY <1>3 DEF Sound, DueInTime
  <2>4. w.h.id = made => w.h.id = gwork.h.id BY <2>1, <2>2, <2>3
  <2>5. QED BY <1>1, <1>3, <2>1, <2>2, <2>3, <2>4 DEF Sound
<1>4. QED BY <1>1, <1>2, <1>3

LEMMA DueInstall ==
    ASSUME Typed, DueInTime, InstallJob
    PROVE  DueInTime'
<1>1. job.h.id # 0 /\ GenHeader /\ UNCHANGED <<pool, work, subq, pcw>>
  BY DEF InstallJob, Typed, HasJobs, mining
<1>2. \A t \in Miners : work[t] \in Work BY DEF Typed, TypeOK
<1>3. gwork'.h = job.h /\ gwork'.diff = job.diff
  BY <1>1, HalfMadeType, TargetedType DEF InstallJob, Typed
<1>4. (\A t \in Miners : Sound(work[t]))' BY <1>1, <1>2, <1>3, DueHeader DEF DueInTime, Sound, pool
<1>5. (\A i \in 1..Len(subq) : Sound(subq[i].w))'
  BY <1>1, <1>3, QueueWorks, DueHeader DEF DueInTime, Sound, pool
<1>6. pcw' = "send" => pcw = "send" BY <1>1
<1>7. made \in Nat BY Constants DEF Typed, TypeOK
<1>8. QED BY <1>1, <1>3, <1>4, <1>5, <1>6, <1>7, DueHeader DEF DueInTime, pool

LEMMA DueTakeWork ==
    ASSUME Typed, DueInTime, NEW t \in Miners, TakeWork(t)
    PROVE  DueInTime'
<1>1. UNCHANGED <<pool, job, gwork, subq, pcw>> BY DEF TakeWork, shared, upstream
<1>2. work' = [work EXCEPT ![t] = Copied(work[t], gwork)]
  BY <1>1 DEF TakeWork, CopyWork
<1>3. work \in [Miners -> Work] /\ work[t] \in Work /\ gwork \in Work BY DEF Typed, TypeOK
<1>4. Sound(Copied(work[t], gwork))
  BY <1>3, SoundCopied DEF Sound, DueInTime
<1>5. \A u \in Miners : Sound(work'[u]) BY <1>2, <1>3, <1>4 DEF DueInTime
<1>6. QED BY <1>1, <1>5 DEF DueInTime, Sound, pool

LEMMA DueMakeHeader ==
    ASSUME Typed, DueInTime, NEW t \in Miners, MakeHeader(t)
    PROVE  DueInTime'
<1>1. job.h.id # 0 /\ GenHeader /\ UNCHANGED <<pool, work, subq, pcw>>
  BY DEF MakeHeader, upstream
<1>2. \A u \in Miners : work[u] \in Work BY DEF Typed, TypeOK
<1>3. gwork'.h = job.h /\ gwork'.torn
  BY <1>1, HalfMadeType DEF MakeHeader, Typed
<1>4. (\A u \in Miners : Sound(work[u]))' BY <1>1, <1>2, <1>3, DueHeader DEF DueInTime, Sound, pool
<1>5. (\A i \in 1..Len(subq) : Sound(subq[i].w))'
  BY <1>1, <1>3, QueueWorks, DueHeader DEF DueInTime, Sound, pool
<1>6. made \in Nat BY Constants DEF Typed, TypeOK
<1>7. QED BY <1>1, <1>3, <1>4, <1>5, <1>6, DueHeader DEF DueInTime, pool

\* A work whose target is that of its job is sound, another one is torn.
LEMMA DueSetTarget ==
    ASSUME Typed, DueInTime, NEW t \in Miners, SetTarget(t)
    PROVE  DueInTime'
<1>1. UNCHANGED <<pool, job, subq, pcw>> /\ gwork' = Targeted(gwork)
  BY DEF SetTarget, upstream
<1>2. work' = [work EXCEPT ![t] = Copied(work[t], gwork')]
  BY DEF SetTarget, CopyWork
<1>3. gwork \in Work /\ work \in [Miners -> Work] /\ work[t] \in Work
  BY DEF Typed, TypeOK
<1>4. /\ gwork' \in Work /\ gwork'.h = gwork.h /\ gwork'.diff = job.diff
      /\ gwork'.torn = (job.h.id # gwork.h.id)
  BY <1>1, <1>3, TargetedType DEF Typed
<1>5. gwork'.h.id # 0 /\ ~gwork'.torn
        => gwork'.diff = due[gwork'.h.id] /\ gwork'.diff # 0
  BY <1>4 DEF DueInTime
<1> DEFINE c == Copied(work[t], gwork')
<1>6. /\ c.h.id <= gwork'.h.id
      /\ c.h.id = gwork'.h.id /\ c.h.id # 0 /\ ~c.torn => c.diff = due[c.h.id] /\ c.diff # 0
  <2>1. Sound(work[t]) BY DEF DueInTime
  <2>2. /\ work[t].h.id <= gwork'.h.id
        /\ work[t].h.id = gwork'.h.id /\ work[t].h.id # 0 /\ ~work[t].torn
              => work[t].diff = due[work[t].h.id] /\ work[t].diff # 0
    BY <1>4, <2>1 DEF Sound
  <2>3. QED BY <1>3, <1>4, <1>5, <2>2, SoundCopied
<1> HIDE DEF c
<1>7. (\A u \in Miners : Sound(work[u]))'
  BY <1>1, <1>2, <1>3, <1>4, <1>6 DEF c, Sound, DueInTime, pool
<1>8. (\A i \in 1..Len(subq) : Sound(subq[i].w))'
  BY <1>1, <1>4 DEF DueInTime, Sound, pool
<1>9. QED BY <1>1, <1>4, <1>5, <1>7, <1>8 DEF DueInTime, pool

\* A share is queued with the work it was found for.
LEMMA DueFindNonce ==
    ASSUME Typed, DueInTime, NEW t \in Miners, FindNonce(t)
    PROVE  DueInTime'
<1>1. UNCHANGED <<pool, job, gwork, work, pcw>> BY DEF FindNonce, shared, mining
<1>2. PICK n \in Nonces : subq' = Append(subq, [w |-> work[t], nonce |-> n])
  BY DEF FindNonce
<1>3. subq \in Seq(Share) /\ [w |-> work[t], nonce |-> n] \in Share
  BY DEF Typed, TypeOK, Share
<1>4. /\ Len(subq') = Len(subq) + 1 /\ Len(subq) \in Nat
      /\ \A i \in 1..Len(subq) : subq'[i] = subq[i]
      /\ subq'[Len(subq) + 1] = [w |-> work[t], nonce |-> n]
  BY <1>2, <1>3, AppendProperties, LenProperties
<1>5. \A i \in 1..Len(subq') : i \in 1..Len(subq) \/ i = Len(subq) + 1 BY <1>4
<1>6. \A i \in 1..Len(subq') : Sound(subq'[i].w) BY <1>4, <1>5 DEF DueInTime
<1>7. pcw = "send" => Head(subq') = Head(subq) BY HeadStays DEF Typed, HasJobs
<1>8. QED BY <1>1, <1>6, <1>7 DEF DueInTime, Sound, pool

\* The difficulty of a job is fixed with its first notify.
LEMMA DueNotify ==
    ASSUME Typed, DueInTime, Notify
    PROVE  DueInTime'
<1>1. PICK j \in {made, made + 1} \intersect Jobs, c \in BOOLEAN :
         /\ due[j] \in {0, nextDiff} /\ made' = j
         /\ due' = [due EXCEPT ![j] = nextDiff]
         /\ job' = [h |-> [xnonce1 |-> xnonce1, id |-> j, xnonce2 |-> FirstXnonce2(j)],
                    diff |-> nextDiff, clean |-> c]
  BY DEF Notify
<1>2. UNCHANGED <<gwork, work, subq, pcw>> BY DEF Notify, shared, mining, upstream
<1>3. due \in [Jobs -> Diffs \union {0}] /\ j \in Jobs BY <1>1 DEF Typed, TypeOK
<1>4. \A k \in Jobs : due[k] # 0 => due'[k] = due[k] BY <1>1, <1>3
<1>5. job'.h.id = made' /\ job'.diff = due'[made'] /\ job'.diff # 0
  BY <1>1, <1>3, StratumAssumption DEF StratumAssumption, Typed, TypeOK
<1>6. made \in Nat /\ gwork \in Work BY Constants DEF Typed, TypeOK
<1>7. gwork'.h.id <= made' BY <1>1, <1>2, <1>6, Ids DEF DueInTime
<1>8. gwork'.h.id # 0 /\ ~gwork'.torn
        => gwork'.diff = due'[gwork'.h.id] /\ gwork'.diff # 0
  BY <1>2, <1>4, <1>6, Ids DEF DueInTime
<1>9. ASSUME NEW w \in Work, Sound(w)
      PROVE  /\ w.h.id <= gwork'.h.id
             /\ w.h.id = gwork'.h.id /\ w.h.id # 0 /\ ~w.torn
                   => w.diff = due'[w.h.id] /\ w.diff # 0
  BY <1>2, <1>4, <1>9, Ids DEF Sound
<1>10. (\A t \in Miners : Sound(work[t]))' BY <1>2, <1>9 DEF Typed, TypeOK, DueInTime, Sound
<1>11. (\A i \in 1..Len(subq) : Sound(subq[i].w))'
  BY <1>2, <1>9, QueueWorks DEF DueInTime, Sound
<1>12. pcw' = "send" /\ ~Head(subq').w.torn
         => Head(subq').w.diff = due'[Head(subq').w.h.id] /\ Head(subq').w.diff # 0
  <2> SUFFICES ASSUME pcw = "send", ~Head(subq).w.torn
               PROVE  Head(subq).w.diff = due'[Head(subq).w.h.id] /\ Head(subq).w.diff # 0
    BY <1>2
  <2>1. Head(subq).w \in Work /\ Head(subq).w.h.id # 0
    BY QueueWorks DEF Typed, HasJobs
  <2>2. QED BY <1>4, <2>1, Ids DEF DueInTime
<1>13. QED BY <1>5, <1>7, <1>8, <1>10, <1>11, <1>12 DEF DueInTime

LEMMA DueStep == Typed /\ DueInTime /\ [Next]_vars => DueInTime'
<1> SUFFICES ASSUME Typed, DueInTime, [Next]_vars PROVE DueInTime'
  OBVIOUS
<1> USE DEF shared, mining, upstream
<1>1. CASE Notify BY <1>1, DueNotify
<1>2. CASE InstallJob BY <1>2, DueInstall
<1>3. CASE Down \/ Connect \/ ConnectFails \/ Subscribe \/ Authorize \/ Lose
           \/ SetDifficulty \/ SetExtranonce \/ TestJob
  <2>1. /\ UNCHANGED <<pool, job, work, subq, pcw>>
        /\ gwork' = gwork \/ gwork' = [gwork EXCEPT !.blank = TRUE]
    BY <1>3 DEF Down, BlankWork, Connect, ConnectFails, Subscribe, Authorize, Lose,
                SetDifficulty, SetExtranonce, TestJob
  <2>2. gwork'.h = gwork.h /\ gwork'.diff = gwork.diff /\ gwork'.torn = gwork.torn
    BY <2>1 DEF Typed, TypeOK, Work
  <2>3. QED BY <2>1, <2>2, DueKept
<1>4. CASE Interrupted \/ ReconnectAsked
  <2>1. UNCHANGED <<pool, gwork, work, subq, pcw>> /\ job' = NoJob
    BY <1>4 DEF Interrupted, ReconnectAsked, Disconnect
  <2>2. QED BY <2>1, Constants DEF DueInTime, Sound, pool
<1>5. CASE CheckShare
  <2>1. /\ UNCHANGED <<pool, job, gwork, work>>
        /\ subq # << >> /\ subq' \in {subq, Tail(subq)} /\ pcw = "idle"
        /\ pcw' = "send" => UNCHANGED subq /\ ~Stale(Head(subq))
    BY <1>5 DEF CheckShare, Drop
  <2>2. QED BY <2>1, DueKept DEF Stale
<1>6. CASE SendShare \/ SendFails
  BY <1>6, DueKept DEF SendShare, SendFails
<1>7. CASE RememberShare
  BY <1>7, DueKept DEF RememberShare, Typed, HasJobs
<1>8. CASE TimePasses BY <1>8, DueKept DEF TimePasses
<1>9. ASSUME NEW t \in Miners, MinerStep(t) PROVE DueInTime'
  <2>1. CASE TakeWork(t) BY <2>1, DueTakeWork
  <2>2. CASE MakeHeader(t) BY <2>2, DueMakeHeader
  <2>3. CASE FindNonce(t) BY <2>3, DueFindNonce
  <2>4. CASE WantExtraWork(t) BY <2>4, DueKept DEF WantExtraWork
  <2>5. CASE UseFreedJob(t) BY <2>5, DueKept DEF UseFreedJob
  <2>6. CASE SetTarget(t) BY <2>6, DueSetTarget
  <2>7. QED BY <1>9, <2>1, <2>2, <2>3, <2>4, <2>5, <2>6 DEF MinerStep
<1>10. CASE UNCHANGED vars BY <1>10, DueKept DEF vars
<1>11. QED
  BY <1>1, <1>2, <1>3, <1>4, <1>5, <1>6, <1>7, <1>8, <1>9, <1>10 DEF Next

\* A share the pool gets was searched at the difficulty the pool gave its job,
\* however many threads copy g_work in two parts while jobs and difficulties
\* change, and over reconnections; but for a work whose target stratum_gen_work
\* read, without the lock, after the job in hand was another one.
THEOREM DueDiffHolds == Spec => DueDiff
<1> DEFINE I == Typed /\ DueInTime
<1>1. Init => I
  <2>1. Init => DueInTime
    <3> SUFFICES ASSUME Init PROVE DueInTime
      OBVIOUS
    <3>1. /\ job.h.id = 0 /\ gwork.h.id = 0 /\ made = 0 /\ pcw = "idle"
          /\ \A t \in Miners : work[t].h.id = 0
          /\ subq = << >>
      BY Constants DEF Init
    <3>2. Len(subq) = 0 BY <3>1, EmptySeq
    <3>3. QED BY <3>1, <3>2 DEF DueInTime, Sound
  <2>2. QED BY <2>1, TypedInit
<1>2. I /\ [Next]_vars => I' BY TypedStep, DueStep
<1>3. I /\ [Next]_vars =>
        [Sends /\ ~Head(subq).w.torn => Head(subq).w.diff = due[Head(subq).w.h.id]]_vars
  BY DEF DueInTime, Sends
<1> HIDE DEF I
<1>4. QED BY <1>1, <1>2, <1>3, PTL DEF Spec, DueDiff
=============================================================================
