-------------------------- MODULE MinerLoopProofs --------------------------
(***************************************************************************)
(* Proofs about the mining loop for every number of threads, nonce width   *)
(* and throughput: the shares of the nonce range, and solo mining.         *)
(***************************************************************************)
EXTENDS MinerLoop, TLAPS

\* A product of naturals grows with each factor.
LEMMA MonoTimes ==
    ASSUME NEW q \in Nat, NEW a \in Nat, NEW b \in Nat, a <= b
    PROVE  q * a <= q * b
<1>1. PICK c \in Nat : b = a + c
  BY SMT
<1>2. q * b = q * a + q * c
  BY <1>1, SMT
<1>3. q * c \in Nat /\ q * a \in Nat
  BY SMT
<1>. QED  BY <1>2, <1>3, SMT

\* opt_n_threads shares fit the nonce range.
LEMMA QuotaFits == Quota \in Nat /\ Quota * N <= MaxNonce
  BY LoopAssumption, SMTT(30) DEF Quota

\* The bounds of a share are nonces.
LEMMA ShareBounds ==
    ASSUME NEW t \in Threads
    PROVE  /\ Start(t) \in 0..MaxNonce
           /\ FirstEnd(t) \in 0..MaxNonce
           /\ ShareEnd(t) \in 0..MaxNonce
           /\ Start(t) <= FirstEnd(t)
           /\ FirstEnd(t) <= ShareEnd(t)
           /\ LowWater < FirstEnd(t)
<1>. t \in Nat /\ t + 1 <= N /\ N \in Nat /\ MaxNonce \in Nat /\ LowWater \in Nat /\ EndSlack \in Nat
  BY LoopAssumption DEF Threads
<1>1. Quota \in Nat /\ Quota * N <= MaxNonce
  BY QuotaFits
<1>2. Quota * (t + 1) <= Quota * N
  BY <1>1, MonoTimes
<1>3. Quota * (t + 1) = Quota * t + Quota /\ Quota * t \in Nat
  BY <1>1, SMT
<1>4. Quota > N + LowWater
  BY RangeAssumption
<1>. QED  BY <1>1, <1>2, <1>3, <1>4, SMT DEF Start, FirstEnd, ShareEnd

\* The shares of two threads do not overlap, and only the last thread's share
\* is rounded up to UINT32_MAX: no thread of gbxminer ever needs to look at
\* the nonces another one searches.
THEOREM SharesDisjoint ==
    ASSUME NEW t \in Threads, NEW u \in Threads, t < u
    PROVE  ShareEnd(t) < Start(u)
<1>. /\ t \in Nat /\ u \in Nat /\ t + 1 <= u /\ u + 1 <= N
     /\ N \in Nat /\ MaxNonce \in Nat /\ LowWater \in Nat /\ EndSlack \in Nat
  BY LoopAssumption DEF Threads
<1>1. Quota \in Nat /\ Quota * N <= MaxNonce
  BY QuotaFits
<1>2. Quota * (t + 1) <= Quota * u /\ Quota * (u + 1) <= Quota * N
  BY <1>1, MonoTimes
<1>3. Quota * (u + 1) = Quota * u + Quota /\ Quota * u \in Nat /\ Quota * (t + 1) \in Nat
  BY <1>1, SMT
\* The end of the last share but one is well below UINT32_MAX.
<1>4. Quota > N + LowWater /\ Quota + N > EndSlack + 1
  BY RangeAssumption
<1>5. FirstEnd(t) < Start(u)
  BY <1>1, <1>2, <1>3, SMT DEF FirstEnd, Start
<1>6. FirstEnd(t) < MaxNonce - EndSlack
  <2>1. PICK q \in Nat : Quota = q + 1
    BY <1>1, <1>4, SMT
  <2>2. FirstEnd(t) = q * (t + 1)
    BY <2>1, SMT DEF FirstEnd
  <2>3. PICK n \in Nat : N = n + 1
    BY SMT
  <2>4. q * (t + 1) <= q * n
    BY <2>1, <2>3, MonoTimes
  <2>5. Quota * N = q * n + q + n + 1 /\ q * n \in Nat
    BY <2>1, <2>3, SMT
  <2>. QED  BY <1>1, <1>4, <2>1, <2>2, <2>3, <2>4, <2>5, SMT
<1>7. FirstEnd(t) \in Nat
  BY ShareBounds
<1>. QED  BY <1>5, <1>6, <1>7, SMT DEF ShareEnd
-----------------------------------------------------------------------------
\* uint32_t arithmetic stays in range.
LEMMA WrapInRange ==
    ASSUME NEW n \in Nat
    PROVE  Wrap(n) \in 0..MaxNonce /\ (n <= MaxNonce => Wrap(n) = n)
  BY LoopAssumption, SMTT(30) DEF Wrap

\* A window ends, and a launch is sized, within the range.
LEMMA LaunchedInRange ==
    ASSUME TypeOK, NEW t \in Threads, NEW f \in Launched(t)
    PROVE  f \in 0..MaxNonce /\ Wrap(f + 1) \in 0..MaxNonce
<1>1. PICK k \in 0..launch[t]-1 : f = Wrap(nonce[t] + k)
  BY DEF Launched
<1>2. nonce[t] \in Nat /\ launch[t] \in Nat /\ nonce[t] + k \in Nat
  BY LoopAssumption, SMT DEF TypeOK
<1>3. f \in 0..MaxNonce
  BY <1>1, <1>2, WrapInRange
<1>4. f + 1 \in Nat
  BY <1>3, LoopAssumption
<1>. QED  BY <1>3, <1>4, WrapInRange

\* g_work after it has received a new header.
LEMMA GenerateType ==
    ASSUME TypeOK, Generate
    PROVE  gwork' \in Work /\ expired' \in BOOLEAN /\ heightOf' \in [Headers -> 0..MaxHeight]
<1>1. PICK d \in Headers, h \in 1..MaxHeight, c \in 1..MaxHeight :
         /\ gwork' = [data |-> d, height |-> c]
         /\ heightOf' = IF Source = "getwork"
                          THEN [heightOf EXCEPT ![d] = h] ELSE heightOf
         /\ expired' = FALSE
  BY DEF Generate
<1>2. h \in 0..MaxHeight /\ c \in 0..MaxHeight
  BY LoopAssumption
<1>3. gwork' \in Work
  BY <1>1, <1>2 DEF Work
<1>4. heightOf' \in [Headers -> 0..MaxHeight]
  BY <1>1, <1>2 DEF TypeOK
<1>. QED  BY <1>1, <1>3, <1>4

\* g_work and the private copies after the locked part of the loop.
LEMMA TakeWorkType ==
    ASSUME TypeOK, NEW t \in Threads, TakeWork(t)
    PROVE  /\ gwork' \in Work /\ expired' \in BOOLEAN
           /\ heightOf' \in [Headers -> 0..MaxHeight]
           /\ work' \in [Threads -> Work]
           /\ nonce' \in [Threads -> 0..MaxNonce]
<1>1. /\ gwork' \in Work /\ expired' \in BOOLEAN
      /\ heightOf' \in [Headers -> 0..MaxHeight]
  <2>1. CASE UNCHANGED shared
    BY <2>1 DEF shared, TypeOK
  <2>2. CASE Generate
    BY <2>2, GenerateType
  <2>3. CASE expired' = FALSE /\ UNCHANGED <<gwork, heightOf>>
    BY <2>3 DEF TypeOK
  <2>. QED  BY <2>1, <2>2, <2>3 DEF TakeWork, Refresh
<1>2. work' \in [Threads -> Work]
  <2>1. work \in [Threads -> Work] /\ work[t] \in Work
    BY DEF TypeOK
  <2>2. gwork'.height \in 0..MaxHeight
    BY <1>1 DEF Work
  <2>3. CASE work' = [work EXCEPT ![t].height = gwork'.height]
    <3>1. [work[t] EXCEPT !.height = gwork'.height] \in Work
      BY <2>1, <2>2 DEF Work
    <3>. QED  BY <2>1, <2>3, <3>1
  <2>4. CASE work' = [work EXCEPT ![t] = gwork']
    BY <1>1, <2>1, <2>4
  <2>5. CASE UNCHANGED work
    BY <2>1, <2>5
  <2>. QED  BY <2>3, <2>4, <2>5 DEF TakeWork, CopyWork
<1>3. nonce' \in [Threads -> 0..MaxNonce]
  <2>1. Wrap(nonce[t] + 1) \in 0..MaxNonce
    <3>1. nonce[t] + 1 \in Nat
      BY LoopAssumption DEF TypeOK
    <3>. QED  BY <3>1, WrapInRange
  <2>2. Start(t) \in 0..MaxNonce
    BY ShareBounds
  <2>. QED  BY <2>1, <2>2 DEF TakeWork, CopyWork, TypeOK
<1>. QED  BY <1>1, <1>2, <1>3

\* The window of a scan and the size of its launches.
LEMMA StartScanType ==
    ASSUME TypeOK, NEW t \in Threads, StartScan(t)
    PROVE  /\ end' \in [Threads -> 0..MaxNonce]
           /\ max' \in [Threads -> 0..MaxNonce]
           /\ launch' \in [Threads -> 0..Throughput]
<1>. DEFINE e == ClampedEnd(t)
            m(span) == IF span + nonce[t] >= e THEN e ELSE span + nonce[t]
            astray(span) == nonce[t] > m(span)
            last(span) == IF astray(span) THEN MaxNonce ELSE m(span)
            room(span) == last(span) - nonce[t]
<1>1. PICK span \in Spans :
         /\ end' = [end EXCEPT ![t] = IF astray(span) THEN MaxNonce ELSE e]
         /\ max' = [max EXCEPT ![t] = last(span)]
         /\ launch' = [launch EXCEPT ![t] =
                 IF inited[t] /\ room(span) < Throughput THEN room(span) ELSE Throughput]
  BY DEF StartScan
<1>2. /\ span \in Nat /\ Throughput \in Nat /\ MaxNonce \in Nat
      /\ nonce[t] \in 0..MaxNonce /\ end[t] \in 0..MaxNonce
  BY LoopAssumption DEF TypeOK
<1>3. e \in 0..MaxNonce
  BY <1>2 DEF ClampedEnd
<1>. HIDE DEF e
<1>4. m(span) \in 0..MaxNonce
  BY <1>2, <1>3, SMT
<1>. HIDE DEF m
<1>5. last(span) \in 0..MaxNonce /\ nonce[t] <= last(span)
  BY <1>2, <1>4, SMT
<1>. HIDE DEF last
<1>6. room(span) \in Nat
  BY <1>2, <1>5, SMT
<1>. HIDE DEF room
<1>7. end' \in [Threads -> 0..MaxNonce]
  BY <1>1, <1>2, <1>3 DEF TypeOK
<1>8. max' \in [Threads -> 0..MaxNonce]
  BY <1>1, <1>5 DEF TypeOK
<1>9. launch' \in [Threads -> 0..Throughput]
  <2>1. Throughput \in 0..Throughput
    BY <1>2
  <2>2. room(span) < Throughput => room(span) \in 0..Throughput
    BY <1>2, <1>6
  <2>. QED  BY <1>1, <2>1, <2>2 DEF TypeOK
<1>. QED  BY <1>7, <1>8, <1>9

\* A launch leaves the nonce position in range.
LEMMA LaunchType ==
    ASSUME TypeOK, NEW t \in Threads, Launch(t)
    PROVE  /\ nonce' \in [Threads -> 0..MaxNonce]
           /\ pc' \in [Threads -> {"top", "ready", "scan", "done"}]
           /\ found' \in [Threads -> 0..2]
<1>0. /\ nonce \in [Threads -> 0..MaxNonce] /\ max[t] \in 0..MaxNonce
      /\ launch[t] \in Nat /\ MaxNonce \in Nat
  BY LoopAssumption DEF TypeOK
<1>1. pc' \in [Threads -> {"top", "ready", "scan", "done"}]
  BY DEF Launch, NothingFound, ValidFound, InvalidFound, TypeOK
<1>2. found' \in [Threads -> 0..2]
  <2>. found \in [Threads -> 0..2]
    BY DEF TypeOK
  <2>1. CASE UNCHANGED found
    BY <2>1
  <2>2. CASE ValidFound(t)
    <3>1. PICK n \in {1, 2} : found' = [found EXCEPT ![t] = n]
      BY <2>2 DEF ValidFound
    <3>. QED  BY <3>1
  <2>. QED  BY <2>1, <2>2 DEF Launch, NothingFound, InvalidFound
<1>3. nonce' \in [Threads -> 0..MaxNonce]
  <2>1. CASE NothingFound(t)
    BY <1>0, <2>1, SMT DEF NothingFound
  <2>2. CASE ValidFound(t)
    <3>1. PICK f \in Launched(t), g \in Launched(t) :
             nonce' = [nonce EXCEPT ![t] = Wrap((IF f > g THEN f ELSE g) + 1)]
      BY <2>2 DEF ValidFound
    <3>2. Wrap((IF f > g THEN f ELSE g) + 1) \in 0..MaxNonce
      BY LaunchedInRange
    <3>. QED  BY <1>0, <3>1, <3>2
  <2>3. CASE InvalidFound(t)
    <3>1. PICK f \in Launched(t) : nonce' = [nonce EXCEPT ![t] = Wrap(f + 1)]
      BY <2>3 DEF InvalidFound
    <3>. QED  BY <1>0, <3>1, LaunchedInRange
  <2>. QED  BY <2>1, <2>2, <2>3 DEF Launch
<1>. QED  BY <1>1, <1>2, <1>3

\* The queue of workio as a sequence of submissions.
LEMMA QueueTypes ==
    ASSUME NEW S, NEW s \in Seq(S)
    PROVE  /\ \A e \in S : Append(s, e) \in Seq(S)
           /\ s # << >> => Head(s) \in S /\ Tail(s) \in Seq(S)
  OBVIOUS

\* What is submitted, delivered and left for the next scan.
LEMMA FinishScanType ==
    ASSUME TypeOK, NEW t \in Threads, FinishScan(t)
    PROVE  /\ nonce' \in [Threads -> 0..MaxNonce]
           /\ expired' \in BOOLEAN /\ submitted' \in [Threads -> BOOLEAN]
           /\ subq' \in Seq([made : 0..MaxHeight, claimed : 0..MaxHeight])
<1>0. /\ nonce \in [Threads -> 0..MaxNonce] /\ expired \in BOOLEAN
      /\ submitted \in [Threads -> BOOLEAN] /\ work[t] \in Work
      /\ subq \in Seq([made : 0..MaxHeight, claimed : 0..MaxHeight])
      /\ heightOf \in [Headers -> 0..MaxHeight]
      /\ MaxNonce \in 0..MaxNonce /\ 0 \in 0..MaxHeight
  BY LoopAssumption DEF TypeOK
<1>1. CASE UNCHANGED <<subq, submitted, expired, nonce>>
  BY <1>0, <1>1
<1>2. CASE ~restart[t]
  <2>1. nonce' \in [Threads -> 0..MaxNonce]
    BY <1>0, <1>2 DEF FinishScan
  <2>2. expired' \in BOOLEAN
    BY <1>0, <1>2 DEF FinishScan, SpendWork
  <2>3. submitted' \in [Threads -> BOOLEAN]
    BY <1>0, <1>2, Zenon DEF FinishScan
  <2>4. subq' \in Seq([made : 0..MaxHeight, claimed : 0..MaxHeight])
    <3>. DEFINE sub == [made |-> IF work[t].data = Blank THEN 0 ELSE heightOf[work[t].data],
                        claimed |-> work[t].height]
                Sub == [made : 0..MaxHeight, claimed : 0..MaxHeight]
    <3>1. sub \in Sub
      BY <1>0 DEF Work
    <3>2. Submissions(t) \in {<< >>, <<sub>>, <<sub, sub>>}
      BY DEF Submissions
    <3>. HIDE DEF sub, Sub
    <3>3. Submissions(t) \in Seq(Sub)
      <4>1. << >> \in Seq(Sub) /\ <<sub>> \in Seq(Sub) /\ <<sub, sub>> \in Seq(Sub)
        BY ONLY <3>1
      <4>. QED  BY <3>2, <4>1
    <3>4. subq' = subq \o Submissions(t)
      BY <1>2 DEF FinishScan
    <3>5. subq \in Seq(Sub)
      BY <1>0 DEF Sub
    <3>. QED  BY ONLY <3>3, <3>4, <3>5 DEF Sub
  <2>. QED  BY <2>1, <2>2, <2>3, <2>4
<1>. QED  BY <1>1, <1>2 DEF FinishScan

LEMMA DeliverType ==
    ASSUME TypeOK, Deliver
    PROVE  /\ gwork' \in Work
           /\ subq' \in Seq([made : 0..MaxHeight, claimed : 0..MaxHeight])
           /\ delivered' \in [made : 0..MaxHeight, newest : 0..MaxHeight]
<1>. DEFINE Sub == [made : 0..MaxHeight, claimed : 0..MaxHeight]
<1>1. /\ gwork \in Work /\ gwork.height \in 0..MaxHeight /\ subq \in Seq(Sub)
      /\ delivered \in [made : 0..MaxHeight, newest : 0..MaxHeight]
  BY DEF TypeOK, Work
<1>2. subq # << >>
  BY DEF Deliver
<1>. HIDE DEF Sub
<1>3. Head(subq) \in Sub /\ Tail(subq) \in Seq(Sub)
  BY <1>1, <1>2, QueueTypes
<1>4. PICK h \in gwork.height..MaxHeight :
         LET newest == IF Head(subq).claimed < gwork.height THEN gwork.height ELSE h
         IN /\ gwork' = [gwork EXCEPT !.height = newest]
            /\ delivered' = IF Head(subq).claimed < newest THEN delivered
                              ELSE [made |-> Head(subq).made, newest |-> newest]
  BY DEF Deliver
<1>5. PICK newest \in 0..MaxHeight :
         /\ gwork' = [gwork EXCEPT !.height = newest]
         /\ delivered' = delivered \/ delivered' = [made |-> Head(subq).made, newest |-> newest]
  <2>1. h \in 0..MaxHeight
    BY <1>1, LoopAssumption
  <2>. QED  BY <1>1, <1>4, <2>1
<1>6. gwork' \in Work
  BY <1>1, <1>5 DEF Work
<1>7. delivered' \in [made : 0..MaxHeight, newest : 0..MaxHeight]
  BY <1>1, <1>3, <1>5 DEF Sub
<1>8. subq' \in Seq(Sub)
  BY <1>3 DEF Deliver
<1>. QED  BY <1>6, <1>7, <1>8 DEF Sub

LEMMA RestartType ==
    ASSUME TypeOK, RestartThreads \/ UNCHANGED restart
    PROVE  restart' \in [Threads -> BOOLEAN]
  BY DEF RestartThreads, TypeOK

-----------------------------------------------------------------------------
LEMMA TypeInit == Init => TypeOK
<1>. SUFFICES ASSUME Init PROVE TypeOK
  OBVIOUS
<1>1. \A t \in Threads : FirstEnd(t) \in 0..MaxNonce
  BY ShareBounds
<1>2. 0 \in 0..MaxHeight /\ 0 \in 0..MaxNonce /\ 0 \in 0..Throughput /\ N \in 0..N
  BY LoopAssumption
<1>. QED  BY <1>1, <1>2 DEF Init, TypeOK, Work

LEMMA TypeStep == TypeOK /\ [Next]_vars => TypeOK'
<1>. SUFFICES ASSUME TypeOK, [Next]_vars PROVE TypeOK'
  OBVIOUS
<1>1. CASE NewJob
  BY <1>1, GenerateType, RestartType DEF NewJob, TypeOK, scanning, repeat
<1>2. CASE Disconnected
  <2>1. gwork' \in Work
    BY <1>2 DEF Disconnected, TypeOK, Work
  <2>. QED  BY <1>2, <2>1, RestartType DEF Disconnected, TypeOK, scanning, repeat
<1>3. CASE GovernorStep
  BY <1>3, RestartType DEF GovernorStep, TypeOK, scanning, repeat, shared
<1>4. CASE Deliver
  BY <1>4, DeliverType DEF Deliver, TypeOK, scanning, repeat
<1>11. CASE TakeShare
  <2>1. subq' \in Seq([made : 0..MaxHeight, claimed : 0..MaxHeight])
    BY <1>11, QueueTypes DEF TakeShare, TypeOK
  <2>2. expired' \in BOOLEAN
    BY <1>11, Zenon DEF TakeShare, TypeOK
  <2>3. raising' \in {raising, 0}
    BY <1>11, Zenon DEF TakeShare
  <2>4. raising' \in 0..N
    BY <2>3, LoopAssumption DEF TypeOK
  <2>. QED  BY <1>11, <2>1, <2>2, <2>4 DEF TakeShare, TypeOK, scanning, repeat
<1>12. CASE RaiseNext
  <2>1. raising' \in 0..N
    BY <1>12, LoopAssumption DEF RaiseNext, TypeOK
  <2>2. restart' \in [Threads -> BOOLEAN] /\ late' \in [Threads -> BOOLEAN]
    BY <1>12, Zenon DEF RaiseNext, TypeOK, Spent
  <2>. QED  BY <1>12, <2>1, <2>2 DEF RaiseNext, TypeOK, scanning, repeat, shared
<1>5. ASSUME NEW t \in Threads, TakeWork(t) PROVE TypeOK'
  <2>1. submitted' \in [Threads -> BOOLEAN]
    BY <1>5, Zenon DEF TakeWork, TypeOK
  <2>2. pc' \in [Threads -> {"top", "ready", "scan", "done"}]
    BY <1>5 DEF TakeWork, TypeOK
  <2>. QED  BY <1>5, <2>1, <2>2, TakeWorkType DEF TakeWork, TypeOK, scanning, repeat
<1>6. ASSUME NEW t \in Threads, Hold(t) PROVE TypeOK'
  <2>1. inited' \in [Threads -> BOOLEAN]
    BY <1>6, Zenon DEF Hold, TypeOK
  <2>. QED  BY <1>6, <2>1 DEF Hold, TypeOK, shared, repeat
<1>7. ASSUME NEW t \in Threads, StartScan(t) PROVE TypeOK'
  <2>1. /\ restart' \in [Threads -> BOOLEAN] /\ inited' \in [Threads -> BOOLEAN]
        /\ late' \in [Threads -> BOOLEAN]
    BY <1>7, Zenon DEF StartScan, ClearRestart, TypeOK
  <2>2. pc' \in [Threads -> {"top", "ready", "scan", "done"}]
    BY <1>7 DEF StartScan, TypeOK
  <2>3. found' \in [Threads -> 0..2]
    BY <1>7 DEF StartScan, TypeOK
  <2>4. UNCHANGED <<shared, work, nonce, subq, submitted, delivered, raising>>
    BY <1>7 DEF StartScan
  <2>5. /\ gwork' \in Work /\ heightOf' \in [Headers -> 0..MaxHeight]
        /\ expired' \in BOOLEAN /\ submitted' \in [Threads -> BOOLEAN]
        /\ work' \in [Threads -> Work] /\ nonce' \in [Threads -> 0..MaxNonce]
        /\ delivered' \in [made : 0..MaxHeight, newest : 0..MaxHeight] /\ raising' \in 0..N
        /\ subq' \in Seq([made : 0..MaxHeight, claimed : 0..MaxHeight])
    BY <2>4 DEF TypeOK, shared, repeat
  <2>. QED  BY <1>7, <2>1, <2>2, <2>3, <2>5, StartScanType DEF TypeOK
<1>8. ASSUME NEW t \in Threads, Launch(t) PROVE TypeOK'
  BY <1>8, LaunchType DEF Launch, TypeOK, shared, repeat
<1>9. ASSUME NEW t \in Threads, FinishScan(t) PROVE TypeOK'
  <2>1. 0 \in 0..MaxNonce /\ 0 \in 0..Throughput
    BY LoopAssumption
  <2>2. /\ max' \in [Threads -> 0..MaxNonce]
        /\ launch' \in [Threads -> 0..Throughput]
        /\ found' \in [Threads -> 0..2]
        /\ pc' \in [Threads -> {"top", "ready", "scan", "done"}]
    BY <1>9, <2>1 DEF FinishScan, TypeOK
  <2>3. UNCHANGED <<gwork, heightOf, work, end, inited, restart, delivered, repeat>>
    BY <1>9 DEF FinishScan
  <2>4. /\ gwork' \in Work /\ heightOf' \in [Headers -> 0..MaxHeight]
        /\ work' \in [Threads -> Work] /\ end' \in [Threads -> 0..MaxNonce]
        /\ inited' \in [Threads -> BOOLEAN] /\ restart' \in [Threads -> BOOLEAN]
        /\ delivered' \in [made : 0..MaxHeight, newest : 0..MaxHeight]
        /\ raising' \in 0..N /\ late' \in [Threads -> BOOLEAN]
    BY <2>3 DEF TypeOK, repeat
  <2>. QED  BY <1>9, <2>2, <2>4, FinishScanType DEF TypeOK
<1>10. CASE UNCHANGED vars
  BY <1>10 DEF vars, TypeOK, scanning, repeat, shared
<1>. QED  BY <1>1, <1>2, <1>3, <1>4, <1>5, <1>6, <1>7, <1>8, <1>9, <1>10, <1>11, <1>12 DEF Next

\* Every variable keeps its type; in particular nonces stay within 32 bits
\* and a launch never exceeds the throughput.
THEOREM TypeCorrect == Spec => []TypeOK
  BY TypeInit, TypeStep, PTL DEF Spec
-----------------------------------------------------------------------------
(***************************************************************************)
(* Solo mining.  The position of a thread that is about to compute a       *)
(* window lies within its share, because work that is near the end of the  *)
(* share, or used up, is replaced before it is copied and a replacement    *)
(* resets the position.  A header a thread has submitted a block for is    *)
(* therefore never scanned by it again.                                    *)
(***************************************************************************)

\* end_nonce is the end of the share, before or after rounding.
EndOfShare == \A t \in Threads : end[t] \in {FirstEnd(t), ShareEnd(t)}

\* A window ends in the share of its thread.
WindowInShare == \A t \in Threads : pc[t] \in {"scan", "done"} => max[t] <= ShareEnd(t)

\* After a submission the work is used up until the thread has new work.
SubmittedIsSpent ==
    \A t \in Threads : submitted[t] =>
        pc[t] = "top" /\ (expired \/ gwork.data # work[t].data)

SoloInv == /\ EndOfShare
           /\ StartsBeforeEnd
           /\ WindowInShare
           /\ SubmittedIsSpent

\* Where a thread stands after the locked part of the loop.
LEMMA TakeWorkPosition ==
    ASSUME Source = "solo", TypeOK, EndOfShare, NEW t \in Threads, TakeWork(t)
    PROVE  /\ nonce'[t] <= end[t]
           /\ work'[t].data # work[t].data
              \/ (~expired /\ work' = work /\ UNCHANGED shared)
<1>0. /\ nonce \in [Threads -> 0..MaxNonce] /\ nonce[t] \in Nat
      /\ work \in [Threads -> Work] /\ MaxNonce \in Nat /\ LowWater \in Nat
  BY LoopAssumption DEF TypeOK
<1>1. /\ end[t] \in 0..MaxNonce /\ Start(t) \in Nat
      /\ Start(t) <= end[t] /\ LowWater < end[t]
  BY ShareBounds, LoopAssumption, SMT DEF EndOfShare
<1>2. \/ gwork'.data # work[t].data
      \/ UNCHANGED shared /\ ~expired /\ nonce[t] < end[t] - LowWater
  <2>1. CASE Refresh
    BY <2>1 DEF Refresh, Generate, Fresh, Stratum
  <2>2. CASE ~MustRefresh(t) /\ UNCHANGED shared
    <3>1. ~expired /\ ~(nonce[t] >= end[t] - LowWater)
      BY <2>2, Zenon DEF MustRefresh, Stratum
    <3>. QED  BY <1>0, <1>1, <2>2, <3>1
  <2>. QED  BY <2>1, <2>2 DEF TakeWork
<1>3. CASE gwork'.data # work[t].data
  <2>1. work' = [work EXCEPT ![t] = gwork'] /\ nonce' = [nonce EXCEPT ![t] = Start(t)]
    BY <1>3 DEF TakeWork, CopyWork
  <2>. QED  BY <1>0, <1>1, <1>3, <2>1
<1>4. CASE gwork'.data = work[t].data
  <2>1. UNCHANGED work /\ nonce' = [nonce EXCEPT ![t] = Wrap(nonce[t] + 1)]
    BY <1>4 DEF TakeWork, CopyWork
  <2>2. UNCHANGED shared /\ ~expired /\ nonce[t] < end[t] - LowWater
    BY <1>2, <1>4
  <2>3. nonce[t] + 1 \in Nat /\ nonce[t] + 1 <= end[t] /\ nonce[t] + 1 <= MaxNonce
    BY <1>0, <1>1, <2>2, SMT
  <2>4. Wrap(nonce[t] + 1) = nonce[t] + 1
    BY <2>3, WrapInRange
  <2>. QED  BY <1>0, <2>1, <2>2, <2>3, <2>4
<1>. QED  BY <1>3, <1>4

\* A window computed by a thread that stands within its share.
LEMMA WindowComputed ==
    ASSUME TypeOK, EndOfShare, StartsBeforeEnd, NEW t \in Threads, StartScan(t)
    PROVE  /\ end' = [end EXCEPT ![t] = ShareEnd(t)]
           /\ max'[t] <= ShareEnd(t)
<1>0. /\ nonce[t] \in 0..MaxNonce /\ end[t] \in 0..MaxNonce
      /\ MaxNonce \in Nat /\ EndSlack \in Nat /\ Spans \subseteq Nat
      /\ max \in [Threads -> 0..MaxNonce]
  BY LoopAssumption DEF TypeOK
<1>1. ClampedEnd(t) = ShareEnd(t) /\ ShareEnd(t) \in 0..MaxNonce
  BY <1>0, ShareBounds, SMT DEF ClampedEnd, ShareEnd, EndOfShare
<1>2. nonce[t] <= ShareEnd(t)
  BY <1>1 DEF StartsBeforeEnd, StartScan
<1>3. PICK span \in Spans :
         LET m == IF span + nonce[t] >= ShareEnd(t) THEN ShareEnd(t) ELSE span + nonce[t]
         IN /\ end' = [end EXCEPT ![t] = IF nonce[t] > m THEN MaxNonce ELSE ShareEnd(t)]
            /\ max' = [max EXCEPT ![t] = IF nonce[t] > m THEN MaxNonce ELSE m]
  BY <1>1 DEF StartScan
<1>. DEFINE m == IF span + nonce[t] >= ShareEnd(t) THEN ShareEnd(t) ELSE span + nonce[t]
<1>4. ~(nonce[t] > m) /\ m <= ShareEnd(t)
  BY <1>0, <1>1, <1>2, SMT
<1>. QED  BY <1>0, <1>3, <1>4

LEMMA SoloInit == Init => SoloInv
<1>. SUFFICES ASSUME Init PROVE SoloInv
  OBVIOUS
<1>1. EndOfShare /\ WindowInShare /\ SubmittedIsSpent
  BY DEF Init, EndOfShare, WindowInShare, SubmittedIsSpent
<1>2. StartsBeforeEnd
  BY DEF Init, StartsBeforeEnd
<1>. QED  BY <1>1, <1>2 DEF SoloInv

\* Steps that leave the positions, windows and stages of all threads alone.
LEMMA SoloFrame ==
    ASSUME SoloInv, UNCHANGED <<nonce, end, max, pc>>
    PROVE  (EndOfShare /\ StartsBeforeEnd /\ WindowInShare)'
  BY DEF SoloInv, EndOfShare, StartsBeforeEnd, WindowInShare, ClampedEnd

LEMMA SoloStep ==
    ASSUME Source = "solo"
    PROVE  TypeOK /\ SoloInv /\ [Next]_vars => SoloInv'
<1>. SUFFICES ASSUME TypeOK, SoloInv, [Next]_vars PROVE SoloInv'
  OBVIOUS
<1>. ~Stratum
  BY DEF Stratum
<1>1. CASE NewJob \/ Disconnected \/ TakeShare \/ RaiseNext
  BY <1>1 DEF NewJob, Disconnected, TakeShare, RaiseNext
<1>2. CASE GovernorStep
  <2>1. SubmittedIsSpent'
    BY <1>2 DEF GovernorStep, SoloInv, SubmittedIsSpent, shared
  <2>. QED  BY <1>2, <2>1, SoloFrame DEF GovernorStep, SoloInv, scanning
<1>3. CASE Deliver
  <2>1. gwork'.data = gwork.data
    BY <1>3 DEF Deliver, TypeOK, Work
  <2>2. SubmittedIsSpent'
    BY <1>3, <2>1 DEF Deliver, SoloInv, SubmittedIsSpent
  <2>. QED  BY <1>3, <2>2, SoloFrame DEF Deliver, SoloInv, scanning
<1>4. ASSUME NEW t \in Threads, TakeWork(t) PROVE SoloInv'
  <2>1. EndOfShare' /\ WindowInShare'
    BY <1>4 DEF TakeWork, scanning, SoloInv, EndOfShare, WindowInShare, TypeOK
  <2>2. StartsBeforeEnd'
    <3>1. end[t] <= ClampedEnd(t)
      BY LoopAssumption DEF ClampedEnd, TypeOK
    <3>2. nonce'[t] <= ClampedEnd(t)
      <4>1. nonce'[t] \in 0..MaxNonce
        BY <1>4, TakeWorkType
      <4>2. nonce'[t] <= end[t]
        BY <1>4, TakeWorkPosition DEF SoloInv
      <4>3. ClampedEnd(t) \in Nat /\ end[t] \in Nat
        BY LoopAssumption DEF ClampedEnd, TypeOK
      <4>. QED  BY <3>1, <4>1, <4>2, <4>3
    <3>3. \A u \in Threads \ {t} : nonce'[u] = nonce[u] /\ pc'[u] = pc[u]
      BY <1>4 DEF TakeWork, CopyWork, TypeOK
    <3>4. UNCHANGED end
      BY <1>4 DEF TakeWork
    <3>. QED  BY <3>2, <3>3, <3>4 DEF SoloInv, StartsBeforeEnd, ClampedEnd
  <2>3. SubmittedIsSpent'
    <3>1. submitted' = [submitted EXCEPT ![t] = submitted[t] /\ work'[t].data = work[t].data]
      BY <1>4 DEF TakeWork
    <3>2. ~submitted'[t]
      <4>1. work'[t].data # work[t].data \/ (~expired /\ work' = work /\ UNCHANGED shared)
        BY <1>4, TakeWorkPosition DEF SoloInv
      <4>2. CASE work'[t].data # work[t].data
        BY <3>1, <4>2, Zenon DEF TypeOK
      <4>3. CASE ~expired /\ work' = work /\ UNCHANGED shared
        <5>1. submitted[t] => gwork.data # work[t].data
          BY <4>3 DEF SoloInv, SubmittedIsSpent
        <5>2. gwork.data # work[t].data => work'[t].data # work[t].data
          BY <1>4, <4>3 DEF TakeWork, CopyWork, TypeOK, shared
        <5>. QED  BY <3>1, <4>3, <5>1, <5>2, Zenon DEF TypeOK
      <4>. QED  BY <4>1, <4>2, <4>3
    <3>3. \A u \in Threads \ {t} :
             /\ submitted'[u] = submitted[u] /\ pc'[u] = pc[u]
             /\ work'[u] = work[u]
      <4>1. \A u \in Threads \ {t} : submitted'[u] = submitted[u]
        BY <3>1, Zenon DEF TypeOK
      <4>. QED  BY <1>4, <4>1 DEF TakeWork, CopyWork, TypeOK
    <3>4. \A u \in Threads : UNCHANGED shared \/ gwork'.data # work[u].data
      BY <1>4 DEF TakeWork, Refresh, Generate, Fresh
    <3>5. ASSUME NEW u \in Threads, submitted'[u]
          PROVE  pc'[u] = "top" /\ (expired' \/ gwork'.data # work'[u].data)
      BY <3>2, <3>3, <3>4, <3>5 DEF SoloInv, SubmittedIsSpent, shared
    <3>. QED  BY <3>5 DEF SubmittedIsSpent
  <2>. QED  BY <2>1, <2>2, <2>3 DEF SoloInv
<1>5. ASSUME NEW t \in Threads, Hold(t) PROVE SoloInv'
  <2>1. pc' = [pc EXCEPT ![t] = "top"] /\ UNCHANGED <<nonce, end, max, shared, work, submitted>>
    BY <1>5 DEF Hold
  <2>. QED  BY <2>1 DEF SoloInv, EndOfShare, StartsBeforeEnd, WindowInShare,
              SubmittedIsSpent, ClampedEnd, TypeOK, shared
<1>6. ASSUME NEW t \in Threads, StartScan(t) PROVE SoloInv'
  <2>0. /\ pc' = [pc EXCEPT ![t] = "scan"] /\ pc[t] = "ready"
        /\ UNCHANGED <<nonce, shared, work, submitted>>
    BY <1>6 DEF StartScan
  <2>1. end' = [end EXCEPT ![t] = ShareEnd(t)] /\ max'[t] <= ShareEnd(t)
    BY <1>6, WindowComputed DEF SoloInv
  <2>2. \A u \in Threads \ {t} : max'[u] = max[u]
    BY <1>6 DEF StartScan, TypeOK
  <2>3. EndOfShare'
    BY <2>1 DEF SoloInv, EndOfShare, TypeOK
  <2>4. StartsBeforeEnd'
    BY <2>0, <2>1 DEF SoloInv, StartsBeforeEnd, ClampedEnd, TypeOK
  <2>5. WindowInShare'
    BY <2>0, <2>1, <2>2 DEF SoloInv, WindowInShare, TypeOK
  <2>6. SubmittedIsSpent'
    BY <2>0 DEF SoloInv, SubmittedIsSpent, TypeOK, shared
  <2>. QED  BY <2>3, <2>4, <2>5, <2>6 DEF SoloInv
<1>7. ASSUME NEW t \in Threads, Launch(t) PROVE SoloInv'
  <2>1. /\ UNCHANGED <<end, max, shared, work, submitted>> /\ pc[t] = "scan"
        /\ \E p \in {"scan", "done"} : pc' = [pc EXCEPT ![t] = p]
    BY <1>7 DEF Launch, NothingFound, ValidFound, InvalidFound
  <2>2. \A u \in Threads \ {t} : nonce'[u] = nonce[u]
    BY <1>7 DEF Launch, NothingFound, ValidFound, InvalidFound, TypeOK
  <2>3. EndOfShare' /\ WindowInShare'
    BY <2>1 DEF SoloInv, EndOfShare, WindowInShare, TypeOK
  <2>4. StartsBeforeEnd'
    BY <2>1, <2>2 DEF SoloInv, StartsBeforeEnd, ClampedEnd, TypeOK
  <2>5. SubmittedIsSpent'
    BY <2>1 DEF SoloInv, SubmittedIsSpent, TypeOK, shared
  <2>. QED  BY <2>3, <2>4, <2>5 DEF SoloInv
<1>8. ASSUME NEW t \in Threads, FinishScan(t) PROVE SoloInv'
  <2>1. /\ pc' = [pc EXCEPT ![t] = "top"] /\ pc[t] = "done"
        /\ UNCHANGED <<gwork, work, end>>
    BY <1>8 DEF FinishScan
  <2>2. \A u \in Threads \ {t} : nonce'[u] = nonce[u] /\ max'[u] = max[u]
    BY <1>8 DEF FinishScan, TypeOK
  <2>3. EndOfShare' /\ WindowInShare'
    BY <2>1, <2>2 DEF SoloInv, EndOfShare, WindowInShare, TypeOK
  <2>4. StartsBeforeEnd'
    BY <2>1, <2>2 DEF SoloInv, StartsBeforeEnd, ClampedEnd, TypeOK
  <2>5. expired => expired'
    BY <1>8 DEF FinishScan, SpendWork
  <2>6. \A u \in Threads \ {t} : submitted'[u] = submitted[u]
    BY <1>8, Zenon DEF FinishScan, TypeOK
  <2>7. submitted'[t] => expired'
    <3>1. ~submitted[t]
      BY <2>1 DEF SoloInv, SubmittedIsSpent
    <3>2. CASE restart[t]
      BY <1>8, <3>1, <3>2 DEF FinishScan
    <3>3. CASE ~restart[t]
      <4>1. submitted'[t] => found[t] > 0
        BY <1>8, <3>1, <3>3, Zenon DEF FinishScan, TypeOK
      <4>2. found[t] > 0 => expired'
        BY <1>8, <3>3 DEF FinishScan, SpendWork
      <4>. QED  BY <4>1, <4>2
    <3>. QED  BY <3>2, <3>3
  <2>8. SubmittedIsSpent'
    BY <2>1, <2>5, <2>6, <2>7 DEF SoloInv, SubmittedIsSpent, TypeOK
  <2>. QED  BY <2>3, <2>4, <2>8 DEF SoloInv
<1>9. CASE UNCHANGED vars
  BY <1>9 DEF vars, scanning, shared, SoloInv, EndOfShare, StartsBeforeEnd,
             WindowInShare, SubmittedIsSpent, ClampedEnd
<1>. QED  BY <1>1, <1>2, <1>3, <1>4, <1>5, <1>6, <1>7, <1>8, <1>9 DEF Next

LEMMA SoloInvHolds ==
    ASSUME Source = "solo"
    PROVE  Spec => [](TypeOK /\ SoloInv)
  BY TypeInit, TypeStep, SoloInit, SoloStep, PTL DEF Spec

\* In solo the branch of gbxminer.cpp:2140 ("should not happen") is never
\* taken: no thread starts behind the end of its share.
THEOREM SoloStartsBeforeEnd ==
    ASSUME Source = "solo"
    PROVE  Spec => []StartsBeforeEnd
<1>1. SoloInv => StartsBeforeEnd
  BY DEF SoloInv
<1>. QED  BY <1>1, SoloInvHolds, PTL

(***************************************************************************)
(* Where a launch begins.  A nonce found past the window, or past the end  *)
(* of the 32-bit range, leaves the position astray, but then the work is   *)
(* used up, and its replacement takes the position back to the start of    *)
(* the share.                                                              *)
(***************************************************************************)

\* The position has not left the share, or is about to be reset.
PositionFits ==
    \A t \in Threads \ Rejecting :
        /\ pc[t] = "top" => \/ Start(t) <= nonce[t]
                            \/ expired \/ gwork.data # work[t].data
        /\ pc[t] = "ready" => Start(t) <= nonce[t]
        /\ pc[t] = "scan" => Start(t) <= nonce[t] /\ nonce[t] <= max[t]
        /\ pc[t] = "done" => found[t] > 0 \/ Start(t) <= nonce[t]

\* In solo only the governor raises restart flags.
NoFlags == \A t \in Threads : ~restart[t]

LEMMA PositionInit == Init => PositionFits /\ NoFlags
  BY DEF Init, PositionFits, NoFlags

LEMMA NoFlagsStep ==
    ASSUME Source = "solo", ~Governor
    PROVE  TypeOK /\ NoFlags /\ [Next]_vars => NoFlags'
<1>. SUFFICES ASSUME TypeOK, NoFlags, [Next]_vars PROVE NoFlags'
  OBVIOUS
<1>1. UNCHANGED restart \/ \E t \in Threads : ClearRestart(t)
  BY DEF Next, NewJob, Disconnected, TakeShare, RaiseNext, Stratum, GovernorStep, Deliver,
         TakeWork, Hold, StartScan, Launch, FinishScan, vars
<1>. QED  BY <1>1, Zenon DEF NoFlags, ClearRestart, TypeOK

\* A thread that takes its work.
LEMMA TakeWorkFits ==
    ASSUME Source = "solo", TypeOK, SoloInv, PositionFits,
           NEW t \in Threads \ Rejecting, TakeWork(t)
    PROVE  Start(t) <= nonce'[t]
<1>0. /\ nonce \in [Threads -> 0..MaxNonce] /\ nonce[t] \in Nat /\ Start(t) \in Nat
      /\ MaxNonce \in Nat /\ end[t] \in Nat /\ end[t] <= MaxNonce
      /\ work \in [Threads -> Work]
  BY ShareBounds, LoopAssumption, SMT DEF TypeOK
<1>1. CASE gwork'.data # work[t].data
  BY <1>0, <1>1 DEF TakeWork, CopyWork
<1>2. CASE gwork'.data = work[t].data
  <2>1. nonce' = [nonce EXCEPT ![t] = Wrap(nonce[t] + 1)]
    BY <1>2 DEF TakeWork, CopyWork
  <2>2. ~expired /\ UNCHANGED shared
    <3>1. ~Generate
      BY <1>2 DEF Generate, Fresh
    <3>. QED  BY <3>1, Zenon DEF TakeWork, Refresh, MustRefresh, Stratum
  <2>3. Start(t) <= nonce[t]
    BY <1>2, <2>2 DEF PositionFits, TakeWork, shared
  <2>4. nonce[t] < end[t]
    <3>1. ~(nonce[t] >= end[t] - LowWater)
      <4>1. ~Generate
        BY <1>2 DEF Generate, Fresh
      <4>. QED  BY <4>1, Zenon DEF TakeWork, Refresh, MustRefresh, Stratum
    <3>. QED  BY <1>0, <3>1, LoopAssumption, SMT
  <2>5. Wrap(nonce[t] + 1) = nonce[t] + 1
    BY <1>0, <2>4, WrapInRange
  <2>. QED  BY <1>0, <2>1, <2>3, <2>5
<1>. QED  BY <1>1, <1>2

\* A launch without a result keeps to the window.
LEMMA LaunchFits ==
    ASSUME TypeOK, PositionFits, NEW t \in Threads \ Rejecting, Launch(t)
    PROVE  /\ pc'[t] = "scan" => Start(t) <= nonce'[t] /\ nonce'[t] <= max'[t]
           /\ pc'[t] = "done" => found'[t] > 0 \/ Start(t) <= nonce'[t]
           /\ pc'[t] \in {"scan", "done"}
<1>0. /\ nonce \in [Threads -> 0..MaxNonce] /\ nonce[t] \in Nat /\ Start(t) \in Nat
      /\ max[t] \in Nat /\ launch[t] \in Nat /\ max' = max
      /\ found \in [Threads -> 0..2] /\ pc \in [Threads -> {"top", "ready", "scan", "done"}]
  BY ShareBounds, LoopAssumption DEF Launch, TypeOK
<1>1. Start(t) <= nonce[t] /\ nonce[t] <= max[t]
  BY DEF PositionFits, Launch
<1>2. CASE NothingFound(t)
  BY <1>0, <1>1, <1>2, SMT DEF NothingFound
<1>3. CASE ValidFound(t)
  BY <1>0, <1>3 DEF ValidFound
<1>. QED  BY <1>2, <1>3 DEF Launch, InvalidFound

\* The window of a scan reaches from the position on.
LEMMA StartScanFits ==
    ASSUME TypeOK, NEW t \in Threads, StartScan(t)
    PROVE  nonce[t] <= max'[t]
<1>. DEFINE m(span) == IF span + nonce[t] >= ClampedEnd(t) THEN ClampedEnd(t) ELSE span + nonce[t]
<1>1. PICK span \in Spans :
         max' = [max EXCEPT ![t] = IF nonce[t] > m(span) THEN MaxNonce ELSE m(span)]
  BY DEF StartScan
<1>2. /\ span \in Nat /\ MaxNonce \in Nat /\ nonce[t] \in 0..MaxNonce
      /\ end[t] \in 0..MaxNonce /\ max \in [Threads -> 0..MaxNonce]
  BY LoopAssumption DEF TypeOK
<1>3. m(span) \in Nat
  BY <1>2 DEF ClampedEnd
<1>. HIDE DEF m
<1>. QED  BY <1>1, <1>2, <1>3

\* A step of one thread leaves the position of another alone; g_work changes
\* only for a header nobody holds.
LEMMA OthersFit ==
    ASSUME TypeOK, PositionFits, NEW t \in Threads \ Rejecting,
           UNCHANGED <<nonce[t], max[t], pc[t], found[t], work[t]>>,
           \/ gwork'.data # work[t].data
           \/ gwork'.data = gwork.data /\ (expired => expired')
    PROVE  /\ pc'[t] = "top" => \/ Start(t) <= nonce'[t]
                                \/ expired' \/ gwork'.data # work'[t].data
           /\ pc'[t] = "ready" => Start(t) <= nonce'[t]
           /\ pc'[t] = "scan" => Start(t) <= nonce'[t] /\ nonce'[t] <= max'[t]
           /\ pc'[t] = "done" => found'[t] > 0 \/ Start(t) <= nonce'[t]
  BY DEF PositionFits

LEMMA PositionStep ==
    ASSUME Source = "solo", ~Governor
    PROVE  TypeOK /\ SoloInv /\ NoFlags /\ PositionFits /\ [Next]_vars => PositionFits'
<1>. SUFFICES ASSUME TypeOK, SoloInv, NoFlags, PositionFits, [Next]_vars,
                     NEW t \in Threads \ Rejecting
              PROVE  /\ pc'[t] = "top" => \/ Start(t) <= nonce'[t]
                                          \/ expired' \/ gwork'.data # work'[t].data
                     /\ pc'[t] = "ready" => Start(t) <= nonce'[t]
                     /\ pc'[t] = "scan" => Start(t) <= nonce'[t] /\ nonce'[t] <= max'[t]
                     /\ pc'[t] = "done" => found'[t] > 0 \/ Start(t) <= nonce'[t]
  BY DEF PositionFits
<1>. ~Stratum
  BY DEF Stratum
<1>1. CASE NewJob \/ Disconnected \/ GovernorStep \/ TakeShare \/ RaiseNext
  BY <1>1 DEF NewJob, Disconnected, GovernorStep, TakeShare, RaiseNext
<1>2. CASE Deliver
  <2>1. gwork'.data = gwork.data
    BY <1>2 DEF Deliver, TypeOK, Work
  <2>. QED  BY <1>2, <2>1, OthersFit DEF Deliver, scanning
<1>3. ASSUME NEW u \in Threads, TakeWork(u), u # t
      PROVE  /\ UNCHANGED <<nonce[t], max[t], pc[t], found[t], work[t]>>
             /\ \/ gwork'.data # work[t].data
                \/ gwork'.data = gwork.data /\ (expired => expired')
  <2>1. UNCHANGED <<nonce[t], max[t], pc[t], found[t], work[t]>>
    BY <1>3 DEF TakeWork, CopyWork, scanning, TypeOK
  <2>2. Generate \/ UNCHANGED shared
    BY <1>3 DEF TakeWork, Refresh
  <2>. QED  BY <2>1, <2>2 DEF Generate, Fresh, shared
<1>4. CASE TakeWork(t)
  <2>1. Start(t) <= nonce'[t]
    BY <1>4, TakeWorkFits
  <2>2. pc'[t] \in {"ready", "top"}
    BY <1>4 DEF TakeWork, TypeOK
  <2>. QED  BY <2>1, <2>2
<1>5. ASSUME NEW u \in Threads, Hold(u) \/ StartScan(u) \/ Launch(u) \/ FinishScan(u), u # t
      PROVE  /\ UNCHANGED <<nonce[t], max[t], pc[t], found[t], work[t]>>
             /\ gwork' = gwork /\ (expired => expired')
  <2>1. CASE Hold(u)
    BY <1>5, <2>1 DEF Hold, TypeOK, shared
  <2>2. CASE StartScan(u)
    BY <1>5, <2>2 DEF StartScan, TypeOK, shared
  <2>3. CASE Launch(u)
    BY <1>5, <2>3 DEF Launch, NothingFound, ValidFound, InvalidFound, TypeOK, shared
  <2>4. CASE FinishScan(u)
    BY <1>5, <2>4 DEF FinishScan, SpendWork, TypeOK
  <2>. QED  BY <1>5, <2>1, <2>2, <2>3, <2>4
<1>6. CASE Hold(t)
  <2>1. pc[t] = "ready" /\ pc'[t] = "top" /\ UNCHANGED nonce
    BY <1>6 DEF Hold, TypeOK
  <2>. QED  BY <2>1 DEF PositionFits
<1>7. CASE StartScan(t)
  <2>1. pc[t] = "ready" /\ pc'[t] = "scan" /\ UNCHANGED nonce
    BY <1>7 DEF StartScan, TypeOK
  <2>. QED  BY <1>7, <2>1, StartScanFits DEF PositionFits
<1>8. CASE Launch(t)
  BY <1>8, LaunchFits
<1>9. CASE FinishScan(t)
  <2>1. pc[t] = "done" /\ pc'[t] = "top" /\ ~restart[t]
    BY <1>9 DEF FinishScan, NoFlags, TypeOK
  <2>2. CASE found[t] > 0
    BY <1>9, <2>1, <2>2 DEF FinishScan, SpendWork
  <2>3. CASE ~(found[t] > 0)
    <3>1. nonce'[t] \in {nonce[t], MaxNonce}
      BY <1>9, <2>1 DEF FinishScan, TypeOK
    <3>2. Start(t) <= nonce[t] /\ Start(t) <= MaxNonce
      BY <2>1, <2>3, ShareBounds, LoopAssumption DEF PositionFits
    <3>. QED  BY <2>1, <3>1, <3>2
  <2>. QED  BY <2>2, <2>3
<1>10. CASE UNCHANGED vars
  BY <1>10, OthersFit DEF vars, scanning, shared
<1>. QED  BY <1>1, <1>2, <1>3, <1>4, <1>5, <1>6, <1>7, <1>8, <1>9, <1>10, OthersFit DEF Next

\* In solo every launch begins in the share of its thread, so that with
\* SharesDisjoint two threads search one header apart but for the end of a
\* launch, which may run past the share.
THEOREM SoloLaunchesInShare ==
    ASSUME Source = "solo", ~Governor
    PROVE  Spec => []LaunchesInShare
<1>1. SoloInv /\ PositionFits => LaunchesInShare
  BY DEF SoloInv, WindowInShare, PositionFits, LaunchesInShare
<1>. QED  BY <1>1, TypeInit, TypeStep, SoloInit, SoloStep, PositionInit, PositionStep,
             NoFlagsStep, PTL DEF Spec

\* gbxminer.cpp:2385 "we can't submit twice a block!": no thread scans on with
\* a header it has submitted a block for.
THEOREM SoloBlockOnce ==
    ASSUME Source = "solo"
    PROVE  Spec => []BlockOnce
<1>1. SoloInv => BlockOnce
  BY DEF SoloInv, SubmittedIsSpent, BlockOnce
<1>. QED  BY <1>1, SoloInvHolds, PTL
-----------------------------------------------------------------------------
(***************************************************************************)
(* A stratum pool.  A thread that has left the top of the loop has a job,  *)
(* and g_work never goes back to a header that a thread holds: so a        *)
(* restart flag raised after the scan was entered, where the thread clears *)
(* it, means that the header of the scan is gone, or about to be replaced  *)
(* after a repeated share, unless workio raises it late.                   *)
(***************************************************************************)

\* No thread gets past the test for a job without one.
JobInHand == \A t \in Threads : pc[t] # "top" => work[t].data # Blank

\* A flag raised during a scan says that its header is spent, or that it was
\* raised late.
RaisedIsSpent ==
    \A t \in Threads : pc[t] \in {"scan", "done"} /\ restart[t] => Spent(t) \/ late[t]

\* What a step does to the stage, the flag and the private copy of a thread
\* that is behind the test for a job.
LEMMA PastTheTest ==
    ASSUME TypeOK, NEW t \in Threads, [Next]_vars, pc'[t] # "top"
    PROVE  \/ pc[t] = "top" /\ TakeWork(t)
           \/ pc[t] # "top" /\ work'[t] = work[t]
<1>1. CASE NewJob \/ Disconnected \/ GovernorStep \/ TakeShare \/ RaiseNext \/ Deliver
  BY <1>1 DEF NewJob, Disconnected, GovernorStep, TakeShare, RaiseNext, Deliver
<1>2. ASSUME NEW u \in Threads, TakeWork(u), u # t
      PROVE  pc'[t] = pc[t] /\ work'[t] = work[t]
  BY <1>2 DEF TakeWork, CopyWork, TypeOK
<1>3. ASSUME NEW u \in Threads, Hold(u) PROVE pc[t] # "top" /\ work'[t] = work[t]
  BY <1>3 DEF Hold, TypeOK
<1>4. ASSUME NEW u \in Threads, StartScan(u) PROVE pc[t] # "top" /\ work'[t] = work[t]
  BY <1>4 DEF StartScan, TypeOK
<1>5. ASSUME NEW u \in Threads, Launch(u) PROVE pc[t] # "top" /\ work'[t] = work[t]
  <2>1. pc[u] = "scan" /\ UNCHANGED work
    BY <1>5 DEF Launch
  <2>2. \E p \in {"scan", "done"} : pc' = [pc EXCEPT ![u] = p]
    BY <1>5 DEF Launch, NothingFound, ValidFound, InvalidFound
  <2>. QED  BY <2>1, <2>2 DEF TypeOK
<1>6. ASSUME NEW u \in Threads, FinishScan(u) PROVE pc[t] # "top" /\ work'[t] = work[t]
  <2>1. pc' = [pc EXCEPT ![u] = "top"] /\ UNCHANGED work
    BY <1>6 DEF FinishScan
  <2>. QED  BY <2>1 DEF TypeOK
<1>7. CASE UNCHANGED vars
  BY <1>7 DEF vars
<1>8. ASSUME TakeWork(t) PROVE pc[t] = "top"
  BY <1>8 DEF TakeWork
<1>. QED  BY <1>1, <1>2, <1>3, <1>4, <1>5, <1>6, <1>7, <1>8 DEF Next

\* With a stratum pool every step but a job, a lost connection and a thread's
\* own request leaves the header of g_work alone, and none makes it the one a
\* thread holds; nor does one take the mark off a header that is used up.
LEMMA SpentStays ==
    ASSUME Source = "stratum", TypeOK, [Next]_vars, NEW t \in Threads,
           Spent(t), work[t].data # Blank, work'[t] = work[t]
    PROVE  Spent(t)'
<1>. Stratum
  BY DEF Stratum
<1>1. CASE Generate
  BY <1>1 DEF Generate, Fresh, Spent
<1>2. CASE UNCHANGED gwork /\ (expired => expired')
  BY <1>2 DEF Spent
<1>3. CASE Disconnected
  BY <1>3 DEF Disconnected, Spent
<1>4. CASE TakeShare \/ RaiseNext
  BY <1>4 DEF TakeShare, RaiseNext, Spent, shared
<1>5. ASSUME NEW u \in Threads, TakeWork(u)
      PROVE  Generate \/ (UNCHANGED gwork /\ (expired => expired'))
  BY <1>5 DEF TakeWork, Refresh, shared
<1>6. ASSUME NEW u \in Threads, Hold(u) \/ StartScan(u) \/ Launch(u)
      PROVE  UNCHANGED gwork /\ (expired => expired')
  BY <1>6 DEF Hold, StartScan, Launch, shared
<1>7. ASSUME NEW u \in Threads, FinishScan(u)
      PROVE  UNCHANGED gwork /\ (expired => expired')
  BY <1>7 DEF FinishScan, SpendWork
<1>8. CASE UNCHANGED vars
  BY <1>8 DEF vars, shared, Spent
<1>. QED  BY <1>1, <1>2, <1>3, <1>4, <1>5, <1>6, <1>7, <1>8
          DEF Next, NewJob, GovernorStep, Deliver, shared

\* Who raises and who clears a flag, without the governor.
LEMMA FlagsAndStages ==
    ASSUME Source = "stratum", ~Governor, TypeOK, [Next]_vars,
           NEW t \in Threads, pc'[t] \in {"scan", "done"}, restart'[t]
    PROVE  \/ pc[t] \in {"scan", "done"} /\ restart[t] /\ late'[t] = late[t]
           \/ NewJob \/ Disconnected
           \/ late'[t] = ~Spent(t) /\ UNCHANGED <<shared, work>>
<1>1. CASE GovernorStep \/ Deliver
  BY <1>1 DEF GovernorStep, Deliver, Stratum
<1>7. CASE TakeShare
  BY <1>7 DEF TakeShare
<1>8. CASE RaiseNext
  <2>1. /\ restart' = [restart EXCEPT ![raising] = TRUE]
        /\ late' = [late EXCEPT ![raising] = ~Spent(raising)]
        /\ UNCHANGED <<shared, work, pc>>
    BY <1>8 DEF RaiseNext
  <2>2. CASE t = raising
    <3>1. late'[t] = ~Spent(t)
      BY <2>1, <2>2, Zenon DEF TypeOK
    <3>. QED  BY <2>1, <3>1
  <2>3. CASE t # raising
    <3>1. restart'[t] = restart[t] /\ late'[t] = late[t]
      BY <2>1, <2>3, Zenon DEF TypeOK
    <3>. QED  BY <2>1, <3>1
  <2>. QED  BY <2>2, <2>3
<1>2. ASSUME NEW u \in Threads, TakeWork(u) \/ Hold(u)
      PROVE  pc[t] \in {"scan", "done"} /\ restart[t] /\ late'[t] = late[t]
  BY <1>2 DEF TakeWork, Hold, TypeOK, repeat
<1>3. ASSUME NEW u \in Threads, StartScan(u)
      PROVE  pc[t] \in {"scan", "done"} /\ restart[t] /\ late'[t] = late[t]
  <2>1. /\ restart' = [restart EXCEPT ![u] = FALSE] /\ pc' = [pc EXCEPT ![u] = "scan"]
        /\ late' = [late EXCEPT ![u] = FALSE]
    BY <1>3 DEF StartScan, ClearRestart
  <2>2. t # u
    BY <2>1, Zenon DEF TypeOK
  <2>. QED  BY <2>1, <2>2 DEF TypeOK
<1>4. ASSUME NEW u \in Threads, Launch(u)
      PROVE  pc[t] \in {"scan", "done"} /\ restart[t] /\ late'[t] = late[t]
  <2>1. pc[u] = "scan" /\ UNCHANGED <<restart, late>>
    BY <1>4 DEF Launch, repeat
  <2>2. \E p \in {"scan", "done"} : pc' = [pc EXCEPT ![u] = p]
    BY <1>4 DEF Launch, NothingFound, ValidFound, InvalidFound
  <2>. QED  BY <2>1, <2>2 DEF TypeOK
<1>5. ASSUME NEW u \in Threads, FinishScan(u)
      PROVE  pc[t] \in {"scan", "done"} /\ restart[t] /\ late'[t] = late[t]
  <2>1. pc' = [pc EXCEPT ![u] = "top"] /\ UNCHANGED <<restart, late>>
    BY <1>5 DEF FinishScan, repeat
  <2>. QED  BY <2>1 DEF TypeOK
<1>6. CASE UNCHANGED vars
  BY <1>6 DEF vars, repeat
<1>. QED  BY <1>1, <1>2, <1>3, <1>4, <1>5, <1>6, <1>7, <1>8 DEF Next

\* The test for a job holds behind it, with or without the governor.
LEMMA JobInit == Init => JobInHand
  BY DEF Init, JobInHand

LEMMA JobStep ==
    ASSUME Source = "stratum"
    PROVE  TypeOK /\ JobInHand /\ [Next]_vars => JobInHand'
<1>. SUFFICES ASSUME TypeOK, JobInHand, [Next]_vars,
                     NEW t \in Threads, pc'[t] # "top"
              PROVE  work'[t].data # Blank
  BY DEF JobInHand
<1>1. CASE TakeWork(t)
  BY <1>1 DEF TakeWork, MayScan, Stratum, TypeOK
<1>2. CASE pc[t] # "top" /\ work'[t] = work[t]
  BY <1>2 DEF JobInHand
<1>. QED  BY <1>1, <1>2, PastTheTest

LEMMA FlagInit == Init => RaisedIsSpent
  BY DEF Init, RaisedIsSpent

LEMMA FlagStep ==
    ASSUME Source = "stratum", ~Governor
    PROVE  TypeOK /\ JobInHand /\ RaisedIsSpent /\ [Next]_vars => RaisedIsSpent'
<1>. SUFFICES ASSUME TypeOK, JobInHand, RaisedIsSpent, [Next]_vars, NEW t \in Threads,
                     pc'[t] \in {"scan", "done"}, restart'[t]
              PROVE  Spent(t)' \/ late'[t]
  BY DEF RaisedIsSpent
<1>1. CASE pc[t] \in {"scan", "done"} /\ restart[t] /\ late'[t] = late[t]
  <2>1. work'[t] = work[t]
    BY <1>1, PastTheTest
  <2>2. work[t].data # Blank /\ (Spent(t) \/ late[t])
    BY <1>1 DEF JobInHand, RaisedIsSpent
  <2>. QED  BY <1>1, <2>1, <2>2, SpentStays
<1>2. CASE NewJob
  BY <1>2 DEF NewJob, Generate, Fresh, Spent
<1>3. CASE Disconnected
  BY <1>3 DEF Disconnected, Spent
<1>4. CASE late'[t] = ~Spent(t) /\ UNCHANGED <<shared, work>>
  BY <1>4 DEF Spent, shared
<1>. QED  BY <1>1, <1>2, <1>3, <1>4, FlagsAndStages

\* The test of gbxminer.cpp:2255 drops a result only if g_work no longer has
\* the header it was found for, or the header is used up (after a repeated
\* share), or workio was overtaken between using it up and raising the flag.
THEOREM StratumDropsOnlySpent ==
    ASSUME Source = "stratum", ~Governor
    PROVE  Spec => []DropsOnlySpent
<1>1. RaisedIsSpent => DropsOnlySpent
  BY DEF RaisedIsSpent, DropsOnlySpent, Drops
<1>. QED  BY <1>1, TypeInit, TypeStep, JobInit, JobStep, FlagInit, FlagStep, PTL
          DEF Spec
=============================================================================
