------------------------------ MODULE MinerLoop ------------------------------
(***************************************************************************)
(* The mining loop of gbxminer.cpp.  Every miner thread keeps a private    *)
(* copy of the shared work g_work, a nonce position and the end of its     *)
(* share of the nonce range, scans one window after another and submits    *)
(* what it finds; another thread (stratum, workio, governor) changes       *)
(* g_work or raises the restart flags while a scan runs.                   *)
(*                                                                         *)
(* A header stands for the 76 bytes of work.data before the nonce, Blank   *)
(* for zeroed ones; a height stands for block height and share target.     *)
(* Nonces are uint32_t with MaxNonce for UINT32_MAX.  The algorithm is one *)
(* with the default layout of the header (sha256d).                        *)
(***************************************************************************)
EXTENDS Naturals, Sequences, FiniteSets

CONSTANTS N,          \* opt_n_threads
          MaxNonce,   \* UINT32_MAX
          EndSlack,   \* 256 of "never let small ranges at end"
          LowWater,   \* 0x100 of the refresh test
          TailSlack,  \* 64 of "prevent low scan ranges on next loop"
          Spans,      \* the values max64 can take
          Throughput, \* nonces of one kernel launch
          Source,     \* "solo", "getwork" (no longpoll) or "stratum"
          Governor,   \* does the thermal governor run?
          Rejecting,  \* threads whose kernel may find what the host refuses
          Headers, Blank,
          MaxHeight,  \* bound on the block height
          MaxQueue    \* bound on the submissions waiting for workio

Threads == 0..N-1
Quota == MaxNonce \div N

ASSUME LoopAssumption ==
    /\ N \in Nat \ {0}
    /\ {MaxNonce, EndSlack, LowWater, TailSlack, MaxHeight, MaxQueue} \subseteq Nat
    /\ Throughput \in Nat \ {0}
    /\ Spans \subseteq Nat \ {0}
    /\ Source \in {"solo", "getwork", "stratum"}
    /\ Governor \in BOOLEAN
    /\ Rejecting \subseteq Threads
    /\ Blank \notin Headers

\* The nonce range is large against the number of threads.
ASSUME RangeAssumption == Quota > N + LowWater /\ Quota + N > EndSlack + 1

VARIABLES gwork,     \* g_work: the header to mine and its height
          expired,   \* g_work_time = 0
          heightOf,  \* the height a getwork node made a header for
          work,      \* the private copies
          nonce,     \* nonceptr[0]
          end,       \* end_nonce
          max,       \* max_nonce of the running scan
          launch,    \* throughput of the running scan
          inited,    \* the kernel's init[thr_id]
          restart,   \* work_restart[].restart
          pc,        \* "top", "ready" (work taken), "scan" or "done"
          found,     \* how many nonces the last scan found
          subq,      \* submissions on the queue of workio
          raising,   \* workio after a repeated share: the thread whose restart
                     \* flag is next, N when it raises none
          late,      \* history: did workio raise the flag after the work it
                     \* had used up was replaced?
          submitted, \* history, solo: did the thread submit its present header?
          delivered  \* history: height of the last header sent to a getwork
                     \* node, and the newest height known then

shared == <<gwork, expired, heightOf>>
scanning == <<max, launch, inited, found>>
repeat == <<raising, late>>
vars == <<shared, work, nonce, end, scanning, restart, pc, subq, submitted, delivered, repeat>>

Start(t) == Quota * t
FirstEnd(t) == Quota * (t + 1) - (t + 1)

\* Nonces are uint32_t.
Wrap(n) == n % (MaxNonce + 1)
Stratum == Source = "stratum"

Work == [data : Headers \union {Blank}, height : 0..MaxHeight]

Init == /\ gwork = [data |-> Blank, height |-> 0]
        /\ expired = TRUE
        /\ heightOf = [d \in Headers |-> 0]
        /\ work = [t \in Threads |-> [data |-> Blank, height |-> 0]]
        /\ nonce = [t \in Threads |-> 0]
        /\ end = [t \in Threads |-> FirstEnd(t)]
        /\ max = [t \in Threads |-> 0]
        /\ launch = [t \in Threads |-> 0]
        /\ inited = [t \in Threads |-> FALSE]
        /\ restart = [t \in Threads |-> FALSE]
        /\ pc = [t \in Threads |-> "top"]
        /\ found = [t \in Threads |-> 0]
        /\ subq = << >>
        /\ submitted = [t \in Threads |-> FALSE]
        /\ delivered = [made |-> 0, newest |-> 0]
        /\ raising = N
        /\ late = [t \in Threads |-> FALSE]
-----------------------------------------------------------------------------
\* A header nobody holds any more stands for a header never seen before.
Fresh(d) == d # gwork.data /\ \A t \in Threads : work[t].data # d

\* g_work receives a header it never had, at the same or the next height.  A
\* getwork node is asked for the height after the header.
Generate == \E d \in Headers, h \in 1..MaxHeight, c \in 1..MaxHeight :
               /\ Fresh(d)
               /\ h \in {gwork.height, gwork.height + 1}
               /\ c = h \/ (Source = "getwork" /\ c > h)
               /\ gwork' = [data |-> d, height |-> c]
               /\ heightOf' = IF Source = "getwork"
                                THEN [heightOf EXCEPT ![d] = h] ELSE heightOf
               /\ expired' = FALSE

RestartThreads == restart' = [t \in Threads |-> TRUE]

\* The stratum thread installs a new job; one that is not clean leaves the
\* scans alone.
NewJob == /\ Stratum
          /\ Generate
          /\ RestartThreads \/ UNCHANGED restart
          /\ UNCHANGED <<work, nonce, end, scanning, pc, subq, submitted, delivered, repeat>>

\* The stratum thread has lost its connection: no work until the next job.
Disconnected == /\ Stratum
                /\ gwork' = [gwork EXCEPT !.data = Blank]
                /\ expired' = TRUE
                /\ RestartThreads
                /\ UNCHANGED <<heightOf, work, nonce, end, scanning, pc, subq, submitted, delivered, repeat>>

\* gov_throttle and gov_restore, seen from the mining loop.
GovernorStep == /\ Governor
                /\ RestartThreads
                /\ UNCHANGED <<shared, work, nonce, end, scanning, pc, subq, submitted, delivered, repeat>>

\* Mutant: the end of the range is noticed one nonce late.
RefreshPastEnd(t) == expired \/ nonce[t] > end[t]

\* Must, and may, the thread have g_work replaced before it copies it?  With
\* a stratum pool at the end of its range or when the job is opt_scantime old,
\* otherwise near the end of its range or when the work has aged.
MustRefresh(t) == IF Stratum THEN nonce[t] >= end[t]
                  ELSE expired \/ nonce[t] >= end[t] - LowWater

\* stratum_gen_work without a job leaves g_work alone, a getwork node may
\* answer with the header it gave before.
Refresh == \/ (Stratum => gwork.data # Blank) /\ Generate
           \/ Stratum /\ gwork.data = Blank /\ UNCHANGED shared
           \/ /\ Source = "getwork" /\ gwork.data # Blank
              /\ expired' = FALSE
              /\ UNCHANGED <<gwork, heightOf>>

\* Mutant: a new header is noticed only together with a new height.
CopyHeightOnly(t) == LET g == gwork' IN
    IF g.height # work[t].height
    THEN /\ work' = [work EXCEPT ![t].height = g.height]
         /\ UNCHANGED nonce
    ELSE IF work[t].data = Blank /\ g.data # Blank
    THEN /\ work' = [work EXCEPT ![t] = g]
         /\ nonce' = [nonce EXCEPT ![t] = Start(t)]
    ELSE /\ nonce' = [nonce EXCEPT ![t] = Wrap(@ + 1)]
         /\ UNCHANGED work

\* The copy: a new height or target is taken over alone, else a new header
\* with everything that belongs to it, else the scan goes on one nonce later.
CopyWork(t) == LET g == gwork' IN
    IF Source # "solo" /\ g.height # work[t].height
    THEN /\ work' = [work EXCEPT ![t].height = g.height]
         /\ UNCHANGED nonce
    ELSE IF g.data # work[t].data
    THEN /\ work' = [work EXCEPT ![t] = g]
         /\ nonce' = [nonce EXCEPT ![t] = Start(t)]
    ELSE /\ nonce' = [nonce EXCEPT ![t] = Wrap(@ + 1)]
         /\ UNCHANGED work

\* With a stratum pool a thread without a job goes back to the top.
MayScan(w) == Stratum => w.data # Blank

\* The part of the loop under g_work_lock, and the test that keeps a thread
\* from scanning before a stratum job is there.
TakeWork(t) == /\ pc[t] = "top"
               /\ \/ Refresh
                  \/ ~MustRefresh(t) /\ UNCHANGED shared
               /\ CopyWork(t)
               /\ submitted' = [submitted EXCEPT ![t] = @ /\ work'[t].data = work[t].data]
               /\ pc' = [pc EXCEPT ![t] = IF MayScan(work'[t]) THEN "ready" ELSE "top"]
               /\ UNCHANGED <<end, scanning, restart, subq, delivered, repeat>>

\* Conditional mining, time and share limits send the thread back; waiting
\* for better conditions frees the kernel's buffers.
Hold(t) == /\ pc[t] = "ready"
           /\ pc' = [pc EXCEPT ![t] = "top"]
           /\ \E freed \in BOOLEAN :
                 inited' = [inited EXCEPT ![t] = @ /\ ~freed]
           /\ UNCHANGED <<shared, work, nonce, end, max, launch, found, restart, subq, submitted, delivered, repeat>>
-----------------------------------------------------------------------------
\* Mutant: the last thread's rounding is applied to every thread.
ClampAll(t) == MaxNonce

\* end_nonce as the window computation leaves it.
ClampedEnd(t) == IF end[t] >= MaxNonce - EndSlack THEN MaxNonce ELSE end[t]

\* Mutant: the flag of the thread stays raised.
KeepRestart(t) == UNCHANGED restart

ClearRestart(t) == restart' = [restart EXCEPT ![t] = FALSE]

\* The restart flag is cleared, a window is computed and the scan is entered.
StartScan(t) ==
    /\ pc[t] = "ready"
    /\ ClearRestart(t)
    /\ \E span \in Spans :
         LET e == ClampedEnd(t)
             m == IF span + nonce[t] >= e THEN e ELSE span + nonce[t]
             astray == nonce[t] > m
             last == IF astray THEN MaxNonce ELSE m
             room == last - nonce[t]
         IN /\ end' = [end EXCEPT ![t] = IF astray THEN MaxNonce ELSE e]
            /\ max' = [max EXCEPT ![t] = last]
            /\ launch' = [launch EXCEPT ![t] =
                             IF inited[t] /\ room < Throughput THEN room ELSE Throughput]
    /\ inited' = [inited EXCEPT ![t] = TRUE]
    /\ found' = [found EXCEPT ![t] = 0]
    /\ pc' = [pc EXCEPT ![t] = "scan"]
    /\ late' = [late EXCEPT ![t] = FALSE]
    /\ UNCHANGED <<shared, work, nonce, subq, submitted, delivered, raising>>

\* The nonces of one launch; UINT32_MAX means "no result" and is no result.
Launched(t) == {Wrap(nonce[t] + k) : k \in 0..launch[t]-1} \ {MaxNonce}

\* scanhash after a launch without a result: on to the next one, unless the
\* window is done or the thread is to restart.
NothingFound(t) ==
    /\ UNCHANGED found
    /\ IF launch[t] + nonce[t] >= max[t]
       THEN /\ nonce' = [nonce EXCEPT ![t] = max[t]]
            /\ pc' = [pc EXCEPT ![t] = "done"]
       ELSE /\ nonce' = [nonce EXCEPT ![t] = @ + launch[t]]
            /\ pc' = [pc EXCEPT ![t] = IF restart[t] THEN "done" ELSE "scan"]

\* One or two nonces whose hash meets the target; a second one that is zero
\* counts as none.
ValidFound(t) ==
    /\ Len(subq) < MaxQueue
    /\ \E f, g \in Launched(t) :
          /\ found' = [found EXCEPT ![t] = IF f = g \/ g = 0 THEN 1 ELSE 2]
          /\ nonce' = [nonce EXCEPT ![t] = Wrap((IF f > g THEN f ELSE g) + 1)]
    /\ pc' = [pc EXCEPT ![t] = "done"]

\* A nonce the host's check refuses: the end of the window is not looked at.
InvalidFound(t) ==
    /\ t \in Rejecting
    /\ UNCHANGED found
    /\ \E f \in Launched(t) : nonce' = [nonce EXCEPT ![t] = Wrap(f + 1)]
    /\ pc' = [pc EXCEPT ![t] = IF restart[t] THEN "done" ELSE "scan"]

Launch(t) == /\ pc[t] = "scan"
             /\ NothingFound(t) \/ ValidFound(t) \/ InvalidFound(t)
             /\ UNCHANGED <<shared, work, end, max, launch, inited, restart, subq, submitted, delivered, repeat>>

\* Mutant: the work a nonce was found for stays in use.
KeepWork(t) == UNCHANGED expired

\* "prevent stale work in solo": a found nonce uses the work up.
SpendWork(t) == expired' = (expired \/ (~Stratum /\ found[t] > 0))

\* What goes to workio: both results with a stratum pool, else the first.  The
\* blocks of solo mining are not followed up here.
Submissions(t) ==
    LET sub == [made |-> IF work[t].data = Blank THEN 0 ELSE heightOf[work[t].data],
                claimed |-> work[t].height]
    IN IF Source = "solo" \/ found[t] = 0 THEN << >>
       ELSE IF Stratum /\ found[t] = 2 THEN <<sub, sub>> ELSE <<sub>>

\* After the scan: a raised restart flag drops the results, otherwise they are
\* submitted.  In solo and with plain getwork the loop then asks for fresh work.
FinishScan(t) ==
    /\ pc[t] = "done"
    /\ pc' = [pc EXCEPT ![t] = "top"]
    /\ found' = [found EXCEPT ![t] = 0]
    /\ max' = [max EXCEPT ![t] = 0]
    /\ launch' = [launch EXCEPT ![t] = 0]
    /\ IF restart[t] THEN UNCHANGED <<subq, submitted, expired, nonce>>
       ELSE /\ nonce' = [nonce EXCEPT ![t] =
                  IF found[t] <= 1 /\ @ > MaxNonce - TailSlack THEN MaxNonce ELSE @]
            /\ submitted' = [submitted EXCEPT ![t] = @ \/ (Source = "solo" /\ found[t] > 0)]
            /\ SpendWork(t)
            /\ subq' = subq \o Submissions(t)
    /\ UNCHANGED <<gwork, heightOf, work, end, inited, restart, delivered, repeat>>

\* A header that has been replaced, or is to be replaced by whoever takes work.
Spent(t) == work[t].data # gwork.data \/ expired

\* Workio takes a share for a stratum pool.  One that is not of an old block may
\* repeat an earlier one (which do is left open): "prevent useless computing on
\* some pools" uses the work up and tells every scan to restart.
TakeShare == /\ Stratum
             /\ raising = N
             /\ subq # << >>
             /\ subq' = Tail(subq)
             /\ \/ UNCHANGED <<expired, raising>>
                \/ Head(subq).claimed \in {0} \union gwork.height..MaxHeight
                   /\ expired' = TRUE
                   /\ raising' = 0
             /\ UNCHANGED <<gwork, heightOf, work, nonce, end, scanning, restart, pc, submitted,
                            delivered, late>>

\* The flags are raised one by one and without g_work_lock, so another thread
\* may have replaced the work by then.  (Under the lock, in NewJob, or while no
\* thread can make work, in Disconnected, RestartThreads may be one step.)
RaiseNext == /\ Stratum
             /\ raising < N
             /\ raising' = raising + 1
             /\ restart' = [restart EXCEPT ![raising] = TRUE]
             /\ late' = [late EXCEPT ![raising] = ~Spent(raising)]
             /\ UNCHANGED <<shared, work, nonce, end, scanning, pc, subq, submitted, delivered>>

\* Workio takes a submission.  A getwork node gets it unless its height is
\* below that of g_work, or below that of the template asked for now (which
\* g_work takes over).
Deliver == /\ ~Stratum
           /\ subq # << >>
           /\ subq' = Tail(subq)
           /\ \E h \in gwork.height..MaxHeight :
                 LET claimed == Head(subq).claimed
                     newest == IF claimed < gwork.height THEN gwork.height ELSE h
                 IN /\ gwork' = [gwork EXCEPT !.height = newest]
                    /\ delivered' = IF claimed < newest THEN delivered
                          ELSE [made |-> Head(subq).made, newest |-> newest]
           /\ UNCHANGED <<expired, heightOf, work, nonce, end, scanning, restart, pc, submitted, repeat>>

Next == \/ NewJob \/ Disconnected \/ GovernorStep \/ TakeShare \/ RaiseNext \/ Deliver
        \/ \E t \in Threads : \/ TakeWork(t) \/ Hold(t) \/ StartScan(t)
                              \/ Launch(t) \/ FinishScan(t)

Spec == Init /\ [][Next]_vars

\* Threads run, locks are passed on, kernels come back.
Fairness == \A t \in Threads : /\ WF_vars(TakeWork(t)) /\ WF_vars(StartScan(t))
                               /\ WF_vars(Launch(t)) /\ WF_vars(FinishScan(t))

FairSpec == Spec /\ Fairness
-----------------------------------------------------------------------------
\* The types of the variables of the loop.
TypeOK ==
    /\ gwork \in Work
    /\ expired \in BOOLEAN
    /\ heightOf \in [Headers -> 0..MaxHeight]
    /\ work \in [Threads -> Work]
    /\ {nonce, end, max} \subseteq [Threads -> 0..MaxNonce]
    /\ launch \in [Threads -> 0..Throughput]
    /\ inited \in [Threads -> BOOLEAN]
    /\ restart \in [Threads -> BOOLEAN]
    /\ pc \in [Threads -> {"top", "ready", "scan", "done"}]
    /\ found \in [Threads -> 0..2]
    /\ subq \in Seq([made : 0..MaxHeight, claimed : 0..MaxHeight])
    /\ submitted \in [Threads -> BOOLEAN]
    /\ delivered \in [made : 0..MaxHeight, newest : 0..MaxHeight]
    /\ raising \in 0..N
    /\ late \in [Threads -> BOOLEAN]

\* The end of a thread's share of the range; the last share is rounded up.
ShareEnd(t) == IF FirstEnd(t) >= MaxNonce - EndSlack THEN MaxNonce ELSE FirstEnd(t)

\* gbxminer.cpp:2140 "should not happen": a thread about to compute a window
\* stands behind the end of its share, and is sent to the end of the range.
StartsBeforeEnd == \A t \in Threads : pc[t] = "ready" => nonce[t] <= ClampedEnd(t)

\* Two threads search one header apart, but for the end of a launch: its size
\* is set once for a scan, so the last one may run past the window, and with it
\* into the share of the next thread; but every launch begins in the share of
\* its thread, whatever the scans, the nonces found and the clamps before it
\* did to nonceptr and end_nonce.  (A kernel whose results the host refuses is
\* led on from each of them, without a look at the end of the window.)
LaunchesInShare ==
    \A t \in Threads \ Rejecting : pc[t] = "scan" =>
        Start(t) <= nonce[t] /\ nonce[t] <= max[t] /\ max[t] <= ShareEnd(t)

\* A result that is found with the flag of its thread raised is dropped.
Drops(t) == pc[t] = "done" /\ found[t] > 0 /\ restart[t]

\* The work of a result that is dropped is no longer that of g_work, or used
\* up: whoever takes work next has it replaced.  The exception is a flag that
\* workio raises for a repeated share after the work it has used up (978) is
\* replaced already.
DropsOnlySpent == \A t \in Threads : Drops(t) => Spent(t) \/ late[t]

\* The same without the exception; it fails.
AlwaysSpent == \A t \in Threads : Drops(t) => Spent(t)

\* gbxminer.cpp:2385 "we can't submit twice a block!": in solo a thread never
\* scans again the header it has submitted a block for, whichever thread
\* refreshes g_work in between.
BlockOnce == Source = "solo" =>
    \A t \in Threads : pc[t] = "scan" => ~submitted[t]

\* gbxminer.cpp:901 "discard if a newer block was received".
OldBlocksDiscarded == delivered.made >= delivered.newest

\* A thread leaves a header that g_work no longer holds.
CatchesUp ==
    \A t \in Threads, d \in Headers :
        (work[t].data = d /\ gwork.data # d) ~> (work[t].data # d)
=============================================================================
