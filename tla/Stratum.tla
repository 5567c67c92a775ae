------------------------------- MODULE Stratum -------------------------------
(***************************************************************************)
(* One stratum pool, from the session to the share: the stratum thread     *)
(* connects, logs in, handles the pool's lines and installs their jobs in  *)
(* g_work; miner threads make further work from the job in hand and find   *)
(* nonces; the workio thread weeds out stale and repeated shares and sends *)
(* the others, keeping the log of hashlog.cpp.                             *)
(*                                                                         *)
(* A job id is its number in the order the pool makes jobs, 0 none; its    *)
(* block and ntime are constants.  A work holds what makes the header      *)
(* (xnonce1, job, xnonce2), the difficulty and height it is searched and   *)
(* submitted with, and whether data[0] is zero.  The restart flags are in  *)
(* MinerLoop: here a scan may end at any time.  Restarting a connection    *)
(* never fails for good (opt_retries < 0).  The log is a std::map that     *)
(* workio and stratum thread use without a lock; here each use of it is    *)
(* one step, what two at once may do to it is left out.                    *)
(***************************************************************************)
EXTENDS Naturals, Sequences, FiniteSets

CONSTANTS Miners,     \* the miner threads
          MaxJob,     \* bound on the jobs the pool makes
          HeightOf, NTimeOf, \* block and ntime of a job
          Xnonce1s,   \* the values of xnonce1 the pool gives
          MaxXnonce2, \* largest value of xnonce2
          Diffs,      \* the difficulties the pool sets
          Nonces,     \* the nonces a scan may find
          MaxConns,   \* bound on the connections made
          MaxSubmits  \* bound on the shares submitted

Jobs == 1..MaxJob
FirstDiff == 1 \* next_diff after subscribing
Free == "free"

ASSUME StratumAssumption ==
    /\ {MaxJob, MaxXnonce2, MaxConns, MaxSubmits} \subseteq Nat
    /\ HeightOf \in [Jobs -> Nat]
    /\ NTimeOf \in [Jobs -> Nat]
    /\ Nonces \subseteq Nat
    /\ Xnonce1s # {}
    /\ FirstDiff \in Diffs /\ 0 \notin Diffs
    /\ Free \notin Miners

VARIABLES made,      \* the pool: jobs made so far
          due,       \* the pool: difficulty of each job, 0 when not yet sent
          conns,     \* connections made
          conn,      \* the socket: "none", "up" or "dead" (lost, not noticed)
          xnonce1, nextDiff, job, \* of the stratum context
          pcs,       \* stratum thread: "down", "connect", "subscribe",
                     \* "authorize", "test", "install" or "recv"
          gwork, expired, \* g_work, g_work_time = 0
          glock,     \* g_work_lock, where a miner holds it across two steps
          work, pc,  \* miner threads: "mine", or in stratum_gen_work "gen" (before
                     \* stratum_work_lock is taken) or "target" (after)
          subq, submits, \* shares waiting for workio, and how many so far
          pcw,       \* workio: "idle", "send" or "remember"
          log,       \* tlastshares: ntime and nonce, and whether older than
                     \* LOG_PURGE_TIMEOUT
          seen,      \* history: shares the pool got within LOG_PURGE_TIMEOUT
          used       \* history: headers made in this connection

pool == <<made, due>>
session == <<conns, conn, xnonce1, nextDiff>>
shared == <<gwork, expired>>
mining == <<glock, work, pc>>
upstream == <<subq, submits, pcw, log, seen>>
vars == <<pool, session, job, pcs, shared, mining, upstream, used>>

Header == [xnonce1 : Xnonce1s, id : Jobs \union {0}, xnonce2 : 0..MaxXnonce2]
\* Whether a work is torn is history: its target was not that of its job when
\* stratum_gen_work set it.
Work == [h : Header, blank : BOOLEAN, diff : Diffs \union {0}, height : Nat, torn : BOOLEAN]

NoHeader == [xnonce1 |-> CHOOSE x \in Xnonce1s : TRUE, id |-> 0, xnonce2 |-> 0]
NoWork == [h |-> NoHeader, blank |-> TRUE, diff |-> FirstDiff, height |-> 0,
           torn |-> FALSE]
NoJob == [h |-> NoHeader, diff |-> 0, clean |-> FALSE]

Init == /\ made = 0 /\ due = [j \in Jobs |-> 0]
        /\ conns = 0 /\ conn = "none"
        /\ xnonce1 = NoHeader.xnonce1 /\ nextDiff = FirstDiff
        /\ job = NoJob
        /\ pcs = "down"
        /\ gwork = NoWork /\ expired = TRUE
        /\ glock = Free
        /\ work = [t \in Miners |-> NoWork]
        /\ pc = [t \in Miners |-> "mine"]
        /\ subq = << >> /\ submits = 0 /\ pcw = "idle"
        /\ log = {} /\ seen = {} /\ used = {}
-----------------------------------------------------------------------------
\* Miners must not go on with the work of a connection that is gone; the job
\* id stays.
BlankWork == /\ gwork' = [gwork EXCEPT !.blank = TRUE]
             /\ expired' = TRUE

\* Top of the connecting loop.
Down == /\ pcs = "down"
        /\ glock = Free
        /\ BlankWork
        /\ pcs' = "connect"
        /\ UNCHANGED <<pool, session, job, mining, upstream, used>>

Connect == /\ pcs = "connect"
           /\ conns < MaxConns
           /\ conns' = conns + 1
           /\ conn' = "up"
           /\ pcs' = "subscribe"
           /\ UNCHANGED <<pool, xnonce1, nextDiff, job, shared, mining, upstream, used>>

\* The pool cannot be reached: pause, then from the top.
ConnectFails == /\ pcs = "connect"
                /\ pcs' = "down"
                /\ UNCHANGED <<pool, session, job, shared, mining, upstream, used>>

\* The answer to mining.subscribe; a pool may give the xnonce1 of before.
Subscribe == /\ pcs = "subscribe" /\ conn = "up"
             /\ xnonce1' \in Xnonce1s
             /\ nextDiff' = FirstDiff
             /\ pcs' = "authorize"
             /\ UNCHANGED <<pool, conns, conn, job, shared, mining, upstream, used>>

Authorize == /\ pcs = "authorize" /\ conn = "up"
             /\ pcs' = "test"
             /\ UNCHANGED <<pool, session, job, shared, mining, upstream, used>>

\* Mutant: the curl handle is kept, so the thread does not connect again.
DisconnectKeepCurl == /\ conn' = "dead"
                      /\ job' = NoJob
                      /\ used' = {}
                      /\ pcs' = "test"
                      /\ UNCHANGED <<pool, conns, xnonce1, nextDiff, shared, mining, upstream>>

\* stratum_disconnect: the socket is closed and the job freed.
Disconnect == /\ conn' = "none"
              /\ job' = NoJob
              /\ used' = {}
              /\ pcs' = "down"
              /\ UNCHANGED <<pool, conns, xnonce1, nextDiff, shared, mining, upstream>>

\* The connection breaks.  The last one stays.
Lose == /\ conn = "up" /\ conns < MaxConns
        /\ conn' = "dead"
        /\ UNCHANGED <<pool, conns, xnonce1, nextDiff, job, pcs, shared, mining, upstream, used>>

\* No line within opt_timeout, a login refused, or the connection lost.
Interrupted == /\ pcs \in {"subscribe", "authorize", "recv"}
               /\ conn = "dead" \/ conns < MaxConns
               /\ Disconnect
-----------------------------------------------------------------------------
\* The pool's lines, handled by stratum_handle_method while the thread waits
\* for the answer to mining.authorize or in the main loop.
Listening == pcs \in {"authorize", "recv"} /\ conn = "up"

AfterLine == pcs' = IF pcs = "recv" THEN "test" ELSE pcs

\* Mutant: xnonce2 starts again with every notify.
ZeroXnonce2(j) == 0

\* xnonce2 starts again with a job id that is new.
FirstXnonce2(j) == IF job.h.id = j THEN job.h.xnonce2 ELSE 0

\* stratum_notify.  A pool makes jobs one after another, may send the last one
\* again, and keeps to the difficulty it gave a job.
Notify == /\ Listening
          /\ \E j \in {made, made + 1} \intersect Jobs, c \in BOOLEAN :
                /\ due[j] \in {0, nextDiff}
                /\ made' = j
                /\ due' = [due EXCEPT ![j] = nextDiff]
                /\ job' = [h |-> [xnonce1 |-> xnonce1, id |-> j,
                                  xnonce2 |-> FirstXnonce2(j)],
                           diff |-> nextDiff, clean |-> c]
          /\ AfterLine
          /\ UNCHANGED <<session, shared, mining, upstream, used>>

\* stratum_set_difficulty: for the jobs to come.
SetDifficulty == /\ Listening
                 /\ nextDiff' \in Diffs \ {nextDiff}
                 /\ AfterLine
                 /\ UNCHANGED <<pool, conns, conn, xnonce1, job, shared, mining, upstream, used>>

\* mining.set_extranonce: the job in hand keeps the xnonce1 in its coinbase.
SetExtranonce == /\ Listening
                 /\ xnonce1' \in Xnonce1s \ {xnonce1}
                 /\ AfterLine
                 /\ UNCHANGED <<pool, conns, conn, nextDiff, job, shared, mining, upstream, used>>

\* client.reconnect; the thread connects to the URL of its pool again.
ReconnectAsked == Listening /\ conns < MaxConns /\ Disconnect

\* Mutant: only a job id that g_work does not have is new.
NewJobId == job.h.id # 0 /\ job.h.id # gwork.h.id

\* The test for a new job, without a lock.
NewJob == job.h.id # 0 /\ (expired \/ job.h.id # gwork.h.id)

TestJob == /\ pcs = "test"
           /\ pcs' = IF NewJob THEN "install" ELSE "recv"
           /\ UNCHANGED <<pool, session, job, shared, mining, upstream, used>>

NextXnonce2(x) == (x + 1) % (MaxXnonce2 + 1)

\* The part of stratum_gen_work under stratum_work_lock: the next header of the
\* job goes into g_work.
GenHeader == LET next == NextXnonce2(job.h.xnonce2) IN
    /\ job' = [job EXCEPT !.h.xnonce2 = next]
    /\ used' = IF next = 0 THEN {} ELSE used \union {job.h}

HalfMade == [gwork EXCEPT !.h = job.h, !.blank = FALSE,
                          !.height = HeightOf[job.h.id], !.torn = TRUE]

\* The rest of it, without the lock: the target of the job there is now.
Targeted(g) == [g EXCEPT !.diff = job.diff, !.torn = job.h.id # g.h.id]

\* hashlog_purge_old.
PurgeOld == {e \in log : ~e.old}

InstallJob == /\ pcs = "install"
              /\ glock = Free
              /\ GenHeader
              /\ gwork' = Targeted(HalfMade) \* only this thread changes the job
              /\ expired' = FALSE
              /\ log' = IF job.clean THEN PurgeOld ELSE log
              /\ pcs' = "recv"
              /\ UNCHANGED <<pool, session, mining, subq, submits, pcw, seen>>
-----------------------------------------------------------------------------
\* A height or difficulty of g_work that is new is taken over alone, the
\* header with everything else only when they are known.
Copied(w, g) == IF g.height # w.height \/ g.diff # w.diff
                THEN [w EXCEPT !.height = g.height, !.diff = g.diff, !.torn = g.torn]
                ELSE IF g.h # w.h \/ g.blank # w.blank THEN g ELSE w

CopyWork(t) == LET w == Copied(work[t], gwork') IN
    /\ work' = [work EXCEPT ![t] = w]
    /\ pc' = [pc EXCEPT ![t] = "mine"]

\* The loop takes g_work as it is.
TakeWork(t) == /\ pc[t] = "mine"
               /\ glock = Free
               /\ UNCHANGED shared
               /\ CopyWork(t)
               /\ UNCHANGED <<pool, session, job, pcs, glock, upstream, used>>

\* The range is used up or g_work too old: another header of the job, if
\* there is one.  The test comes before stratum_work_lock is taken.
WantExtraWork(t) == /\ pc[t] = "mine"
                    /\ glock = Free
                    /\ job.h.id # 0
                    /\ glock' = t
                    /\ pc' = [pc EXCEPT ![t] = "gen"]
                    /\ UNCHANGED <<pool, session, job, pcs, shared, work, upstream, used>>

MakeHeader(t) == /\ pc[t] = "gen"
                 /\ job.h.id # 0
                 /\ GenHeader
                 /\ gwork' = HalfMade
                 /\ pc' = [pc EXCEPT ![t] = "target"]
                 /\ UNCHANGED <<pool, session, pcs, expired, glock, work, upstream>>

\* Meanwhile a notify may have come, or the job may be gone (its diff is 0).
SetTarget(t) == /\ pc[t] = "target"
                /\ gwork' = Targeted(gwork)
                /\ expired' = FALSE
                /\ CopyWork(t)
                /\ glock' = Free
                /\ UNCHANGED <<pool, session, job, pcs, upstream, used>>

\* The job was freed since the test: its xnonce2 is a null pointer.
UseFreedJob(t) == /\ pc[t] = "gen"
                  /\ job.h.id = 0
                  /\ pc' = [u \in Miners |-> "gone"]
                  /\ pcs' = "gone"
                  /\ pcw' = "gone"
                  /\ conn' = "none"
                  /\ UNCHANGED <<pool, conns, xnonce1, nextDiff, job, shared, glock, work,
                                 subq, submits, log, seen, used>>

\* The scan of a work ("prevent gpu scans before a job is received") finds a
\* nonce; submit_work queues a copy of the work with it.
FindNonce(t) == /\ pc[t] = "mine" /\ ~work[t].blank
                /\ submits < MaxSubmits
                /\ \E n \in Nonces :
                      subq' = Append(subq, [w |-> work[t], nonce |-> n])
                /\ submits' = submits + 1
                /\ UNCHANGED <<pool, session, job, pcs, shared, mining, pcw, log, seen, used>>
-----------------------------------------------------------------------------
\* Bit k of n, and whether every bit of a is one of b.
Bit(n, k) == (n \div 2^k) % 2
Within(a, b) == \A k \in 0..28 : Bit(a, k) <= Bit(b, k)

NTime(s) == NTimeOf[s.w.h.id]
Key(s) == [ntime |-> NTime(s), nonce |-> s.nonce]
Above(e, f) == \/ e.key.ntime > f.key.ntime
               \/ e.key.ntime = f.key.ntime /\ e.key.nonce >= f.key.nonce

\* Mutant: every share is new.
NeverLogged(s) == FALSE

\* hashlog_already_submittted.  The key of a share is the ntime in front of
\* its job id, and its nonce.  For nonce 0 the answer is the nonce of the
\* greatest key with all bits of the ntime.
Logged(s) == LET last == {e \in log : Within(NTime(s), e.key.ntime)} IN
    IF s.nonce # 0 THEN \E e \in log : e.key = Key(s)
    ELSE \E e \in last : e.key.nonce # 0 /\ \A f \in last : Above(e, f)

\* Mutant: only the height tells a stale share.
StaleByHeight(s) == s.w.height < gwork.height

\* A newer block, or another job.
Stale(s) == s.w.height < gwork.height \/ s.w.h.id # gwork.h.id

\* Mutant: a share not worth sending is looked at again.
DropNothing == UNCHANGED subq

Drop == subq' = Tail(subq)

\* Workio takes a share, or tries the one it could not send again: it is
\* dropped when stale, and when logged, which also expires g_work.
CheckShare == /\ pcw = "idle" /\ subq # << >>
              /\ glock = Free
              /\ LET s == Head(subq) IN
                 IF Stale(s)
                 THEN Drop /\ UNCHANGED <<pcw, expired>>
                 ELSE IF Logged(s)
                 THEN Drop /\ expired' = TRUE /\ UNCHANGED pcw
                 ELSE pcw' = "send" /\ UNCHANGED <<subq, expired>>
              /\ UNCHANGED <<pool, session, job, pcs, gwork, mining, submits, log, seen, used>>

\* A share as the pool sees it.
AsSeen(s) == [h |-> [s.w.h EXCEPT !.xnonce1 = xnonce1], nonce |-> s.nonce]

SendShare == /\ pcw = "send" /\ conn = "up"
             /\ seen' = seen \union {AsSeen(Head(subq))}
             /\ pcw' = "remember"
             /\ UNCHANGED <<pool, session, job, pcs, shared, mining, subq, submits, log, used>>

\* Not connected, or the socket takes no more: pause and retry.
SendFails == /\ pcw = "send"
             /\ pcw' = "idle"
             /\ UNCHANGED <<pool, session, job, pcs, shared, mining, subq, submits, log, seen, used>>

\* hashlog_remember_submit.
RememberShare ==
    /\ pcw = "remember"
    /\ log' = {e \in log : e.key # Key(Head(subq))}
                \union {[key |-> Key(Head(subq)), old |-> FALSE]}
    /\ subq' = Tail(subq)
    /\ pcw' = "idle"
    /\ UNCHANGED <<pool, session, job, pcs, shared, mining, submits, seen, used>>

\* LOG_PURGE_TIMEOUT goes by.
TimePasses == /\ \E e \in log : ~e.old
              /\ pcw = "idle"
              /\ log' = {[e EXCEPT !.old = TRUE] : e \in log}
              /\ seen' = {}
              /\ UNCHANGED <<pool, session, job, pcs, shared, mining, subq, submits, pcw, used>>
-----------------------------------------------------------------------------
MinerStep(t) == \/ TakeWork(t) \/ WantExtraWork(t) \/ MakeHeader(t) \/ SetTarget(t)
                \/ UseFreedJob(t) \/ FindNonce(t)

Next == \/ Down \/ Connect \/ ConnectFails \/ Subscribe \/ Authorize
        \/ Lose \/ Interrupted
        \/ Notify \/ SetDifficulty \/ SetExtranonce \/ ReconnectAsked
        \/ TestJob \/ InstallJob
        \/ CheckShare \/ SendShare \/ SendFails \/ RememberShare \/ TimePasses
        \/ \E t \in Miners : MinerStep(t)

Spec == Init /\ [][Next]_vars

\* Threads run and locks are passed on; a pool that is tried again and again
\* is reached in the end, a socket that is up takes the share in the end.
Fairness ==
    /\ SF_vars(Down) /\ SF_vars(Connect) /\ WF_vars(Subscribe) /\ WF_vars(Authorize)
    /\ WF_vars(conn = "dead" /\ Interrupted)
    /\ WF_vars(TestJob) /\ SF_vars(InstallJob)
    /\ SF_vars(CheckShare) /\ SF_vars(SendShare) /\ WF_vars(RememberShare)
    /\ \A t \in Miners : WF_vars(MakeHeader(t)) /\ WF_vars(SetTarget(t)) /\ WF_vars(UseFreedJob(t))

FairSpec == Spec /\ Fairness
-----------------------------------------------------------------------------
Crashed == pcs = "gone"

\* The types of the variables of a stratum session.
TypeOK ==
    /\ made \in 0..MaxJob /\ due \in [Jobs -> Diffs \union {0}]
    /\ conns \in 0..MaxConns /\ conn \in {"none", "up", "dead"}
    /\ xnonce1 \in Xnonce1s /\ nextDiff \in Diffs
    /\ job \in [h : Header, diff : Diffs \union {0}, clean : BOOLEAN]
    /\ pcs \in {"down", "connect", "subscribe", "authorize", "test", "install", "recv", "gone"}
    /\ gwork \in Work /\ expired \in BOOLEAN
    /\ glock \in Miners \union {Free}
    /\ work \in [Miners -> Work]
    /\ pc \in [Miners -> {"mine", "gen", "target", "gone"}]
    /\ subq \in Seq([w : Work, nonce : Nonces]) /\ submits \in 0..MaxSubmits
    /\ pcw \in {"idle", "send", "remember", "gone"}
    /\ log \subseteq [key : [ntime : Nat, nonce : Nonces], old : BOOLEAN]
    /\ seen \subseteq [h : Header, nonce : Nonces]
    /\ used \subseteq Header

Sends == pcw = "send" /\ pcw' = "remember"
Makes == \/ pcs = "install" /\ pcs' = "recv"
         \/ \E t \in Miners : pc[t] = "gen" /\ pc'[t] = "target"

\* hashlog.cpp:3 "Prevent duplicate shares": the pool never gets a share again
\* that it had within the last five minutes, not even when a lost connection
\* brings back the session and the job with the first xnonce2.  Nonce 0 is
\* not told apart from "nothing sent".
NoShareTwice == [][Sends /\ Head(subq).nonce # 0 => AsSeen(Head(subq)) \notin seen]_vars

\* A share the pool gets was searched at the difficulty the pool gave its
\* job: between copying the difficulty of a new job and its header a thread
\* scans the old header with the new difficulty, and such a share is stale.
\* It is not claimed of a torn work: stratum_gen_work reads job.diff (1615)
\* after it has unlocked stratum_work_lock (1599), and a notify or a lost
\* connection in between gives a miner thread's header the target of another
\* job, or of none.
DueDiff == [][Sends /\ ~Head(subq).w.torn
                => Head(subq).w.diff = due[Head(subq).w.h.id]]_vars

\* The same of every share; it fails.
AlwaysDueDiff == [][Sends => Head(subq).w.diff = due[Head(subq).w.h.id]]_vars

\* Within one connection no header is handed out twice while xnonce2 has not
\* wrapped, whoever makes it: the stratum thread from a notify, or a miner
\* thread at the end of its range.
HeadersDiffer == [][Makes => job.h \notin used]_vars

\* A job reaches g_work, also the job g_work had before a reconnection, unless
\* another one replaces it.
Installs == \A j \in Jobs :
    job.h.id = j ~> (gwork.h.id = j /\ ~gwork.blank) \/ job.h.id # j \/ Crashed

\* A connection that breaks is made again, and its login ends.
Reconnects == conn = "dead" ~> (conn = "up" /\ pcs \in {"test", "install", "recv"}) \/ Crashed

\* Shares do not stay with workio: each is sent, or found stale or repeated.
Settled == <>[](subq = << >>) \/ <>Crashed

\* gbxminer.cpp:1484 "job not yet retrieved": no work is made without a job.
NeverWithoutJob == ~Crashed
=============================================================================
