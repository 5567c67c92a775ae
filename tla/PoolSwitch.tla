----------------------------- MODULE PoolSwitch -----------------------------
(***************************************************************************)
(* Switching between stratum pools.  pool_switch (pools.cpp) runs in the   *)
(* thread of the API, of a miner or of the stratum client itself, without  *)
(* a lock around it; the stratum thread finds out from pool_switch_count,  *)
(* tested at some places of its loop, and waits for a URL.  The global     *)
(* context is copied into the pool left and out of the pool entered, so    *)
(* several copies may hold one curl handle.                                *)
(*                                                                         *)
(* A context is its handle, 0 for NULL, and the pool its job is of.  The   *)
(* URLs on the queue are only counted: the thread connects to the URL of   *)
(* its pool.  A handle no context holds any more is forgotten.             *)
(* Every read and write of a global outside a lock is a step of its own;   *)
(* one copy of a context is one step.                                      *)
(***************************************************************************)
EXTENDS Naturals, FiniteSets

CONSTANTS Pools,       \* the pools, all of them stratum pools
          First,       \* the pool of the start
          None,        \* no pool
          Handles,     \* names for curl handles, 0 not among them
          Switchers,   \* callers of pool_switch
          StratumThread, \* the stratum thread as one of them
          MaxSwitches  \* bound on the switches

ASSUME PoolAssumption ==
    /\ First \in Pools /\ None \notin Pools /\ StratumThread \in Switchers
    /\ IsFiniteSet(Pools) /\ IsFiniteSet(Switchers)
    /\ 0 \notin Handles /\ IsFiniteSet(Handles)
    /\ Cardinality(Handles) > Cardinality(Pools) + 2
    /\ MaxSwitches \in Nat

VARIABLES cur, count,       \* cur_pooln, pool_switch_count
          switching, reset, \* pool_is_switching, stratum_need_reset
          ctx,      \* stratum
          saved,    \* pools[].stratum
          alive,    \* handles that were made and not cleaned up
          dest,     \* the pool a handle is connected to
          urls,     \* how many URLs wait for the stratum thread
          gwork,    \* the pool g_work is of, None when blank
          pcs, sp, sn, \* stratum thread: place, pooln and switchn
          opened,   \* the handle stratum_connect works on
          line,     \* the pool the line received is of, None without one
          sw, from, target, \* the calls of pool_switch, prevn and pooln
          got,      \* the count a call has read and is about to add 1 to
          started,  \* switches so far
          calm      \* history: no switch met the thread connecting, or back
                    \* from its wait before the switch was counted, nor
                    \* began before the last one was followed

global == <<cur, count, switching, reset>>
conns == <<ctx, saved, alive, dest>>
thread == <<pcs, sp, sn, opened, line>>
calls == <<sw, from, target, got, started, calm>>
vars == <<global, conns, urls, gwork, thread, calls>>

Empty == [curl |-> 0, job |-> None]

Init == /\ cur = First /\ count = 0
        /\ switching = FALSE /\ reset = FALSE
        /\ ctx = Empty
        /\ saved = [p \in Pools |-> Empty]
        /\ alive = {}
        /\ dest = [h \in Handles |-> None]
        /\ urls = 1
        /\ gwork = None
        /\ pcs = "url" /\ sp = First /\ sn = 0
        /\ opened = 0 /\ line = None
        /\ sw = [s \in Switchers |-> "idle"]
        /\ from = [s \in Switchers |-> First]
        /\ target = [s \in Switchers |-> First]
        /\ got = [s \in Switchers |-> 0]
        /\ started = 0 /\ calm = TRUE
-----------------------------------------------------------------------------
Quiet == \A s \in Switchers : sw[s] = "idle"

Go(place) == pcs' = place /\ UNCHANGED <<sp, sn, opened, line>>

\* Handles held somewhere.
Held == {ctx.curl, opened} \union {saved[p].curl : p \in Pools}

\* curl_easy_cleanup, and the process after a second one of the same handle.
CleanUp(h) == IF h = 0 THEN UNCHANGED alive ELSE alive' = alive \ {h}
Dangling(h) == h # 0 /\ h \notin alive
Die == pcs' = "gone" /\ UNCHANGED <<global, conns, urls, gwork, sp, sn, opened, line, calls>>

\* tq_pop of the stratum thread.
TakeUrl == /\ pcs = "url" /\ urls > 0
           /\ urls' = urls - 1
           /\ Go("begin")
           /\ UNCHANGED <<global, conns, gwork, calls>>

\* The pool is read, then the count of switches, then the flags are cleared.
Begin == /\ pcs = "begin"
         /\ sp' = cur
         /\ pcs' = "switchn"
         /\ UNCHANGED <<global, conns, urls, gwork, sn, opened, line, calls>>

\* Mutant: the thread counts the switches itself.
OwnCount == sn + 1

CountRead == count

ReadCount == /\ pcs = "switchn"
             /\ sn' = CountRead
             /\ pcs' = "clear"
             /\ UNCHANGED <<global, conns, urls, gwork, sp, opened, line, calls>>

\* Mutant: the flag of the switch stays.
KeepSwitching == UNCHANGED switching

EndSwitching == switching' = FALSE

ClearFlag == /\ pcs = "clear"
             /\ EndSwitching
             /\ Go("unreset")
             /\ UNCHANGED <<cur, count, reset, conns, urls, gwork, calls>>

ClearReset == /\ pcs = "unreset"
              /\ reset' = FALSE
              /\ Go("top")
              /\ UNCHANGED <<cur, count, switching, conns, urls, gwork, calls>>

\* stratum_disconnect of the context in use.
DropContext == /\ CleanUp(ctx.curl)
               /\ ctx' = Empty
               /\ UNCHANGED <<saved, dest>>

Top == /\ pcs = "top" /\ ~(reset /\ Dangling(ctx.curl))
       /\ IF reset THEN DropContext ELSE UNCHANGED conns
       /\ reset' = FALSE
       /\ Go("loop")
       /\ UNCHANGED <<cur, count, switching, urls, gwork, calls>>

\* Without a handle g_work is blanked and a connection opened.
Loop == /\ pcs = "loop"
        /\ IF ctx.curl = 0 THEN Go("open") /\ gwork' = None
                           ELSE Go("online") /\ UNCHANGED gwork
        /\ UNCHANGED <<global, conns, urls, calls>>

\* stratum_connect under stratum_sock_lock: the handle.
Open == /\ pcs = "open" /\ ~Dangling(ctx.curl)
        /\ LET fresh == CHOOSE h \in Handles : h \notin Held IN
              /\ ctx' = [ctx EXCEPT !.curl = fresh]
              /\ alive' = ((alive \ {ctx.curl}) \intersect Held) \union {fresh}
              /\ dest' = [dest EXCEPT ![fresh] = sp]
              /\ opened' = fresh
        /\ pcs' = "perform"
        /\ UNCHANGED <<global, saved, urls, gwork, sp, sn, line, calls>>

\* curl_easy_perform, outside the lock.
Perform == /\ pcs = "perform"
           /\ \/ Go("login") /\ UNCHANGED conns
              \/ /\ CleanUp(opened)
                 /\ ctx' = [ctx EXCEPT !.curl = 0]
                 /\ Go("failed")
                 /\ UNCHANGED <<saved, dest>>
           /\ UNCHANGED <<global, urls, gwork, calls>>

\* Subscribing and authorizing; a job may come with the answers.
Login == /\ pcs = "login" /\ ctx.curl \in alive
         /\ \E j \in {ctx.job, dest[ctx.curl]} : ctx' = [ctx EXCEPT !.job = j]
         /\ Go("loop")
         /\ UNCHANGED <<global, saved, alive, dest, urls, gwork, calls>>

LoginFails == /\ pcs = "login"
              /\ Go("failed")
              /\ UNCHANGED <<global, conns, urls, gwork, calls>>

\* The context is dropped; after opt_retries failures the thread fails over
\* to the next pool before it goes on.
Failed == /\ pcs = "failed" /\ ~Dangling(ctx.curl)
          /\ DropContext
          /\ Go("failover") \/ Go("retry")
          /\ UNCHANGED <<global, urls, gwork, calls>>

FailedOver == /\ pcs = "failover"
              /\ sw[StratumThread] = "idle"
              /\ Go("retry")
              /\ UNCHANGED <<global, conns, urls, gwork, calls>>

\* switchn != pool_switch_count.
Unless(next) == IF sn # count THEN Go("switched") ELSE Go(next)

Retry == /\ pcs = "retry"
         /\ Unless("loop")
         /\ UNCHANGED <<global, conns, urls, gwork, calls>>

Online == /\ pcs = "online"
          /\ Unless("install")
          /\ UNCHANGED <<global, conns, urls, gwork, calls>>

\* stratum_gen_work, by this thread and by the miners.
GenWork == IF ctx.job # None THEN gwork' = ctx.job ELSE UNCHANGED gwork

Install == /\ pcs = "install"
           /\ GenWork
           /\ Go("check")
           /\ UNCHANGED <<global, conns, urls, calls>>

MinerGens == /\ pcs # "gone"
             /\ GenWork
             /\ UNCHANGED <<global, conns, urls, thread, calls>>

\* "check we are on the right pool"
Check == /\ pcs = "check"
         /\ Unless("wait")
         /\ UNCHANGED <<global, conns, urls, gwork, calls>>

\* A line, or none within opt_timeout.
Wait == /\ pcs = "wait"
        /\ line' \in {None} \union {dest[h] : h \in {ctx.curl} \intersect alive}
        /\ pcs' = "recheck"
        /\ UNCHANGED <<global, conns, urls, gwork, sp, sn, opened, calls>>

\* "double check we are on the right pool"
Recheck == /\ pcs = "recheck"
           /\ Unless(IF line = None THEN "cut" ELSE "handle")
           /\ calm' = (calm /\ (Quiet \/ sn # count))
           /\ UNCHANGED <<global, conns, urls, gwork, sw, from, target, got, started>>

Cut == /\ pcs = "cut" /\ ~Dangling(ctx.curl)
       /\ DropContext
       /\ Go("top")
       /\ UNCHANGED <<global, urls, gwork, calls>>

Handle == /\ pcs = "handle"
          /\ \E j \in {ctx.job, line} : ctx' = [ctx EXCEPT !.job = j]
          /\ Go("top")
          /\ UNCHANGED <<global, saved, alive, dest, urls, gwork, calls>>

\* pool_switched: the context saved for the pool left is disconnected.
Switched == /\ pcs = "switched" /\ ~Dangling(saved[sp].curl)
            /\ CleanUp(saved[sp].curl)
            /\ saved' = [saved EXCEPT ![sp] = Empty]
            /\ Go("url")
            /\ UNCHANGED <<global, ctx, dest, urls, gwork, calls>>

\* A handle that was cleaned up already is cleaned up.
FreeAgain == /\ \/ pcs = "top" /\ reset /\ Dangling(ctx.curl)
                \/ pcs \in {"open", "failed", "cut"} /\ Dangling(ctx.curl)
                \/ pcs = "switched" /\ Dangling(saved[sp].curl)
             /\ Die
-----------------------------------------------------------------------------
\* The places of the stratum thread where a switch does not disturb it; the
\* thread itself switches when it has dropped the context.
Calm(s) == IF s = StratumThread THEN pcs = "failover"
           ELSE pcs \in {"wait", "recheck", "switched", "url"}
Followed == sn = count /\ urls = 0 /\ Quiet
Settled == Followed /\ pcs = "wait"

\* The API calls at any time, a miner or workio thread at some of them (a miner
\* only when pool_is_switching is down), the stratum thread out of retries.
CallSwitch(s) ==
    /\ sw[s] = "idle" /\ pcs # "gone"
    /\ started < MaxSwitches /\ started' = started + 1
    /\ IF s = StratumThread THEN pcs = "failover" ELSE TRUE
    /\ \E p \in Pools \ {cur} : target' = [target EXCEPT ![s] = p]
    /\ sw' = [sw EXCEPT ![s] = "save"]
    /\ calm' = (calm /\ Followed /\ pcs \in {"wait", "failover"})
    /\ UNCHANGED <<global, conns, urls, gwork, thread, from, got>>

\* A call goes on to its next statement.
GoOn(s, next) == /\ pcs # "gone"
                 /\ sw' = [sw EXCEPT ![s] = next]
                 /\ calm' = (calm /\ Calm(s))
                 /\ UNCHANGED <<thread, target, started>>

\* The pool to leave is read (both reads of cur_pooln are one step); the job of
\* the context is freed, under stratum_work_lock; the context is saved in that
\* pool.
Leave(s) == /\ sw[s] = "save"
            /\ from' = [from EXCEPT ![s] = cur]
            /\ GoOn(s, "free")
            /\ UNCHANGED <<global, conns, urls, gwork, got>>

FreeJob(s) == /\ sw[s] = "free"
              /\ ctx' = [ctx EXCEPT !.job = None]
              /\ GoOn(s, "copy")
              /\ UNCHANGED <<global, saved, alive, dest, urls, gwork, from, got>>

Save(s) == /\ sw[s] = "copy"
           /\ saved' = [saved EXCEPT ![from[s]] = ctx]
           /\ GoOn(s, "enter")
           /\ UNCHANGED <<global, ctx, alive, dest, urls, gwork, from, got>>

Enter(s) == /\ sw[s] = "enter"
            /\ cur' = target[s]
            /\ GoOn(s, "test")
            /\ UNCHANGED <<count, switching, reset, conns, urls, gwork, from, got>>

\* Only for another pool the switch is counted, g_work blanked (without
\* g_work_lock) and the flags are raised, one after the other.
Test(s) == /\ sw[s] = "test"
           /\ GoOn(s, IF from[s] = cur THEN "idle" ELSE "count")
           /\ got' = [got EXCEPT ![s] = count]
           /\ UNCHANGED <<global, conns, urls, gwork, from>>

Count(s) == /\ sw[s] = "count"
            /\ count' = got[s] + 1
            /\ GoOn(s, "blank")
            /\ UNCHANGED <<cur, switching, reset, conns, urls, gwork, from, got>>

\* Mutant: the work of the old pool is not blanked.
KeepWork == UNCHANGED gwork

BlankWork == gwork' = None

Blank(s) == /\ sw[s] = "blank"
            /\ BlankWork
            /\ GoOn(s, "flag")
            /\ UNCHANGED <<global, conns, urls, from, got>>

RaiseFlag(s) == /\ sw[s] = "flag"
                /\ switching' = TRUE
                /\ GoOn(s, "reset")
                /\ UNCHANGED <<cur, count, reset, conns, urls, gwork, from, got>>

RaiseReset(s) == /\ sw[s] = "reset"
                 /\ reset' = TRUE
                 /\ GoOn(s, "load")
                 /\ UNCHANGED <<cur, count, switching, conns, urls, gwork, from, got>>

\* Mutant: the context of the old pool stays in use.
KeepContext(p) == UNCHANGED ctx

LoadContext(p) == ctx' = saved[p]

\* The context of the new pool is taken, then the thread gets its URL.
Load(s) == /\ sw[s] = "load"
           /\ LoadContext(target[s])
           /\ GoOn(s, "push")
           /\ UNCHANGED <<global, saved, alive, dest, urls, gwork, from, got>>

\* Mutant: only the first switch sends a URL.
PushOnce == urls' = IF count <= 1 THEN urls + 1 ELSE urls

PushUrl == urls' = urls + 1

Push(s) == /\ sw[s] = "push"
           /\ PushUrl
           /\ GoOn(s, "idle")
           /\ UNCHANGED <<global, conns, gwork, from, got>>

\* A miner that waits for 35 seconds gives the switch up.
SwitchTimesOut == /\ pcs # "gone"
                  /\ switching
                  /\ switching' = FALSE
                  /\ UNCHANGED <<cur, count, reset, conns, urls, gwork, thread, calls>>
-----------------------------------------------------------------------------
ThreadStep == \/ TakeUrl \/ Begin \/ ReadCount \/ ClearFlag \/ ClearReset \/ Top \/ Loop \/ Open \/ Perform
              \/ Login \/ LoginFails \/ Failed \/ FailedOver \/ Retry \/ Online
              \/ Install \/ Check \/ Wait \/ Recheck \/ Cut \/ Handle \/ Switched
              \/ FreeAgain

SwitchStep(s) == \/ Leave(s) \/ FreeJob(s) \/ Save(s) \/ Enter(s) \/ Test(s) \/ Count(s)
                 \/ Blank(s) \/ RaiseFlag(s) \/ RaiseReset(s) \/ Load(s) \/ Push(s)

Next == \/ ThreadStep \/ MinerGens \/ SwitchTimesOut
        \/ \E s \in Switchers : CallSwitch(s) \/ SwitchStep(s)

Spec == Init /\ [][Next]_vars

\* Threads run; waiting ends with a line or with opt_timeout; a pool that is
\* tried again and again is reached and lets the thread in.
Fairness == /\ WF_vars(ThreadStep)
            /\ SF_vars(Perform /\ pcs' = "login") /\ SF_vars(Login)
            /\ \A s \in Switchers : WF_vars(SwitchStep(s))

FairSpec == Spec /\ Fairness
-----------------------------------------------------------------------------
Crashed == pcs = "gone"

\* The types of the variables of a switch.
TypeOK ==
    LET Context == [curl : Handles \union {0}, job : Pools \union {None}] IN
    /\ cur \in Pools /\ count \in 0..MaxSwitches
    /\ {switching, reset, calm} \subseteq BOOLEAN
    /\ ctx \in Context /\ saved \in [Pools -> Context]
    /\ alive \subseteq Handles /\ dest \in [Handles -> Pools \union {None}]
    /\ urls \in 0..MaxSwitches + 1
    /\ {gwork, line} \subseteq Pools \union {None}
    /\ sp \in Pools /\ sn \in 0..MaxSwitches
    /\ opened \in Handles \union {0}
    /\ pcs \in {"url", "begin", "switchn", "clear", "unreset", "top", "loop", "open", "perform", "login",
                "failed", "failover", "retry", "online", "install", "check", "wait",
                "recheck", "cut", "handle", "switched", "gone"}
    /\ sw \in [Switchers -> {"idle", "save", "free", "copy", "enter", "test", "count",
                            "blank", "flag", "reset", "load", "push"}]
    /\ got \in [Switchers -> 0..MaxSwitches]
    /\ {from, target} \subseteq [Switchers -> Pools]
    /\ started \in 0..MaxSwitches

\* While nothing is being switched, the thread waits for the lines of the
\* current pool.
RightPool == Settled => ctx.curl \in alive /\ dest[ctx.curl] = cur

\* A switch that finds the stratum thread waiting for a line, and not another
\* switch on its way, leads to the pool asked for, without a handle cleaned up
\* twice: the handle of the old pool is, and the context of the new one starts
\* without a handle or is connected to its pool.
CalmSwitchLands == calm => RightPool /\ ~Crashed

\* After such a switch neither the thread nor a miner puts work of another
\* pool than the current one into g_work.
CalmWorkIsCurrent == calm /\ Quiet => gwork \in {None, cur}

\* However many switches overlap, the stratum thread follows: it always has a
\* URL to take when it finds the count changed.
Follows == sn # count ~> sn = count \/ Crashed

\* After a switch that found the thread waiting, the thread that follows it
\* lowers pool_is_switching, which keeps the miners from rotating.
CalmSwitchEnds == calm /\ switching ~> ~switching \/ ~calm \/ Crashed

\* The same of every switch; it fails.
SwitchEnds == switching ~> ~switching \/ Crashed

\* gbxminer.cpp:2713 and 2723 "check we are on the right pool".
OnRightPool == RightPool

\* gbxminer.cpp:2744 "this thread should not die on pool switch".
SurvivesSwitch == ~Crashed
=============================================================================
