-------------------------------- MODULE Solo --------------------------------
(***************************************************************************)
(* Solo mining against Bitcoin Core (bitcoin_solo.cpp): the workio thread  *)
(* fetches block templates, makes a job of its own coinbase for every work *)
(* it hands out, keeps the last jobs in a ring, and on a found nonce looks *)
(* the job up, submits the block and asks the node for its tip.  Templates *)
(* and jobs are counted by hand.  Only the workio thread is here, so a     *)
(* stretch of its code between two answers of the node is one step;        *)
(* SoloShutdown adds solo_shutdown, which other threads call.              *)
(*                                                                         *)
(* A job stands for its address and for its merkle root, a template for    *)
(* its address; an address is used again once nothing refers to it.  A     *)
(* work is what a miner has of a job: its id and its merkle root.          *)
(***************************************************************************)
EXTENDS Integers, FiniteSets

CONSTANTS Tpls, Jobs,  \* addresses of templates and of jobs
          Miners, None,
          Ring,        \* SOLO_JOB_RING
          IdMod,       \* 2^32 of the job ids
          RefreshAge,  \* opt_solo_refresh
          HardMax,     \* SOLO_TEMPLATE_HARD_MAX
          AllocFails,  \* may the coinbase, or an allocation, fail?
          MaxExtra,    \* bound on the works made of one template
          MaxTip, MaxCookie, MaxFound \* bounds

ASSUME SoloAssumption ==
    /\ IsFiniteSet(Tpls) /\ IsFiniteSet(Jobs)
    /\ None \notin Tpls \union Jobs
    /\ Ring \in Nat \ {0} /\ IdMod \in Nat /\ Ring < IdMod /\ IdMod % Ring = 0
    /\ {RefreshAge, HardMax} \subseteq Nat \ {0}
    /\ {MaxExtra, MaxTip, MaxCookie, MaxFound} \subseteq Nat
    /\ AllocFails \in BOOLEAN

VARIABLES tpl,     \* heap: the templates; refs = 0 is freed memory
          job,     \* heap: the jobs
          gtpl,    \* g_tpl
          ring,    \* g_jobs
          nextId,  \* g_next_job_id
          extra,   \* g_extranonce
          force,   \* g_force_refresh
          age,     \* time(NULL) - g_tpl->fetched_at
          cookie,  \* the credentials in pools[cur_pooln]
          counted, \* solo_blocks_found, solo_blocks_accepted
          pc,      \* what the workio thread does
          sampled, \* the age computed from "now"
          ltpl, ljob, lwork, \* locals: tpl, job and work of the handler
          gwork, held, \* g_work, the copies in the hands of miners and in
                   \* submissions on their way to the workio thread
          node,    \* the node: up?, its tip, its cookie
          own      \* history of the block being submitted: did it reach the
                   \* node, is it the tip; and the blocks the node kept

heap == <<tpl, job>>
registry == <<gtpl, ring, nextId, extra, force, age>>
locals == <<sampled, ltpl, ljob, lwork>>
miners == <<gwork, held>>
vars == <<heap, registry, cookie, counted, pc, locals, miners, node, own>>

MaxAge == HardMax + 1
Work == [id : 0..IdMod-1, root : Jobs \union {None}]
NoWork == [id |-> 0, root |-> None]

\* What freed memory holds is of no interest.
FreedTpl == [refs |-> 0, tip |-> 0]
FreedJob == [refs |-> 0, id |-> 0, tpl |-> None, extra |-> 0]

Init == /\ tpl = [t \in Tpls |-> FreedTpl]
        /\ job = [j \in Jobs |-> FreedJob]
        /\ gtpl = None /\ ring = [i \in 0..Ring-1 |-> None]
        /\ nextId = 1 /\ extra = 0 /\ force = FALSE /\ age = 0
        /\ cookie = 0
        /\ counted = [found |-> 0, accepted |-> 0]
        /\ pc = "idle" /\ sampled = 0
        /\ ltpl = None /\ ljob = None /\ lwork = NoWork
        /\ gwork = NoWork /\ held = [m \in Miners |-> NoWork]
        /\ node = [up |-> TRUE, tip |-> 0, cookie |-> 0]
        /\ own = [reached |-> FALSE, best |-> FALSE, kept |-> 0]
-----------------------------------------------------------------------------
\* tpl_unref.
DropTpl(T, t) ==
    [T EXCEPT ![t] = IF T[t].refs = 1 THEN FreedTpl ELSE [T[t] EXCEPT !.refs = T[t].refs - 1]]

\* Mutant: the job goes, its reference to the template stays.
KeepsTpl(T, J, j) == T

\* The templates after tpl_unref(j->tpl), if this was the job's last reference.
TplsWithout(T, J, j) ==
    IF J[j].refs = 1 THEN DropTpl(T, J[j].tpl) ELSE T

\* job_unref.
Unref(J, j) ==
    [J EXCEPT ![j] = IF J[j].refs = 1 THEN FreedJob ELSE [J[j] EXCEPT !.refs = J[j].refs - 1]]

\* Mutant: one slot of the ring is never used.
ShortSlot(id) == id % (Ring - 1)

Slot(id) == id % Ring

\* Mutant: the slot is not compared with the id asked for.
SlotOf(id) == IF id = 0 THEN None ELSE ring[Slot(id)]

InRing(j) == \E i \in 0..Ring-1 : ring[i] = j

\* job_ring_get.
RingGet(id) ==
    IF id = 0 THEN None
    ELSE LET j == ring[Slot(id)] IN IF j # None /\ job[j].id = id THEN j ELSE None

\* The works somebody may still submit.
Works == {gwork, lwork} \union {held[m] : m \in Miners}

\* Memory is taken where nothing is.  Addresses are interchangeable; a job is
\* put at the address with its number when that one is free, so that TLC meets
\* fewer arrangements of the heap.
FreeTpls == {t \in Tpls : tpl[t].refs = 0}
FreeJobs == {j \in Jobs : job[j].refs = 0 /\ \A w \in Works : w.root # j}
Alloc(free) == IF nextId \in free THEN nextId ELSE CHOOSE a \in free : TRUE

Reachable == node.up /\ cookie = node.cookie
-----------------------------------------------------------------------------
\* Mutant: the template is asked for again only when it has aged.
AgedOnly == gtpl = None \/ age >= RefreshAge

NeedsTemplate == gtpl = None \/ force \/ age >= RefreshAge

\* solo_get_work is entered and "now" is read.
GetWork == /\ pc \in {"idle", "failed"}
           /\ NeedsTemplate \/ extra < MaxExtra
           /\ sampled' = age
           /\ pc' = IF NeedsTemplate THEN "fetch" ELSE "take"
           /\ UNCHANGED <<heap, registry, cookie, counted, ltpl, ljob, lwork, miners, node, own>>

\* g_tpl moves to a template that was just parsed.
ReplaceTpl(t) ==
    LET released == IF gtpl = None THEN tpl ELSE DropTpl(tpl, gtpl)
    IN [released EXCEPT ![t] = [refs |-> 1, tip |-> node.tip]]

\* getblocktemplate answers.
FetchOk == /\ pc \in {"fetch", "refetch"}
           /\ Reachable /\ FreeTpls # {}
           /\ gtpl' = Alloc(FreeTpls)
           /\ tpl' = ReplaceTpl(Alloc(FreeTpls))
           /\ extra' = 0 /\ force' = FALSE /\ age' = 0
           /\ pc' = "take" /\ sampled' = 0
           /\ UNCHANGED <<job, ring, nextId, cookie, counted, ltpl, ljob, lwork, miners, node, own>>

\* solo_reload_cookie: the cookie file is there while the node runs.
CookieRotated == node.up /\ cookie # node.cookie

\* Mutant: a failed call is given up at once.
NoReload == FALSE

\* Is the call tried again with a new cookie?
TryAgain == pc = "fetch" /\ CookieRotated

\* Mutant: without a template the age alone decides.
AgeAlone == sampled >= HardMax

\* Is the template at hand, if there is one, no longer to be used?
TooOld == gtpl = None \/ sampled >= HardMax

\* getblocktemplate fails, for whatever reason.  A rotated cookie gives it a
\* second try; the template at hand is used until it is too old (or MaxExtra
\* works were made of it).
FetchFails == /\ pc \in {"fetch", "refetch"}
              /\ cookie' = IF TryAgain THEN node.cookie ELSE cookie
              /\ pc' = IF TryAgain THEN "refetch"
                       ELSE IF TooOld \/ extra = MaxExtra THEN "failed" ELSE "take"
              /\ UNCHANGED <<heap, registry, counted, locals, miners, node, own>>

\* tpl = g_tpl, borrowed.
TakeTpl == /\ pc = "take"
           /\ ltpl' = gtpl /\ sampled' = 0
           /\ pc' = "create"
           /\ UNCHANGED <<heap, registry, cookie, counted, ljob, lwork, miners, node, own>>

\* The heap after solo_job_create has filled j and job_ring_put has put it in
\* the ring, where it replaces the job that has the slot.
PutJob(j, new) ==
    LET T == [tpl EXCEPT ![ltpl].refs = @ + 1]
        J == [job EXCEPT ![j] = new]
        old == ring[Slot(nextId)]
    IN IF old = None THEN tpl' = T /\ job' = J
       ELSE tpl' = TplsWithout(T, J, old) /\ job' = Unref(J, old)

NextId == IF nextId + 1 = IdMod THEN 1 ELSE nextId + 1

\* No work is as old as 2^32 jobs.
IdsOutlived == \A w \in Works : w.id # nextId

\* Mutant: the extranonce stays.
SameExtra == UNCHANGED extra

NextExtra == extra' = extra + 1

\* solo_job_create, job_ring_put and the work handed out.
CreateJob ==
    /\ pc = "create"
    /\ ltpl # None /\ FreeJobs # {} /\ IdsOutlived
    /\ LET j == Alloc(FreeJobs)
       IN /\ PutJob(j, [refs |-> 1, id |-> nextId, tpl |-> ltpl, extra |-> extra])
          /\ ring' = [ring EXCEPT ![Slot(nextId)] = j]
          /\ gwork' = [id |-> nextId, root |-> j]
    /\ nextId' = NextId
    /\ NextExtra
    /\ ltpl' = None
    /\ pc' = "idle"
    /\ UNCHANGED <<gtpl, force, age, cookie, counted, sampled, ljob, lwork, held, node, own>>

\* solo_job_create fails; the extranonce is used up.
CreateFails ==
    /\ AllocFails
    /\ pc = "create" /\ ltpl # None
    /\ NextExtra
    /\ ltpl' = None
    /\ pc' = "failed"
    /\ UNCHANGED <<heap, gtpl, ring, nextId, force, age, cookie, counted, sampled, ljob, lwork, miners, node, own>>
-----------------------------------------------------------------------------
\* solo_submit_block looks the job up and takes a reference; without the job
\* the block is lost.
Lookup(w) ==
    /\ pc = "idle" /\ w.id # 0
    /\ counted.found < MaxFound
    /\ LET j == RingGet(w.id)
       IN IF j = None THEN UNCHANGED <<job, ljob, lwork, pc>>
          ELSE /\ job' = [job EXCEPT ![j].refs = @ + 1]
               /\ ljob' = j /\ lwork' = w
               /\ pc' = "assemble"
    /\ own' = [own EXCEPT !.reached = FALSE, !.best = FALSE]
    /\ UNCHANGED <<tpl, registry, cookie, counted, sampled, ltpl, miners, node>>

\* The handler gives its reference back.
DropRef == /\ tpl' = TplsWithout(tpl, job, ljob)
           /\ job' = Unref(job, ljob)
           /\ ljob' = None /\ lwork' = NoWork

\* The block is put together; it is dropped when the header is not the job's,
\* misses the target, or memory runs out.
Assemble ==
    /\ pc = "assemble"
    /\ \/ /\ lwork.root = ljob
          /\ counted' = [counted EXCEPT !.found = @ + 1]
          /\ pc' = "send"
          /\ UNCHANGED <<heap, ljob, lwork>>
       \/ /\ DropRef
          /\ pc' = "idle"
          /\ \/ UNCHANGED counted
             \/ AllocFails /\ lwork.root = ljob /\ counted' = [counted EXCEPT !.found = @ + 1]
    /\ UNCHANGED <<registry, cookie, sampled, ltpl, miners, node, own>>

\* submitblock: the node makes the block its tip if it extends the tip.
SendBlock ==
    /\ pc = "send"
    /\ pc' = "tip"
    /\ \/ UNCHANGED <<node, own>>
       \/ /\ Reachable
          /\ IF tpl[job[ljob].tpl].tip = node.tip
             THEN /\ node.tip < MaxTip
                  /\ node' = [node EXCEPT !.tip = @ + 1]
                  /\ own' = [reached |-> TRUE, best |-> TRUE, kept |-> own.kept + 1]
             ELSE /\ own' = [own EXCEPT !.reached = TRUE]
                  /\ UNCHANGED node
    /\ UNCHANGED <<heap, registry, cookie, counted, locals, miners>>

\* Mutant: any answer counts.
AnyTip == TRUE

\* The tip the node names is the hash of our header.
TipIsOurs == own.best

\* After a submission the template is fetched again.
ForceRefresh == force' = TRUE

\* getbestblockhash decides whether the block counts as accepted.
AskTip ==
    /\ pc = "tip"
    /\ \E said \in BOOLEAN :
          /\ said => Reachable /\ TipIsOurs
          /\ counted' = [counted EXCEPT !.accepted = IF said THEN @ + 1 ELSE @]
    /\ ForceRefresh
    /\ DropRef
    /\ own' = [own EXCEPT !.reached = FALSE]
    /\ pc' = "idle"
    /\ UNCHANGED <<gtpl, ring, nextId, extra, age, cookie, sampled, ltpl, miners, node>>
-----------------------------------------------------------------------------
\* A miner copies g_work.
CopyWork(m) == /\ held' = [held EXCEPT ![m] = gwork]
               /\ UNCHANGED <<heap, registry, cookie, counted, pc, locals, gwork, node, own>>

\* Time passes.
Tick == /\ gtpl # None /\ age < MaxAge
        /\ age' = age + 1
        /\ UNCHANGED <<heap, gtpl, ring, nextId, extra, force, cookie, counted, pc, locals, miners, node, own>>

\* The network finds a block.
NewBlock == /\ node.up /\ node.tip < MaxTip
            /\ node' = [node EXCEPT !.tip = @ + 1]
            /\ own' = [own EXCEPT !.best = FALSE]
            /\ UNCHANGED <<heap, registry, cookie, counted, pc, locals, miners>>

\* The node goes away and comes back with a new cookie.
NodeStops == /\ node.up /\ node.cookie < MaxCookie
             /\ node' = [node EXCEPT !.up = FALSE]
             /\ UNCHANGED <<heap, registry, cookie, counted, pc, locals, miners, own>>

NodeStarts == /\ ~node.up
              /\ node' = [node EXCEPT !.up = TRUE, !.cookie = @ + 1]
              /\ UNCHANGED <<heap, registry, cookie, counted, pc, locals, miners, own>>

Next == \/ GetWork \/ FetchOk \/ FetchFails \/ TakeTpl \/ CreateJob \/ CreateFails
        \/ \E m \in Miners : CopyWork(m) \/ Lookup(held[m])
        \/ Assemble \/ SendBlock \/ AskTip
        \/ Tick \/ NewBlock \/ NodeStops \/ NodeStarts

Spec == Init /\ [][Next]_vars

\* The workio thread runs, the node comes back and answers now and then,
\* memory is not always short, a miner asks for work again, time passes.
Fairness == /\ WF_vars(GetWork) /\ WF_vars(FetchFails) /\ WF_vars(TakeTpl)
            /\ SF_vars(CreateJob) /\ SF_vars(FetchOk)
            /\ WF_vars(NodeStarts) /\ WF_vars(Tick)

FairSpec == Spec /\ Fairness
-----------------------------------------------------------------------------
\* The types of the registry, the heap and the locals.
TypeOK ==
    /\ tpl \in [Tpls -> [refs : Nat, tip : 0..MaxTip]]
    /\ job \in [Jobs -> [refs : Nat, id : 0..IdMod-1, tpl : Tpls \union {None}, extra : Nat]]
    /\ gtpl \in Tpls \union {None}
    /\ ring \in [0..Ring-1 -> Jobs \union {None}]
    /\ nextId \in 1..IdMod-1
    /\ extra \in Nat /\ force \in BOOLEAN /\ age \in 0..MaxAge
    /\ cookie \in Nat
    /\ counted \in [found : Nat, accepted : Nat]
    /\ pc \in {"idle", "failed", "fetch", "refetch", "take", "create", "assemble", "send", "tip"}
    /\ sampled \in 0..MaxAge
    /\ ltpl \in Tpls \union {None} /\ ljob \in Jobs \union {None}
    /\ lwork \in Work /\ gwork \in Work
    /\ held \in [Miners -> Work]
    /\ node \in [up : BOOLEAN, tip : 0..MaxTip, cookie : Nat]
    /\ own \in [reached : BOOLEAN, best : BOOLEAN, kept : Nat]

Live(j) == job[j].refs > 0
JobsOf(t) == {j \in Jobs : Live(j) /\ job[j].tpl = t}

\* The counts are the references there are: of a job the ring's and the
\* running handler's, of a template g_tpl's and its jobs'.  Nothing leaks and
\* nothing is freed too early, on any of the early returns.
JobRefsExact ==
    \A j \in Jobs : job[j].refs = (IF InRing(j) THEN 1 ELSE 0) + (IF ljob = j THEN 1 ELSE 0)

TplRefsExact ==
    \A t \in Tpls : tpl[t].refs = Cardinality(JobsOf(t)) + (IF gtpl = t THEN 1 ELSE 0)

RefsExact == JobRefsExact /\ TplRefsExact

\* What a handler of the workio thread works on is not freed under it, by a
\* refreshed template or an evicted job.
NoUseAfterFree ==
    /\ pc = "create" => ltpl # None /\ tpl[ltpl].refs > 0
    /\ pc \in {"assemble", "send", "tip"} =>
          /\ ljob # None /\ Live(ljob)
          /\ job[ljob].tpl # None /\ tpl[job[ljob].tpl].refs > 0

\* bitcoin_solo.cpp:520: "a mismatch would mean work and job drifted apart".
\* The job found for a work is the one the work was made of, also after the
\* ids have wrapped.
NoDrift == \A w \in Works : RingGet(w.id) \in {None, w.root}

\* How many jobs ago a work was handed out; 0 is not an id.
Distance(w) == IF w.id < nextId THEN nextId - w.id ELSE nextId - 1 + IdMod - w.id

\* A block found for one of the last Ring-1 works is not lost for want of its
\* job.  (Where the ids wrap a slot is skipped, so it is not Ring.)
RecentKept == \A w \in Works :
    w.id # 0 /\ Distance(w) < Ring => RingGet(w.id) = w.root

\* Two jobs of one fetched template differ in the extranonce, so a template
\* that could not be refreshed is not scanned twice over.  (The extranonce
\* starts again with every fetch: a node that answers with the block it gave
\* before makes headers repeat, line 391.)
UniqueExtra == \A j, k \in Jobs :
    j # k /\ Live(j) /\ Live(k) /\ job[j].tpl = job[k].tpl => job[j].extra # job[k].extra

\* Once a block of ours is the tip, no work is made of the template before it
\* without asking the node.
MovesOn == [][own.best /\ pc \in {"idle", "failed"} /\ pc' = "take"
                => tpl[gtpl].tip = node.tip]_vars

\* A miner that asks for work gets it, however often the node restarts.
Served == pc = "fetch" ~> pc = "idle"

\* The template catches up with the node.
FollowsTip == \A n \in 0..MaxTip :
    node.tip = n ~> (gtpl # None /\ tpl[gtpl].tip >= n)

\* bitcoin_solo.cpp:678-680: a fresh cookie "silently invalidates the
\* credentials a long-running miner holds.  Re-read it before giving up on a
\* failed call".  No block is given up with an old cookie.
GivesUpInformed ==
    [][pc = "tip" /\ pc' = "idle" /\ ~own.reached => ~CookieRotated]_vars

\* bitcoin_solo.h:37: solo_blocks_accepted tells "how many of them Core kept".
\* It never tells of a block the node did not keep.  (It may miss one: when
\* the tip has moved on, or the answer is lost.)
CountsOnlyKept == counted.accepted <= own.kept /\ counted.accepted <= counted.found
=============================================================================
