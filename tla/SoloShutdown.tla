---------------------------- MODULE SoloShutdown ----------------------------
(***************************************************************************)
(* solo_shutdown (bitcoin_solo.cpp), which proper_exit calls on whatever   *)
(* thread ends the program, beside the workio thread in the registry of    *)
(* Solo.  No lock keeps the two apart, so the steps of Solo that touch the *)
(* ring are cut where the other thread may come in between.  What follows  *)
(* a use of freed memory is undefined: a behaviour ends before it.         *)
(***************************************************************************)
EXTENDS Solo

CONSTANT Overlap  \* may the steps of solo_shutdown fall between any two steps
                  \* of the workio thread, or only, as a whole, while that
                  \* thread waits for the node or for a command?

ASSUME OverlapAssumption == Overlap \in BOOLEAN

VARIABLES down,  \* where solo_shutdown is
          slot,  \* its i
          paid,  \* g_payout_spk_len # 0
          got    \* a job the workio thread has a pointer to: found and not yet
                 \* counted, or made and not yet in the ring

exit == <<down, slot, paid>>
exitVars == <<vars, exit, got>>

ExitInit == /\ Init
            /\ down = "no" /\ slot = 0 /\ paid = TRUE /\ got = None

Running == down \notin {"no", "done"}
-----------------------------------------------------------------------------
\* solo_get_work is entered.  (The workio thread may have tested abort_flag
\* before it was raised, and so begin one more call; here it may begin more.)
EnterGetWork == \/ paid /\ GetWork
                \/ /\ ~paid /\ pc = "idle" /\ pc' = "failed"
                   /\ UNCHANGED <<heap, registry, cookie, counted, locals, miners, node, own>>

\* solo_job_create; solo_build_coinbase fails without a payout script.
MakeJob ==
    /\ pc = "create" /\ FreeJobs # {} /\ IdsOutlived
    /\ NextExtra /\ ltpl' = None
    /\ \/ /\ paid
          /\ got' = Alloc(FreeJobs)
          /\ job' = [job EXCEPT ![got'] = [refs |-> 1, id |-> nextId, tpl |-> ltpl, extra |-> extra]]
          /\ tpl' = [tpl EXCEPT ![ltpl].refs = @ + 1]
          /\ nextId' = NextId /\ pc' = "evict"
       \/ /\ ~paid /\ pc' = "failed"
          /\ UNCHANGED <<heap, nextId, got>>
    /\ UNCHANGED <<gtpl, ring, force, age, cookie, counted, sampled, ljob, lwork, miners, node, own, exit>>

\* A thread gives a reference to j back.
Release(j) == tpl' = TplsWithout(tpl, job, j) /\ job' = Unref(job, j)

\* The job in the slot of the new one.
Old == ring[Slot(job[got].id)]

\* job_ring_put drops the job that has the slot, ...
Evict == /\ pc = "evict" /\ pc' = "put"
         /\ IF Old = None THEN UNCHANGED heap ELSE Release(Old)
         /\ UNCHANGED <<registry, cookie, counted, locals, miners, node, own, exit, got>>

\* ... and takes the slot; the work is handed out.
PutInRing ==
    /\ pc = "put" /\ pc' = "idle"
    /\ ring' = [ring EXCEPT ![Slot(job[got].id)] = got]
    /\ gwork' = [id |-> job[got].id, root |-> got]
    /\ got' = None
    /\ UNCHANGED <<heap, gtpl, nextId, extra, force, age, cookie, counted, locals, held, node, own, exit>>

\* job_ring_get.
FindJob(w) ==
    /\ pc = "idle" /\ w.id # 0 /\ counted.found < MaxFound
    /\ got' = RingGet(w.id)
    /\ IF got' = None THEN UNCHANGED <<pc, lwork>> ELSE pc' = "found" /\ lwork' = w
    /\ own' = [own EXCEPT !.reached = FALSE, !.best = FALSE]
    /\ UNCHANGED <<heap, registry, cookie, counted, sampled, ltpl, ljob, miners, node, exit>>

\* Mutant: the submission works on the ring's reference.
BorrowJob == UNCHANGED job

\* job->refcount++.
CountRef == job' = [job EXCEPT ![got].refs = @ + 1]

TakeRef == /\ pc = "found" /\ pc' = "assemble"
           /\ CountRef
           /\ ljob' = got /\ got' = None
           /\ UNCHANGED <<tpl, registry, cookie, counted, sampled, ltpl, lwork, miners, node, own, exit>>

Workio == \/ /\ EnterGetWork \/ FetchOk \/ FetchFails \/ TakeTpl
                \/ Assemble \/ SendBlock \/ AskTip
             /\ UNCHANGED <<exit, got>>
          \/ MakeJob \/ Evict \/ PutInRing \/ TakeRef
          \/ \E m \in Miners : FindJob(held[m])
-----------------------------------------------------------------------------
\* Where the workio thread waits for a command or for the node.
Waiting == {"idle", "failed", "fetch", "refetch", "send", "tip"}

\* Another thread calls proper_exit.
Begin == /\ down = "no" /\ (Overlap \/ pc \in Waiting)
         /\ down' = "drop"
         /\ UNCHANGED <<vars, slot, paid, got>>

\* An empty slot is passed over.
SkipSlot == /\ down = "drop" /\ slot < Ring /\ ring[slot] = None
            /\ slot' = slot + 1
            /\ UNCHANGED <<vars, down, paid, got>>

\* job_unref(g_jobs[i]).
DropSlot ==
    /\ down = "drop" /\ slot < Ring /\ ring[slot] # None
    /\ Release(ring[slot])
    /\ down' = "clear"
    /\ UNCHANGED <<registry, cookie, counted, pc, locals, miners, node, own, slot, paid, got>>

\* g_jobs[i] = NULL.
ClearSlot ==
    /\ down = "clear" /\ down' = "drop"
    /\ ring' = [ring EXCEPT ![slot] = None] /\ slot' = slot + 1
    /\ UNCHANGED <<heap, gtpl, nextId, extra, force, age, cookie, counted, pc, locals, miners, node, own,
                   paid, got>>

\* tpl_unref(g_tpl), if there is one.
DropGlobal ==
    /\ down = "drop" /\ slot = Ring
    /\ down' = "global"
    /\ tpl' = IF gtpl = None THEN tpl ELSE DropTpl(tpl, gtpl)
    /\ UNCHANGED <<job, registry, cookie, counted, pc, locals, miners, node, own, slot, paid, got>>

\* g_tpl = NULL.
ClearGlobal ==
    /\ down = "global" /\ down' = "script"
    /\ gtpl' = None
    /\ UNCHANGED <<heap, ring, nextId, extra, force, age, cookie, counted, pc, locals, miners, node, own,
                   slot, paid, got>>

\* g_payout_spk_len = 0.
ClearScript ==
    /\ down = "script" /\ down' = "done" /\ paid' = FALSE
    /\ UNCHANGED <<vars, slot, got>>

Exit == \/ Begin \/ SkipSlot \/ DropSlot \/ ClearSlot
        \/ DropGlobal \/ ClearGlobal \/ ClearScript

\* Miners, time and the network go on meanwhile.
Others == /\ (\E m \in Miners : CopyWork(m)) \/ Tick \/ NewBlock
          /\ UNCHANGED <<exit, got>>
-----------------------------------------------------------------------------
GoneJob(j) == j # None /\ job[j].refs = 0
GoneTpl(t) == t # None /\ tpl[t].refs = 0

\* What the next step of the workio thread would read is freed, or NULL.
WorkioTouches ==
    \/ pc \in {"idle", "failed"} /\ paid /\ GoneTpl(gtpl)
    \/ pc \in {"fetch", "refetch"} /\ GoneTpl(gtpl)
    \/ pc = "take" /\ (gtpl = None \/ GoneTpl(gtpl))
    \/ pc = "create" /\ GoneTpl(ltpl)
    \/ pc \in {"evict", "put"} /\ GoneJob(got)
    \/ pc = "evict" /\ GoneJob(Old)
    \/ pc = "idle" /\ \E m \in Miners : held[m].id # 0 /\ GoneJob(ring[Slot(held[m].id)])
    \/ pc = "found" /\ GoneJob(got)
    \/ pc \in {"assemble", "send", "tip"} /\ (GoneJob(ljob) \/ GoneTpl(job[ljob].tpl))

\* The same of solo_shutdown.
ExitTouches == /\ down = "drop"
               /\ IF slot = Ring THEN GoneTpl(gtpl) ELSE GoneJob(ring[slot])

\* bitcoin_solo.cpp:11-14: "every entry point here runs on the single workio
\* thread [...] so the template registry needs no locking".  Neither thread is
\* about to touch what the other has freed.
NothingFreedTouched == ~((Overlap \/ ~Running) /\ WorkioTouches) /\ ~ExitTouches

\* While solo_shutdown is not under way and the workio thread waits, the counts
\* are the references there are; so a submission that met the shutdown still
\* has its job, and what it gives back last is freed.
CountsSettle == ~Running /\ pc \in Waiting => RefsExact
-----------------------------------------------------------------------------
ExitNext == /\ NothingFreedTouched
            /\ \/ (Overlap \/ ~Running) /\ Workio
               \/ Exit \/ Others

ExitSpec == ExitInit /\ [][ExitNext]_exitVars
=============================================================================
