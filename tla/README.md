# gbxminer: TLA+ models, checks and proofs

gbxminer is a CUDA miner (a ccminer fork). One process runs one miner thread
per GPU context, a workio thread that talks JSON-RPC to getwork nodes and to
Bitcoin Core, a stratum thread, a longpoll thread, an API server, a hardware
monitor and a thermal governor. This directory models the parts where those
threads meet. The kernels (`quark/`, `Algo256/`, `scrypt/`, ...) are pure
functions of a header and a nonce range and are not modelled.

## 1. The system

### 1.1 Components

| Component | State it keeps | Operations | Meets |
|---|---|---|---|
| Thread queues, `util.cpp` `tq_*` | list, frozen flag, mutex, condition | push, pop, freeze, thaw | every thread |
| Workio thread, `gbxminer.cpp` 1196-1475 | its queue, failure counters, `cur_pooln` | get work, submit, abort, failover | miners (command out, work or NULL back) |
| Miner threads, `gbxminer.cpp` 1728-2413 | private `work`, shared `g_work` under `g_work_lock`, nonce window, `work_restart[]` | refresh work, scan, submit, rotate pools, stop on a limit | workio, stratum, governor |
| Nonce windows, `gbxminer.cpp` 1739, 1892-1928, 2123-2144, `scanhash_*` | start, end and current nonce of every thread | next window, scan | miner threads |
| Bitcoin Core solo mining, `bitcoin_solo.cpp` | current template, ring of jobs, reference counts, cookie | get work, submit block, shut down | workio thread, the node |
| Solo serialisation, `solo_script.cpp` | none | compact size, script numbers, bech32, base58, merkle root, bits to target | solo mining |
| Stratum client, `util.cpp` 880-1900, `gbxminer.cpp` 2554-2750 | `stratum_ctx`: socket, job, extranonce, difficulty | connect, subscribe, notify, reconnect, share answers | pool switch, miners, hash log |
| Pools, `pools.cpp` | `pools[]`, `cur_pooln`, option globals | switch, next, set url | workio, miners, API, stratum, longpoll |
| Longpoll, `gbxminer.cpp` 2415-2552 | lp url, its queue | wait for a block, refresh `g_work` | workio, pools |
| Share log, `hashlog.cpp` | per job: ranges, nonces sent, ids | remember, duplicate check, look up by share id, purge | stratum, workio |
| Statistics, `stats.cpp` | map of speed samples | remember, average, purge | miners, API |
| Benchmark, `bench.cpp` | two barriers, algorithm index, results | switch to the next algorithm together | miner threads |
| API, `api.cpp` | access list, socket | parse, authorise, answer, quit, switch pool | pools, `proper_exit` |
| Thermal governor, `nvml.cpp` 2199-2405 | base intensity, cool ticks per thread | throttle, restore | miners (`gpus_intensity`, restart flags) |
| Hardware monitor, `nvml.cpp` 2407-2487 | sample sums, a condition per GPU | sample while a scan runs | miners, `main` |
| Exit path, `gbxminer.cpp` 638-689, 4039-4067 | `abort_flag`, joins | abort, join, clean up | every thread |
| Kernels and host hashes | device buffers | scan a window, check a hash | miners |

### 1.2 How they interact

* A miner thread that needs work holds `g_work_lock`, pushes `WC_GET_WORK` on
  the queue of the workio thread and waits on its own queue for one reply: a
  work or NULL. A found nonce is pushed as `WC_SUBMIT_WORK`, with no reply.
* The workio thread pops commands one at a time. A call that fails is retried
  after a pause; when the retries are used up and there is another pool it
  calls `pool_switch_next` itself and pushes NULL to the thread whose command
  failed; with one pool it ends and freezes its queue.
* In solo mode the same two commands reach `bitcoin_solo.cpp`.
* With a stratum pool the stratum thread fills `stratum.job` under
  `stratum_work_lock`, generates `g_work` under `g_work_lock` and raises every
  thread's restart flag; shares go straight to the socket.
* `pool_switch` may be called by a miner, by workio, by the stratum thread and
  by the API; it rewrites the globals and unlocks the stratum or longpoll
  thread through their queues.
* `main` joins the workio thread, raises `abort_flag`, joins the miners, the
  monitor and the governor, and exits.

### 1.3 What is hard here

The threads share `g_work`, `stratum`, `cur_pooln` and a dozen flags, some
under one lock, some under another, some under none; replies travel through
queues whose pop may return NULL for four different reasons; pools are switched
in the middle of a call; templates and jobs are counted by hand; nonce windows
are computed with 32-bit arithmetic; a node restarts between two calls. The
hazard list of `PROJECT.json` names each at its line.

## 2. Modules

| Module | Models | Extends |
|---|---|---|
| `Channel` | abstract: a first-in first-out channel that may be closed | |
| `ThreadQueue` | `tq_push`, `tq_pop`, `tq_freeze`, `tq_thaw` | instance of `Channel` |
| `MinerLoop` | the loop of `miner_thread`, `stratum_gen_work`, `scanhash_sha256d`'s host side | |
| `MCLoops` | the loop in solo, on a stratum pool or on a getwork node, for TLC | `MinerLoop`, two instances of it |
| `MCMinerLoop` | the symmetry of the headers for single configurations | `MinerLoop` |
| `Solo` | `bitcoin_solo.cpp`, the handlers of the workio thread | |
| `SoloShutdown` | `solo_shutdown` of another thread beside them, step by step | `Solo` |
| `WorkIO` | `workio_thread`, `get_work`, `submit_work`, `pool_switch`, the end of the process | |
| `MCWorkIO` | the configurations of the pools for TLC | `WorkIO` |
| `Stratum` | a stratum session with the jobs and shares of its miner threads, `hashlog.cpp` | |
| `MCStratum` | heights and times of the jobs and a bound for TLC | `Stratum` |
| `PoolSwitch` | `pool_switch` and `stratum_thread`, between stratum pools | |
| `Governor` | `governor_thread`, the intensities and the buffers of a kernel | |
| `Monitor` | `monitor_thread`, the signals of the miner threads, the joins of `main` | |
| `Hardware` | the two hardware threads beside the miner threads | `Governor`, instance of `Monitor` |
| `ThreadQueueProofs`, `MinerLoopProofs`, `SoloProofs`, `WorkIOProofs`, `StratumProofs`, `PoolSwitchProofs`, `HardwareProofs` | theorems | their module, `TLAPS` |
| `LoopsProofs` | the theorems of the loop, for what TLC checks | `MCLoops`, `MinerLoopProofs` and an instance of it |

`PROJECT.json` "map" names the lines behind every definition. Definitions
marked `Mutant:` are plausible bugs of the one that follows; no specification
uses them, they are put in its place to show that a property notices.

### 2.1 ThreadQueue

One step per critical section. `tq_pop` on an empty list gives the mutex up
once, inside `pthread_cond_wait`, so a pop is two steps: `PopBegin` takes an
entry or joins `waiting`, `PopWake` looks once more and returns NULL
(`emptyHanded`) if the list is empty again. `frozen` is read by `tq_push` only,
and a push to a frozen queue signals all the same. `pushed` and `popped` are
histories; with them the queue implements `Channel` (`IsChannel`).

### 2.2 MinerLoop

A turn of the loop is `TakeWork` (the critical section of `g_work_lock`, from
the refresh test to the copy of `g_work`), `StartScan` (the restart flag is
cleared and the window computed), one or more `Launch`es of the kernel and
`FinishScan` (results dropped or submitted). `Hold` is a turn given up at one
of the pauses in between. Other threads act between any two steps: `NewJob` and
`Disconnected` (stratum thread), `GovernorStep` (restart flags), `Deliver` (a
submission reaches the getwork node), `TakeShare` (a share reaches
`submit_upstream_work` of a stratum pool). `Source` chooses between solo,
getwork and stratum, which take different branches all along.

A share that repeats an earlier one makes workio reset `g_work_time` (978) and
raise every restart flag (979), with the header of `g_work` as it was and
without `g_work_lock`: `TakeShare` does the first and starts the second
(`raising`), `RaiseNext` raises the flags one by one. Which shares repeat is left
open (`Stratum` has the log). `late` is a history: the flag of that thread was
raised when the work that had been used up was replaced already.

A header is a model value standing for the 76 bytes that are compared, a
height stands for height and target together, since the code tests them
together. A header nobody holds any more may come back as a fresh one.
Nonces wrap (`Wrap`), and the constants `EndSlack`, `LowWater` and `TailSlack`
are the 256, 0x100 and 64 of the code.

### 2.3 Solo

The workio thread calls `solo_get_work` (`GetWork`, `FetchOk` or `FetchFails`,
`TakeTpl`, `CreateJob` or `CreateFails`) and `solo_submit_block` (`Lookup`,
`Assemble`, `SendBlock`, `AskTip`). Each ends at a call to the node, where the
node's tip, cookie and presence may change. No other thread is in the registry
of `Solo`, so that a stretch of code between two answers of the node is one
step. `tpl` and `job` are the heap: a model value is an address, `refs = 0` is
freed memory, and a freed address may be used again. `ring` is `g_jobs`, `Slot`
the index modulo 16, ids are taken modulo `IdMod` and skip 0. Miner threads
hold copies of the work they took (`held`), any of which may be submitted
later. `own` is a history of the block being submitted.

`SoloShutdown` puts `solo_shutdown` beside it, which `proper_exit` runs on any
thread and without a lock. There it is a step for each statement (`DropSlot` and
`ClearSlot` for every slot, `DropGlobal`, `ClearGlobal`, `ClearScript`), and the
steps of `Solo` that touch the ring are cut where it may come in between: a job
is found (`FindJob`) and then counted (`TakeRef`), made (`MakeJob`) and then put
in the ring (`Evict`, `PutInRing`), `got` being the pointer in between. What
follows a use of freed memory is undefined, so a behaviour ends before one.
`Overlap` says whether the steps of the shutdown may fall anywhere or, as a
whole, only where the workio thread waits for a command or for the node.

### 2.4 WorkIO

Three kinds of threads share two kinds of queues. A request for work is
`AskWork` (with `glock`, the owner of `g_work_lock`) or `AskSwitched` (with
`slock`, that of `stratum_work_lock`, and always in the name of thread 0); the
answer is popped by `PopAnswer`, with the one wait of `tq_pop` in the states
"look", "asleep" and "awake". `pool_switch` is `BeginSwitch` (`cur_pooln`
changes), `Options` (the first critical section), `Publish` (the switch is
counted, `g_work_time` is reset) and `AskSwitched`. The workio thread answers
(`GetWorks`), answers NULL because of a switch (`GetOutdated`), tries again
(`TryAgain`), or gives up (`GiveUp`), which fails over or ends it. `Stop` is
the limit met by thread 0, `MainAborts` and `Done` are the joins of `main`.

The pools are getwork pools without long polling. All of them are valid and
enabled, so the next pool is the next number. `pool_is_switching` is left out:
a rotation may happen whenever the code allows one for some value of it. The
rotations are those of thread 0 at a limit of time or shares; conditional
mining, by which any miner thread may rotate (1975), is left out here.

### 2.5 Stratum

The stratum thread (`pcs`) connects, logs in, and then takes one line a turn:
`TestJob` is the test for a new job, made without a lock, `InstallJob` the
critical section of `g_work_lock` that follows. `stratum_gen_work` is called by
the stratum thread for a new job and by the miner threads for another header of
the one in hand. Its first half (`GenHeader`, with the new xnonce2) is under
`stratum_work_lock`, which it gives up at 1599; the target is set afterwards
from `job.diff` as it is then. For a miner thread these are three steps,
`WantExtraWork` (the test for a job, before the lock), `MakeHeader` and
`SetTarget`, so a notify may come in between; `torn` is a history that marks a
work whose target is not that of its job. For the stratum thread, which alone
changes the job, it is one step. A thread copies `g_work` in two turns
(`Copied`): height and difficulty first, the header the next time. The workio
thread takes a share (`CheckShare`: stale, logged or good), sends it and logs
it; each is a step, and the pool may change its mind, or be lost, between them.
The log (`tlastshares`, hashlog.cpp) is a `std::map` that the workio thread
reads and writes (969, 1019) and the stratum thread purges (2704) without any
lock; here every call of it is one step, so what a purge does to a map that is
being searched is not in the model.

A job is the number of its place in the order the pool makes jobs; its block
and ntime are constants, because the key of the log is the ntime and the
nonce. Assumed of the pool: it makes jobs in order, may send only the last one
again, and keeps to the difficulty it gave a job; the size of xnonce2 is
constant. Left out: the restart flags (a scan may end at any time here, the
flags are in `MinerLoop`), the records of scan ranges (`opt_debug` only), a
limit to the retries (`opt_retries` is negative by default), the answers to
shares. `client.reconnect` names a host; the thread connects to the URL of its
pool all the same, and so does the model.

### 2.6 PoolSwitch

A call of `pool_switch` holds no lock for long, and every access to what it
shares is a step of its own: `Leave` (`cur_pooln` is read), `FreeJob`, `Save`
(the context), `Enter` (`cur_pooln` is set), `Test` and `Count` (the count is
read, and written one higher: `got` is the value in between, and two calls may
write the same), `Blank` (`g_work`), `RaiseFlag`, `RaiseReset`, `Load` and
`Push`. `stratum_thread` is a step between any two accesses as well: when it
has a URL it reads `cur_pooln` (`Begin`), then the count (`ReadCount`), and
lowers the two flags (`ClearFlag`, `ClearReset`), with the tests of `switchn`
where the code has them. The context `stratum` is copied by value
(pools.cpp:175, 255), so a context is the name of its curl handle and the pool
its job is of, and a handle may be in three contexts at once. `alive` are the
handles not cleaned up; cleaning up another one ends the process (`FreeAgain`).
`calm` is a history: it stays true while every switch found the stratum thread
waiting for a line (or was the thread's own, when it had dropped its context)
and no other switch under way.

### 2.7 Governor, Monitor, Hardware

`Governor` has one step per thread and round of `governor_thread`: a hot, a
cool or a failing reading. A scan takes its throughput from `gpus_intensity`
and allocates the buffers at the first one (`ScanRecords`, as
`lyra2/lyra2REv2.cu` does it). `Monitor` has the condition variable as a state
of the monitor: a signal moves it only while it is in "wait", from "tested" to
"wait" it has given nothing up yet, and a wait entered before `main` made the
condition is "lost". `Hardware` puts both beside miner threads whose
`StartScan` is one step of both, and beside `main`.

The API thread runs, as it does by default, so that a scan records its
throughput; `gpu_threads` is 1; NVML is there.

## 3. Runs

| Run | Question | States, bounds |
|---|---|---|
| `queue_race` | Do two racing poppers, freezing and spurious wake-ups lose, double, reorder or strand an entry? No. | 3 entries: one per popper and one left over |
| `loops` | In solo: does every launch begin in its thread's share of the nonce range, does a thread go on with a header it has submitted a block for? Yes; no. On stratum and on getwork: does a thread leave a replaced job although a restart flag may be lost? Is, on stratum, a result dropped only when its header is replaced or used up, or workio was overtaken between 978 and 979? Yes. | solo: 2 threads, 9 nonces, 4 headers, windows shorter and longer than a share; pools: 1 thread, 13 (stratum) or 9 nonces, 3 headers, 2 heights |
| `solo_registry` | Is a job found and the right one after ids wrap, are the counts exact, is nothing used after it was freed, do jobs of one fetched template differ, are only kept blocks counted, is work made of a template before our own block? | ring of 3, ids modulo 6, 5 jobs, 4 templates, no failed allocations (those are in `solo_live` and the theorems) |
| `solo_live` | Is work handed out again after restarts of the node, does the template follow the tip? Yes. | ring of 2, one restart, one new tip |
| `solo_exit_waits` | Does a shutdown that falls into a wait of the workio thread free what a handler goes on to use, a submission included? No; and the counts settle. | ring of 2, 4 jobs, 4 templates, 1 block |
| `workio_serves` | Is everybody who waits answered, does a switch end a miner thread only in its window, does a limit end the workio thread? | 2 miner threads, 5 configurations, 1 switch, 1 submission |
| `stratum_session` | Does the pool get a share twice, or one searched at another difficulty, torn works apart? Is a header made twice in a connection before xnonce2 wraps? No. | 1 miner thread, 2 jobs of one ntime, 2 difficulties, 2 connections, 2 shares, xnonce2 in 0..1, 2 values of xnonce1 (`OnePurpose`: the second only while nothing is submitted and the difficulty is the first) |
| `stratum_live` | Does the last job reach `g_work`, does the thread log in again, does every share leave the queue? Yes. | 1 miner thread, 2 jobs, 2 connections, 2 shares, one xnonce1, xnonce2 always 0 |
| `pool_switch` | Does the stratum thread follow the last switch, does a switch land on its pool, does the flag come down? Yes; the last two for switches that meet the thread waiting. | 2 pools, 2 switches, by the API and by the thread |
| `pools_freed` | *violated* `SurvivesSwitch`: one curl handle is cleaned up twice | 1 switch |
| `hardware` | Is an intensity lost, given back too early or never? Is every card sampled, and does the program end? No; yes. | 2 threads, 2 ticks, default intensity 4, floor 1, conditional mining at the cool card |
| `governor_buffers` | *violated* `BuffersSuffice`: a kernel is launched for more nonces than its buffers hold | the same, but the hot card meets the limit of conditional mining |

Further configurations of the same modules end in a counterexample too; they
are kept for the reader, and section 5 says what they show:
`MinerLoop_governor.cfg`, `MinerLoop_getwork_old.cfg` and `MinerLoop_late.cfg`
(with `MCMinerLoop`), `Solo_cookie.cfg` (`Solo`), `SoloShutdown_overlap.cfg`
(`SoloShutdown`), `WorkIO_exit.cfg` and `WorkIO_failover.cfg` (`MCWorkIO`),
`PoolSwitch_right.cfg` and `PoolSwitch_flag.cfg` (`PoolSwitch`),
`Stratum_freed.cfg` and `Stratum_torn.cfg` (`MCStratum`). The
type invariants of `ThreadQueue`, `MinerLoop`, `Solo`, `WorkIO`, `Stratum` and
`Hardware` are proved (section 4) and in no run any more.

**Why the bounds are enough.** The ring and id bounds are the smallest where
the ring wraps inside the ids and the ids wrap inside the run (6 is a multiple
of 3 as 2^32 is of 16; with more jobs than slots one is always being evicted
while a miner holds its work). Four templates are the current one, one of an
older job in the ring, one of a job held by the handler and one being fetched.
With 9 nonces and two threads a share holds more than one launch, a window may
be shorter than a share and a launch may overshoot its end; `RangeAssumption`
says in which sense the range is large against the constants, and the theorems
need nothing else. The headers are one more than the threads can hold beside
`g_work`. A second pool switch repeats the first from a state with other
counters; one switch by thread 0 or the API, or one failover, meets every step
of a request. In `queue_race` a third entry is needed for one to be left when
both poppers have been signalled. In `Stratum` two connections are one loss and
one return with the job and xnonce1 of before; two shares are one logged and
one that may be the same. With two values of xnonce2 the count wraps after two
headers: one may be the stratum thread's and the other the miner thread's, with
a notify that repeats the job in between, and `HeadersDifferHolds` has any
number of threads and headers. `OnePurpose` keeps the changes of xnonce1 and
the submissions apart; the headers differ in their job as well, which is all
that the shares depend on. `stratum_live` asks where jobs and shares end up,
whatever xnonce1 and xnonce2 are. Two switches are the least that overlap, and lead from
a pool and back to it. The governor needs two ticks for a hot or failing
reading to lie between them, and an intensity of 4 to be halved twice if it
could be.

**Deadlock** is checked in `queue_race`, `loops`, `solo_registry`,
`solo_live` and `pools_freed`. Elsewhere the system may stop: when the process
is shut down and idle (`SoloShutdown`), in the hang after a limit or a failover
(`WorkIO`), after the crash that `Stratum` and `PoolSwitch` run into, when all
bounded switches are made and the thread waits for a URL, and when the program
has ended (`Hardware`).

**Fairness.** `ThreadQueue`: a popper that can go on does (threads of one
process, a mutex nobody holds for ever). `MCLoops`: weak fairness of the four
steps of the thread on a pool, for `LeavesOld` alone; nothing is assumed of the
stratum thread or the governor.
`Solo`: the handler goes on, a node that stopped comes back, a call succeeds
and memory is found if they can again and again (strong, on `FetchOk` and
`CreateJob`: a node that answers now and then), time passes. `WorkIO`: strong,
because a thread competes for a mutex and a node answers only now and then;
`TryAgain`, `Submit`, `KeepWork`, the switches and the limits may never happen.
`Stratum`: the threads run (strong where they need `g_work_lock` or a pool that
is up only now and then), a connection tried again and again is made, a socket
that is up takes a share in the end, and a broken connection is noticed, at the
latest after `opt_timeout`; nothing is assumed of the pool's lines or of the
miner threads' scans; one that has begun to make a header ends it.
`PoolSwitch`: the thread and every call of `pool_switch` go on, a pool that is
tried again and again lets the thread in. `Hardware`: every thread scans and
leaves, monitor and governor go on, the workio thread ends once `abort_flag` is
up; which readings a card gives is free. `Restores` asks for the card's
readings to be cool from some time on, and `SampledAgain` needs every thread to
scan: the monitor does stay with a card whose thread waits for a pool.
`AnsweredAlone` claims nothing where two threads pop one queue, because there
it fails (section 5).

## 4. Proofs

Each theorem holds for every value of the constants that their assumptions
allow.

* `ThreadQueueProofs`. The type invariant is inductive; so is `NothingLost`,
  relative to it. `NoLostWakeup` is strengthened by the types only: with a
  popper asleep, an entry is added together with a signal, which moves one
  sleeper to `woken`, and an entry leaves either by a woken popper, which gives
  up its place in the count, or by a newcomer. The refinement theorem maps each
  action to a step of `Channel` or a stutter. `LonePopperServedHolds` states
  what `workio_thread` relies on.
* `MinerLoopProofs`. `SharesDisjoint` is arithmetic about the shares
  (`UINT32_MAX / n * (t + 1) - (t + 1)`, the last one rounded up).
  `TypeCorrect` contains that no position leaves 32 bits. The inductive
  invariant of solo mining is `SoloInv`: an end is the first or the rounded end
  of its share, windows lie in their share, a thread that has submitted and not
  taken new work still finds `g_work` expired or different. Without the last
  conjunct `BlockOnce` is not inductive: another thread may refresh `g_work`
  between the submission and the next copy. `SoloLaunchesInShare` needs
  `PositionFits` besides: a thread whose position is before its share finds its
  work used up or replaced, and starts again at the beginning of the share when
  it takes the next. On a stratum pool `StratumDropsOnlySpent` needs
  `RaisedIsSpent` (a flag that is up during a scan means that its header is
  replaced or used up, or that workio raised it late), and that one rests on
  `JobInHand` (every thread behind the test for a job has one) and on
  `SpentStays`: a header that is spent stays so as long as a thread holds it. It
  is stated without the governor, whose flags mean nothing of the kind
  (`MinerLoop_governor`).
* `LoopsProofs` carries them over to the specification TLC checks. Its solo steps
  are steps of `MinerLoop` as it stands, so that `BeforeEndHolds`,
  `InShareHolds` and `OnceHolds` hold for every number of threads, nonce width
  and throughput; its stratum steps are those of an instance whose numbers meet
  the assumptions of the proofs, so that `OnlySpentHolds` holds for any headers.
* `SoloProofs`. `IInv` adds to the types and the exact counts: a job in the
  ring sits in the slot of its id (`RingSlots`), a live job has a live template
  (`JobsHaveTpls`), and each state of the handler has the locals it needs
  (`LocalsFit`). `CountNew` and `CountUnref` say how the number of jobs of a
  template changes. Two more conjuncts relate ids and addresses (`IdsFit`) and
  the extranonces to the counter (`ExtraBelow`) for `NoDrift` and
  `UniqueExtra`. `RecentKept` needs that the slot of a work holds its job (`JobsKept`) and that ids less than
  `Ring` apart have different slots, also where they wrap (`SlotsDiffer`, from
  `IdMod % Ring = 0`); `MovesOn` that while a block of ours is the tip and no
  refresh is due, the template has that tip (`TipSeen`). `CountsOnlyKept` needs
  no reference counts: its invariant `CountInv` adds that an answer still to
  come is about a block that was counted, and kept if it became the tip
  (`Pending`). Of `SoloShutdown` nothing is proved.
* `WorkIOProofs`. `OneAnswerEach` counts answers, requests and waiting threads;
  a step moves one of them at a time (`Aside`, `Asks`, `Takes`, `Answers`,
  `Pops`: one lemma for each way). Its invariant `IInv` adds who holds the
  locks (`Mutex`), that the workio thread works on the command it took
  (`CmdFits`) and, where thread 0 alone pops its queue, that nobody is woken for
  nothing (`Woken`): else a thread could leave the queue without an answer.
  `MinersSurvive` needs `Explained` on top: as long as a NULL is on its way to
  a miner thread, the count of switches differs from the one that thread has
  seen, or thread 0 stands between the two halves of a switch. A thread that
  updates its count has taken its last answer, by the count of answers.
* `StratumProofs`. `Typed` adds to the types that every header in use has a
  job. `HeadersDiffer` needs that the headers made so far lie behind the
  xnonce2 of the job in hand (`UsedBehind`), `NoShareTwice` that what the pool
  has got is in the log with its key, or is being logged (`Remembered`), and
  `DueDiff` that a work that is not torn and whose difficulty is not that of its
  job has a job older than `g_work` (`DueInTime`): the pool makes jobs in order
  and the test for stale shares compares with `g_work`. Of torn works it says
  nothing, since their shares are not stale (`Stratum_torn`).
* `HardwareProofs`. A step of `Monitor` leaves the governor's table alone
  (`OthersLeaveTable`), so each property needs the polls only. `NothingLost` is
  inductive relative to the types, `RestoreOnlyCool` needs that the ticks of a
  throttled thread are its cool readings since the last hot one
  (`TicksAreCalm`).
* `PoolSwitchProofs`. `CalmSwitchLands` and `CalmWorkIsCurrent` are about a
  switch that meets the stratum thread at rest. `CalmInv` says what such a
  switch has left behind in each of its phases: nothing is switched and the
  thread works for the present pool (`Resting`); the switch was called
  (`Called`); the pool to leave is read, and its context on the way to be saved
  (`Leaving`); the switch is counted, and `g_work`, the flags, the context and
  the URL follow one by one (`Counted`); it is done and the thread has not
  followed (`Entered`). None of it follows from the properties: that the thread
  opens the right pool in the end is due to the one context saved, to the handle
  in use being its own and to the count it has not seen yet. `SwitchesCounted`
  bounds the counts, also the one a call is about to write (`got`), and the
  URLs waiting by the switches made. The sets of pools and switchers are
  assumed finite, as `pools[]` and the threads are, and there are enough
  handles for all contexts (`HandleLeft`).

Only model-checked: every liveness property (`EveryEntryTaken`, `LeavesOld`,
`Served`, `FollowsTip`, `AnsweredAlone`, `WorkioEnds`, `Installs`, `Reconnects`,
`Settled`, `Follows`, `CalmSwitchEnds`, `Restores`, `SampledAgain`,
`EndsUnlessMissed`), which is out of the prover's reach, and the two invariants
of `SoloShutdown`. Every other invariant and action property of a passing run is
stated by a theorem.

## 5. Where the code and its comments disagree

Two have a run that ends in the counterexample, see "findings" in
`PROJECT.json`:

* A switch that meets the stratum thread as it connects makes the thread clean
  up one curl handle twice; "this thread should not die on pool switch" (2744).
  (`pools_freed`)
* The buffers of a kernel are as large as its first scan, which may be a
  throttled one. (`governor_buffers`)

The following are shown by the configuration in brackets:

* `gov_throttle` and `gov_restore` raise every restart flag; a scan that comes
  back with a nonce just then finds its flag raised (`gbxminer.cpp:2255`) and
  drops it, a block in solo. nvml.cpp:2322 promises that a stale intensity is
  the worst outcome. (`MinerLoop_governor`)
* `bitcoin_solo.cpp:11-14` says that every entry point runs on the workio
  thread; `proper_exit` calls `solo_shutdown` from any thread
  (`gbxminer.cpp:649`), and a handler that is between two steps may take a
  template that is freed and not yet set to NULL. (`SoloShutdown_overlap`)
* `abort_flag` ends the workio thread with requests in its queue (1358); the
  thread that made one holds `g_work_lock` and waits for ever, and `main` for
  it: `--time-limit`, "maximum time [s] to mine before exiting the program."
  (305), hangs. (`WorkIO_exit`)
* With two getwork pools a failed command makes the workio thread call
  `pool_switch_next` (1389), which asks the workio thread for work
  (`pools.cpp:274`): it waits for itself, and never gets to the NULL of 1390
  "get_work() will return false". (`WorkIO_failover`)
* On a getwork node a copy takes the new height over without the new header
  (1886), so that a nonce of the old header passes the test "discard if a newer
  block was received" (901). (`MinerLoop_getwork_old`)
* `bitcoin_solo.cpp:678` says of the cookie "Re-read it before giving up on a
  failed call"; only the fetch of a template does, `submitblock` (591) gives a
  block up with the old one. (`Solo_cookie`)
* "check we are on the right pool" (2713) compares a count that is raised after
  `cur_pooln` has changed and read after it, so the thread may settle on a
  connection to another pool. (`PoolSwitch_right`)
* `stratum_gen_work` tests for "job not yet retrieved" (1484) before it takes
  the lock; a job freed in between, by a lost connection, is used through a
  null pointer. (`Stratum_freed`)
* `stratum_gen_work` gives `stratum_work_lock` up at 1599 and reads `job.diff`
  from 1615 on. A notify in between gives a miner thread the header of one job
  with the target of another, and a share found for it before the new job is in
  `g_work` is sent. (`Stratum_torn`)
* The stratum thread, with a URL of before, may read the count of a switch
  (2631) and lower `pool_is_switching` (2634) between `pools.cpp:234` and 238,
  where the switch raises the flag: the thread has followed, the URL of the
  switch stays in its queue, and the flag up until a miner thread that waits
  for it gives the switch up after 35 seconds. (`PoolSwitch_flag`)
* Workio resets `g_work_time` (978) and raises the restart flags (979) without
  `g_work_lock`; when a thread replaces the work in between, the flag drops a
  result of the new header. (`MinerLoop_late`)

Met while modelling, with no configuration of their own:

* `client.reconnect` logs "Server requested reconnection to" a host
  (`util.cpp:1606`); the stratum thread connects to `pool->url` all the same.
* A nonce of 0 is never told from one sent before: the log looks up the last
  nonce of the job (`hashlog.cpp:63`), by a bit mask that other jobs match too.
* `check_dups` is raised by the first share of SHA-256 or LBRY (947), so that
  the log is used by these (or by option) only.
* nvml.cpp:2211 counts "consecutive governor polls"; polls that fail may lie
  between them (2359-2365).
* With the default intensity the throughput of the last scan is halved, also
  when no scan ran since the last restore: it is then halved again.
* `monitor_thread` starts before `main` makes the conditions it waits for
  (3990, 4026), and a signal of `main` at the end is lost when the monitor is
  between its test of `abort_flag` and its wait (2411, 2427): `main` then joins
  for ever. `EndsUnlessMissed` names the window.
* `main` raises `abort_flag` (4042) before it calls `proper_exit` (4065), which
  returns at once when the flag is up (641): nothing is cleaned up and
  `app_exit_code` is never returned.
* `scanhash_lyra2v2` asks for the throughput of `dev_id` (lyra2REv2.cu:89)
  where others pass `thr_id`.
* A share that repeats an earlier one drops the results other threads find for
  the same header at that moment (977-979, 2255): `OnlySpent` allows it,
  because the header is used up and is replaced next.
* The log of shares is a `std::map` without a lock, searched by the workio
  thread and purged by the stratum thread.
* The extranonce of solo jobs starts again with each fetch (391). A fetch forced
  after a block was sent may bring the same template once more, with the headers
  of before; `UniqueExtra` is about one fetched template.
* `bitcoin_solo.cpp:79` calls its limit the "seconds before a stale template is
  fatal"; the age is computed from a time read before the call to the node
  (374, 393), so it may be passed by the length of the call.
* A block the node kept counts as rejected when the next block was faster or
  the answer to `getbestblockhash` was lost (594-631).
* Two solo threads that scan one header may both submit a block for it; the
  reset of `g_work_time` (`gbxminer.cpp:2389`) comes after the submission and
  does not stop the others. The comment above says that a block cannot be
  submitted twice.
* The first work of a getwork node differs in height from the zeroed private
  copy, so the copy takes only height and target (1878) and one scan of zeroed
  data follows; "prevent gpu scans before a job is received" (1947) is tested
  for stratum only.
* On a stratum pool a thread at the end of its share starts behind it when a
  job of another height arrives, because the reset at 1887 is commented out:
  the branch that "should not happen" (2140) sends it through the shares of the
  others.
* A request for work answered NULL between `pools.cpp:178` and 233 ends the
  miner thread for good: `MinersSurvive` names the window.
* With the API switching pools, thread 0 and the API thread pop the same queue.
  Either may take the other's answer: thread 0 then ends (NULL with no switch
  to explain it) or the API thread, which holds `stratum_work_lock`, is passed
  over for ever, and the answer left over puts later ones behind by one.

## 6. Not modelled

`PROJECT.json` "components" has every part with its status and the reason. By
far most of the repository's lines are kernels, host hashes and vendored code
(`sph/`, `compat/`, the algorithm directories): functions of a header and a
nonce range without state between calls, out of a model checker's reach and
not what goes wrong between threads. Of the core files the models cover the
loops of the threads, not their configuration, logging, JSON and statistics.

Left out on purpose, although threads meet there:

* Pools of mixed kinds. With a getwork and a stratum pool, `pool_switch` holds
  `stratum_work_lock` while it waits for the workio thread (`pools.cpp:271`),
  which may wait for `g_work_lock` (`gbxminer.cpp:904`), whose holder may wait
  for `stratum_work_lock` (1489): a circle no model here contains.
* The longpoll thread, whose effect on the miners is that of a refresh.
* Benchmark mode and its two barriers (`bench.cpp`).
* The answers of a stratum pool to shares, matched by an id that every thread
  resets when it copies a new job (1876), also when it has sent shares already.
* A share found on the pool before a switch, which is sent on the connection of
  the pool after it if both use one job id (903, 1013): `Stratum` has one pool.
* A change of algorithm with a switch of pools ("not proper", `pools.cpp:212`).
* `proper_exit` but for `solo_shutdown`, the signal handler, and the serialisation
  of `solo_script.cpp`.
