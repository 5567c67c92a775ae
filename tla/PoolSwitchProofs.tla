-------------------------- MODULE PoolSwitchProofs --------------------------
(***************************************************************************)
(* Proofs about switching between stratum pools: the types, and that a     *)
(* switch which meets the stratum thread at rest leads to the pool asked   *)
(* for.  Such a switch goes through five phases, told apart by what the    *)
(* switcher has done and by whether the thread has seen the count.         *)
(***************************************************************************)
EXTENDS PoolSwitch, FiniteSetTheorems, TLAPS

\* Calls of pool_switch on their way, and those not counted so far.
Busy == {s \in Switchers : sw[s] # "idle"}
Uncounted == {s \in Switchers :
                 sw[s] \in {"save", "free", "copy", "enter", "test", "count"}}

\* Each switch is counted at most once and sends at most one URL.
SwitchesCounted ==
    /\ count + Cardinality(Uncounted) <= started
    /\ \A s \in Switchers : sw[s] = "count" => got[s] + Cardinality(Uncounted) <= started
    /\ urls + Cardinality(Busy) <= started + 1

Alone(s) == \A t \in Switchers \ {s} : sw[t] = "idle"

Places(s, places) == IF s = StratumThread THEN {"failover"} ELSE places

\* Only the pool left holds a context, and its handle can be cleaned up.
OneSaved(p) == /\ saved[p].curl \in alive \union {0}
               /\ \A q \in Pools \ {p} : saved[q] = Empty

\* The thread serves the current pool, and the handle in use is its own.
Steady == /\ sn = count /\ sp = cur
          /\ ctx.curl # 0 => ctx.curl \in alive /\ dest[ctx.curl] = sp
          /\ ctx.job \in {None, sp} /\ gwork \in {None, sp}
          /\ \A p \in Pools : saved[p] = Empty
          /\ reset => pcs \in {"clear", "unreset"}
          /\ pcs \in {"online", "install", "check", "wait"} => ctx.curl # 0
          /\ pcs \in {"recheck", "handle"} => line \in {None, sp}
          /\ pcs \notin {"switched", "gone"}

\* The phases.  Nothing is being switched.
Resting == Quiet /\ Steady

\* The switch has been called.
Called(s) == /\ sw[s] = "save" /\ Steady
             /\ urls = 0 /\ target[s] # cur
             /\ pcs \notin {"url", "begin", "switchn", "clear", "unreset"}
             /\ s = StratumThread => pcs = "failover"

\* The pool to leave is read, the switch not counted: the job of the context is
\* freed and then the context saved.
Leaving(s) == /\ sw[s] \in {"free", "copy", "enter", "test", "count"}
              /\ sn = count /\ urls = 0
              /\ from[s] = sp /\ target[s] # sp
              /\ cur = IF sw[s] \in {"test", "count"} THEN target[s] ELSE sp
              /\ sw[s] = "count" => got[s] = count
              /\ sw[s] # "free" => ctx.job = None
              /\ sw[s] \in {"free", "copy"} =>
                    saved[sp] = Empty /\ ctx.curl \in alive \union {0}
              /\ OneSaved(sp)
              /\ pcs \in Places(s, {"wait", "recheck"})

\* The switch is counted, and no URL sent.
Counted(s) == /\ sw[s] \in {"blank", "flag", "reset", "load", "push"}
              /\ sn # count /\ urls = 0
              /\ cur = target[s] /\ target[s] # sp
              /\ ctx.job = None /\ (sw[s] # "blank" => gwork = None)
              /\ sw[s] = "push" => ctx = Empty
              /\ OneSaved(sp)
              /\ pcs \in Places(s, {"wait", "recheck", "switched", "url"})
              /\ pcs = "url" => saved[sp] = Empty

\* The switch is done, and the thread has not followed.
Entered == /\ Quiet /\ sn # count
           /\ ctx = Empty /\ gwork = None /\ OneSaved(sp)
           /\ pcs \in {"failover", "retry", "wait", "recheck", "switched", "url", "begin",
                       "switchn"}
           /\ pcs \in {"url", "begin", "switchn"} => saved[sp] = Empty
           /\ pcs = "switchn" => sp = cur

Phases == \/ Resting
          \/ \E s \in Switchers : Alone(s) /\ (Called(s) \/ Leaving(s) \/ Counted(s))
          \/ Entered

CalmInv == calm => Phases

IInv == TypeOK /\ SwitchesCounted /\ CalmInv
-----------------------------------------------------------------------------
\* There is a handle nobody holds.
LEMMA HandleLeft == ASSUME TypeOK
                    PROVE  \E h \in Handles : h \notin Held
<1> DEFINE f == [p \in Pools |-> saved[p].curl]
           Kept == {saved[p].curl : p \in Pools}
<1>1. f \in Surjection(Pools, Kept)
  BY DEF Surjection
<1>2. IsFiniteSet(Kept) /\ Cardinality(Kept) <= Cardinality(Pools)
  BY <1>1, FS_Surjection, PoolAssumption DEF PoolAssumption
<1> HIDE DEF Kept
<1>3. ASSUME NEW S, IsFiniteSet(S), NEW x
      PROVE  /\ IsFiniteSet(S \union {x})
             /\ Cardinality(S \union {x}) \in Nat /\ Cardinality(S) \in Nat
             /\ Cardinality(S \union {x}) <= Cardinality(S) + 1
  <2>1. Cardinality(S) \in Nat
    BY <1>3, FS_CardinalityType
  <2>2. /\ IsFiniteSet(S \union {x})
        /\ Cardinality(S \union {x}) = IF x \in S THEN Cardinality(S) ELSE Cardinality(S) + 1
    BY ONLY <1>3, FS_AddElement
  <2> QED
    BY <2>1, <2>2
<1>4. /\ IsFiniteSet((Kept \union {opened}) \union {ctx.curl})
      /\ Cardinality((Kept \union {opened}) \union {ctx.curl}) <= Cardinality(Kept) + 2
  <2>1. /\ IsFiniteSet(Kept \union {opened}) /\ Cardinality(Kept) \in Nat
        /\ Cardinality(Kept \union {opened}) \in Nat
        /\ Cardinality(Kept \union {opened}) <= Cardinality(Kept) + 1
    BY ONLY <1>2, <1>3
  <2>2. /\ IsFiniteSet((Kept \union {opened}) \union {ctx.curl})
        /\ Cardinality((Kept \union {opened}) \union {ctx.curl}) \in Nat
        /\ Cardinality((Kept \union {opened}) \union {ctx.curl})
              <= Cardinality(Kept \union {opened}) + 1
    BY ONLY <2>1, <1>3
  <2> QED
    BY ONLY <2>1, <2>2
<1>5. Held = (Kept \union {opened}) \union {ctx.curl}
  BY DEF Held, Kept
<1>6. Cardinality(Held) < Cardinality(Handles) /\ IsFiniteSet(Held)
  BY <1>2, <1>4, <1>5, FS_CardinalityType, PoolAssumption DEF PoolAssumption
<1>7. CASE Handles \subseteq Held
  BY <1>6, <1>7, FS_Subset, FS_CardinalityType, PoolAssumption DEF PoolAssumption
<1> QED
  BY <1>7

\* The steps of the stratum thread and of the miners.
OtherStep == ThreadStep \/ MinerGens \/ SwitchTimesOut \/ UNCHANGED vars

\* Counting and sending are left to the switchers.
LEMMA OthersLeaveCalls ==
    ASSUME OtherStep, urls \in Nat
    PROVE  /\ UNCHANGED <<sw, from, target, got, started, count, cur>>
           /\ urls' = urls \/ (urls' = urls - 1 /\ urls > 0)
<1>1. CASE TakeUrl
  BY <1>1 DEF TakeUrl, global, calls
<1>2. CASE Begin \/ ReadCount \/ ClearFlag \/ ClearReset \/ Top \/ Loop \/ Open \/ Perform
  BY <1>2 DEF Begin, ReadCount, ClearFlag, ClearReset, Top, Loop, Open, Perform, global, calls
<1>3. CASE Login \/ LoginFails \/ Failed \/ FailedOver \/ Retry \/ Online
  BY <1>3 DEF Login, LoginFails, Failed, FailedOver, Retry, Online, global, calls
<1>4. CASE Install \/ Check \/ Wait \/ Recheck \/ Cut \/ Handle
  BY <1>4 DEF Install, Check, Wait, Recheck, Cut, Handle, global, calls
<1>5. CASE Switched \/ FreeAgain \/ MinerGens \/ SwitchTimesOut \/ UNCHANGED vars
  BY <1>5 DEF Switched, FreeAgain, MinerGens, SwitchTimesOut, Die, vars, global, calls
<1> QED
  BY <1>1, <1>2, <1>3, <1>4, <1>5 DEF OtherStep, ThreadStep

\* What the calls under way are counted by.
LEMMA Sizes == ASSUME TypeOK
               PROVE  /\ IsFiniteSet(Busy) /\ Cardinality(Busy) \in Nat
                      /\ IsFiniteSet(Uncounted) /\ Cardinality(Uncounted) \in Nat
BY FS_Subset, FS_CardinalityType, PoolAssumption DEF PoolAssumption, Busy, Uncounted

\* A call under way leaves room for its count and its URL.
LEMMA RoomLeft == ASSUME TypeOK, SwitchesCounted, NEW s \in Switchers
                  PROVE  /\ sw[s] = "count" => got[s] + 1 <= MaxSwitches
                         /\ sw[s] = "push" => urls <= MaxSwitches
<1>1. sw[s] = "count" => Cardinality(Uncounted) # 0
  BY Sizes, FS_EmptySet DEF Uncounted
<1>2. sw[s] = "push" => Cardinality(Busy) # 0
  BY Sizes, FS_EmptySet DEF Busy
<1>3. got[s] \in Nat /\ started \in Nat /\ started <= MaxSwitches /\ urls \in Nat
  BY PoolAssumption DEF PoolAssumption, TypeOK
<1> QED
  BY <1>1, <1>2, <1>3, Sizes, PoolAssumption DEF PoolAssumption, SwitchesCounted

\* The steps of the stratum thread keep the types.
LEMMA ThreadTypes == ASSUME TypeOK, OtherStep
                     PROVE  TypeOK'
<1>1. CASE TakeUrl
  BY <1>1, PoolAssumption DEF PoolAssumption, TypeOK, TakeUrl, Go, calls,
     conns, global
<1>2. CASE Begin \/ ReadCount
  BY <1>2, PoolAssumption DEF PoolAssumption, TypeOK, Begin, ReadCount, CountRead,
     calls, conns, global
<1>3. CASE ClearFlag \/ ClearReset
  <2>1. CASE ClearFlag
    BY <2>1 DEF TypeOK, ClearFlag, EndSwitching, Go, calls, conns
  <2>2. CASE ClearReset
    BY <2>2 DEF TypeOK, ClearReset, Go, calls, conns
  <2> QED
    BY <1>3, <2>1, <2>2
<1>4. CASE Loop
  BY <1>4, PoolAssumption DEF PoolAssumption, TypeOK, Loop, Go, calls, conns,
     global
<1>5. CASE Open
  <2> DEFINE fresh == CHOOSE h \in Handles : h \notin Held
  <2>1. fresh \in Handles
    BY HandleLeft
  <2>2. /\ ctx' = [ctx EXCEPT !.curl = fresh] /\ opened' = fresh
        /\ alive' = ((alive \ {ctx.curl}) \intersect Held) \union {fresh}
        /\ dest' = [dest EXCEPT ![fresh] = sp]
    BY <1>5 DEF Open
  <2> HIDE DEF fresh
  <2> QED
    BY <1>5, <2>1, <2>2 DEF TypeOK, Open, calls, global
<1>6. CASE Perform
  BY <1>6, PoolAssumption DEF PoolAssumption, TypeOK, Perform, CleanUp, Go,
     calls, conns, global
<1>7. CASE Login
  BY <1>7, PoolAssumption DEF PoolAssumption, TypeOK, Login, Go, calls, global
<1>8. CASE LoginFails
  BY <1>8, PoolAssumption DEF PoolAssumption, TypeOK, LoginFails, Go, calls,
     conns, global
<1>9. CASE Failed
  BY <1>9, PoolAssumption DEF PoolAssumption, TypeOK, Failed, CleanUp,
     Dangling, DropContext, Empty, Go, calls, global
<1>10. CASE FailedOver
  BY <1>10, PoolAssumption DEF PoolAssumption, TypeOK, FailedOver, Go, calls,
     conns, global
<1>11. CASE Retry
  BY <1>11, PoolAssumption DEF PoolAssumption, TypeOK, Retry, Go, Unless,
     calls, conns, global
<1>12. CASE Online
  BY <1>12, PoolAssumption DEF PoolAssumption, TypeOK, Online, Go, Unless,
     calls, conns, global
<1>13. CASE Install
  BY <1>13, PoolAssumption DEF PoolAssumption, TypeOK, Install, GenWork, Go,
     calls, conns, global
<1>14. CASE Check
  BY <1>14, PoolAssumption DEF PoolAssumption, TypeOK, Check, Go, Unless,
     calls, conns, global
<1>15. CASE Wait
  BY <1>15, PoolAssumption DEF PoolAssumption, TypeOK, Wait, calls, conns,
     global
<1>16. CASE Recheck
  BY <1>16, PoolAssumption DEF PoolAssumption, TypeOK, Recheck, Go, Quiet,
     Unless, conns, global
<1>17. CASE Cut
  BY <1>17, PoolAssumption DEF PoolAssumption, TypeOK, Cut, CleanUp, Dangling,
     DropContext, Empty, Go, calls, global
<1>18. CASE Handle
  BY <1>18, PoolAssumption DEF PoolAssumption, TypeOK, Handle, Go, calls,
     global
<1>19. CASE Switched
  BY <1>19, PoolAssumption DEF PoolAssumption, TypeOK, Switched, CleanUp,
     Dangling, Empty, Go, calls, global
<1>20. CASE FreeAgain
  BY <1>20, PoolAssumption DEF PoolAssumption, TypeOK, FreeAgain, Dangling,
     Die, calls, conns, global
<1>21. CASE MinerGens
  BY <1>21, PoolAssumption DEF PoolAssumption, TypeOK, MinerGens, GenWork,
     calls, conns, global, thread
<1>22. CASE SwitchTimesOut
  BY <1>22, PoolAssumption DEF PoolAssumption, TypeOK, SwitchTimesOut, calls,
     conns, thread
<1>23. CASE Top
  <2>1. CASE reset
    <3>1. DropContext
      BY <1>23, <2>1 DEF Top
    <3>2. alive' \subseteq Handles
      BY <3>1 DEF DropContext, CleanUp, TypeOK
    <3> QED
      BY <1>23, <3>1, <3>2 DEF TypeOK, Top, DropContext, Empty, Go, calls
  <2>2. CASE ~reset
    BY <1>23, <2>2 DEF TypeOK, Top, Go, calls, conns
  <2> QED
    BY <2>1, <2>2
<1>24. CASE UNCHANGED vars
  BY <1>24 DEF TypeOK, vars, global, conns, thread, calls
<1> QED
  BY <1>1, <1>2, <1>3, <1>4, <1>5, <1>6, <1>7, <1>8, <1>9, <1>10, <1>11,
     <1>12, <1>13, <1>14, <1>15, <1>16, <1>17, <1>18, <1>19, <1>20, <1>21,
     <1>22, <1>23, <1>24 DEF OtherStep, ThreadStep

\* The steps of a switcher keep the types.
LEMMA SwitcherTypes ==
    ASSUME TypeOK, SwitchesCounted,
           NEW s \in Switchers, CallSwitch(s) \/ SwitchStep(s)
    PROVE  TypeOK'
<1>1. CASE CallSwitch(s)
  BY <1>1, PoolAssumption DEF PoolAssumption, TypeOK, CallSwitch, Followed,
     Quiet, conns, global, thread
<1>2. CASE Leave(s)
  BY <1>2 DEF TypeOK, Leave, GoOn, Calm, global, conns, thread
<1>3. CASE FreeJob(s)
  BY <1>3 DEF TypeOK, FreeJob, GoOn, Calm, global, thread
<1>4. CASE Save(s)
  BY <1>4 DEF TypeOK, Save, GoOn, Calm, global, thread
<1>5. CASE Enter(s)
  BY <1>5 DEF TypeOK, Enter, GoOn, Calm, conns, thread
<1>6. CASE Test(s)
  BY <1>6, PoolAssumption DEF PoolAssumption, TypeOK, Test, GoOn, Calm, global, conns, thread
<1>7. CASE Count(s)
  <2>1. count' \in 0..MaxSwitches
    BY <1>7, RoomLeft, PoolAssumption DEF PoolAssumption, TypeOK, Count
  <2> QED
    BY <1>7, <2>1 DEF TypeOK, Count, GoOn, Calm, conns, thread
<1>8. CASE Blank(s)
  BY <1>8 DEF TypeOK, Blank, BlankWork, GoOn, Calm, global, conns, thread
<1>9. CASE RaiseFlag(s)
  BY <1>9 DEF TypeOK, RaiseFlag, GoOn, Calm, conns, thread
<1>10. CASE RaiseReset(s)
  BY <1>10 DEF TypeOK, RaiseReset, GoOn, Calm, conns, thread
<1>11. CASE Load(s)
  BY <1>11 DEF TypeOK, Load, LoadContext, GoOn, Calm, global, thread
<1>12. CASE Push(s)
  <2>1. urls' \in 0..MaxSwitches + 1
    BY <1>12, RoomLeft, PoolAssumption DEF PoolAssumption, TypeOK, Push, PushUrl
  <2> QED
    BY <1>12, <2>1 DEF TypeOK, Push, GoOn, Calm, global, conns, thread
<1> QED
  BY <1>1, <1>2, <1>3, <1>4, <1>5, <1>6, <1>7, <1>8, <1>9, <1>10, <1>11, <1>12
  DEF SwitchStep

\* Each switch is counted at most once, and sends at most one URL.
LEMMA CountsKept == ASSUME TypeOK, SwitchesCounted, [Next]_vars
                    PROVE  SwitchesCounted'
<1> DEFINE U == Cardinality(Uncounted)
           B == Cardinality(Busy)
<1>1. /\ U \in Nat /\ B \in Nat /\ urls \in Nat /\ count \in Nat /\ started \in Nat
      /\ \A s \in Switchers : got[s] \in Nat
  BY Sizes, PoolAssumption DEF PoolAssumption, TypeOK
<1>2. CASE OtherStep
  <2>1. /\ UNCHANGED <<sw, got, started, count>>
        /\ urls' = urls \/ (urls' = urls - 1 /\ urls > 0)
    BY <1>2, OthersLeaveCalls DEF TypeOK
  <2>2. Busy' = Busy /\ Uncounted' = Uncounted
    BY <2>1 DEF Busy, Uncounted
  <2> QED
    BY <1>1, <2>1, <2>2 DEF SwitchesCounted
<1>3. ASSUME NEW s \in Switchers, CallSwitch(s)
      PROVE  SwitchesCounted'
  <2>1. /\ Busy' = Busy \union {s} /\ s \notin Busy
        /\ Uncounted' = Uncounted \union {s} /\ s \notin Uncounted
    BY <1>3 DEF CallSwitch, Busy, Uncounted, TypeOK
  <2>2. B' = B + 1 /\ U' = U + 1
    BY <2>1, Sizes, FS_AddElement
  <2>3. /\ started' = started + 1 /\ UNCHANGED <<count, urls, got>>
        /\ \A t \in Switchers : sw'[t] = "count" => sw[t] = "count"
    BY <1>3 DEF CallSwitch, global, TypeOK
  <2> QED
    BY <1>1, <2>2, <2>3 DEF SwitchesCounted
<1>4. ASSUME NEW s \in Switchers,
             \/ Leave(s) \/ FreeJob(s) \/ Save(s) \/ Enter(s)
             \/ Blank(s) \/ RaiseFlag(s) \/ RaiseReset(s) \/ Load(s)
      PROVE  SwitchesCounted'
  <2>1. /\ UNCHANGED <<started, count, urls, got>>
        /\ \A t \in Switchers : t # s => sw'[t] = sw[t]
        /\ \/ sw[s] = "save" /\ sw'[s] = "free"
           \/ sw[s] = "free" /\ sw'[s] = "copy"
           \/ sw[s] = "copy" /\ sw'[s] = "enter"
           \/ sw[s] = "enter" /\ sw'[s] = "test"
           \/ sw[s] = "blank" /\ sw'[s] = "flag"
           \/ sw[s] = "flag" /\ sw'[s] = "reset"
           \/ sw[s] = "reset" /\ sw'[s] = "load"
           \/ sw[s] = "load" /\ sw'[s] = "push"
    BY <1>4 DEF Leave, FreeJob, Save, Enter, Blank, RaiseFlag, RaiseReset, Load, GoOn,
       global, TypeOK
  <2>2. Busy' = Busy /\ Uncounted' = Uncounted
    BY <2>1 DEF Busy, Uncounted
  <2>3. \A t \in Switchers : sw'[t] = "count" => sw[t] = "count"
    BY <2>1
  <2> QED
    BY <2>1, <2>2, <2>3 DEF SwitchesCounted
<1>5. ASSUME NEW s \in Switchers, Test(s)
      PROVE  SwitchesCounted'
  <2>1. /\ UNCHANGED <<started, count, urls>> /\ sw[s] = "test"
        /\ sw'[s] \in {"idle", "count"} /\ got'[s] = count
        /\ \A t \in Switchers : t # s => sw'[t] = sw[t] /\ got'[t] = got[t]
    BY <1>5 DEF Test, GoOn, global, TypeOK
  <2>2. CASE sw'[s] = "idle"
    <3>1. /\ Uncounted' = Uncounted \ {s} /\ s \in Uncounted
          /\ Busy' = Busy \ {s} /\ s \in Busy
      BY <2>1, <2>2 DEF Busy, Uncounted
    <3>2. U' = U - 1 /\ B' = B - 1
      BY <3>1, Sizes, FS_RemoveElement
    <3>3. \A t \in Switchers : sw'[t] = "count" => sw[t] = "count" /\ got'[t] = got[t]
      BY <2>1, <2>2
    <3> QED
      BY <1>1, <2>1, <3>2, <3>3 DEF SwitchesCounted
  <2>3. CASE sw'[s] = "count"
    <3>1. Uncounted' = Uncounted /\ Busy' = Busy
      BY <2>1, <2>3 DEF Busy, Uncounted
    <3>2. \A t \in Switchers : sw'[t] = "count" =>
             \/ got'[t] = count
             \/ sw[t] = "count" /\ got'[t] = got[t]
      BY <2>1
    <3> QED
      BY <1>1, <2>1, <3>1, <3>2 DEF SwitchesCounted
  <2> QED
    BY <2>1, <2>2, <2>3
<1>6. ASSUME NEW s \in Switchers, Count(s)
      PROVE  SwitchesCounted'
  <2>1. /\ UNCHANGED <<started, urls, got>> /\ count' = got[s] + 1
        /\ sw[s] = "count" /\ sw'[s] = "blank"
        /\ \A t \in Switchers : t # s => sw'[t] = sw[t]
    BY <1>6 DEF Count, GoOn, TypeOK
  <2>2. Uncounted' = Uncounted \ {s} /\ s \in Uncounted /\ Busy' = Busy
    BY <2>1 DEF Busy, Uncounted
  <2>3. U' = U - 1
    BY <2>2, Sizes, FS_RemoveElement
  <2>4. \A t \in Switchers : sw'[t] = "count" => sw[t] = "count"
    BY <2>1
  <2> QED
    BY <1>1, <2>1, <2>2, <2>3, <2>4 DEF SwitchesCounted
<1>7. ASSUME NEW s \in Switchers, Push(s)
      PROVE  SwitchesCounted'
  <2>1. /\ UNCHANGED <<started, count, got>> /\ urls' = urls + 1
        /\ sw[s] = "push" /\ sw'[s] = "idle"
        /\ \A t \in Switchers : t # s => sw'[t] = sw[t]
    BY <1>7 DEF Push, PushUrl, GoOn, global, TypeOK
  <2>2. Uncounted' = Uncounted /\ Busy' = Busy \ {s} /\ s \in Busy
    BY <2>1 DEF Busy, Uncounted
  <2>3. B' = B - 1
    BY <2>2, Sizes, FS_RemoveElement
  <2>4. \A t \in Switchers : sw'[t] = "count" => sw[t] = "count"
    BY <2>1
  <2> QED
    BY <1>1, <2>1, <2>2, <2>3, <2>4 DEF SwitchesCounted
<1> QED
  BY <1>2, <1>3, <1>4, <1>5, <1>6, <1>7 DEF Next, OtherStep, SwitchStep
-----------------------------------------------------------------------------
\* A steady thread stays steady until the next switch.
LEMMA SteadyKept == ASSUME TypeOK, Steady, OtherStep
                    PROVE  Steady'
<1>1. CASE TakeUrl
  BY <1>1, PoolAssumption DEF PoolAssumption, TypeOK, Steady, TakeUrl, Go,
     calls, conns, global
<1>2. CASE Begin \/ ReadCount
  BY <1>2, PoolAssumption DEF PoolAssumption, TypeOK, Steady, Begin, ReadCount,
     CountRead, calls, conns, global
<1>3. CASE ClearFlag \/ ClearReset
  BY <1>3, PoolAssumption DEF PoolAssumption, TypeOK, Steady, ClearFlag, ClearReset,
     EndSwitching, Go, calls, conns
<1>4. CASE Top
  BY <1>4, PoolAssumption DEF PoolAssumption, TypeOK, Steady, Top, CleanUp,
     Dangling, DropContext, Empty, Go, calls, conns
<1>5. CASE Loop
  BY <1>5, PoolAssumption DEF PoolAssumption, TypeOK, Steady, Loop, Go, calls,
     conns, global
<1>6. CASE Open
  <2> DEFINE fresh == CHOOSE h \in Handles : h \notin Held
  <2>1. fresh \in Handles
    BY HandleLeft
  <2>2. /\ ctx' = [ctx EXCEPT !.curl = fresh]
        /\ alive' = ((alive \ {ctx.curl}) \intersect Held) \union {fresh}
        /\ dest' = [dest EXCEPT ![fresh] = sp]
    BY <1>6 DEF Open
  <2> HIDE DEF fresh
  <2>3. ctx'.curl \in alive' /\ dest'[ctx'.curl] = sp /\ ctx'.job = ctx.job
    BY <2>1, <2>2 DEF TypeOK
  <2> QED
    BY <1>6, <2>3 DEF TypeOK, Steady, Open, calls, global
<1>7. CASE Perform
  BY <1>7, PoolAssumption DEF PoolAssumption, TypeOK, Steady, Perform,
     CleanUp, Go, calls, conns, global
<1>8. CASE Login
  BY <1>8, PoolAssumption DEF PoolAssumption, TypeOK, Steady, Login, Go,
     calls, global
<1>9. CASE LoginFails
  BY <1>9, PoolAssumption DEF PoolAssumption, TypeOK, Steady, LoginFails, Go,
     calls, conns, global
<1>10. CASE Failed
  BY <1>10, PoolAssumption DEF PoolAssumption, TypeOK, Steady, Failed,
     CleanUp, Dangling, DropContext, Empty, Go, calls, global
<1>11. CASE FailedOver
  BY <1>11, PoolAssumption DEF PoolAssumption, TypeOK, Steady, FailedOver, Go,
     calls, conns, global
<1>12. CASE Retry
  BY <1>12, PoolAssumption DEF PoolAssumption, TypeOK, Steady, Retry, Go,
     Unless, calls, conns, global
<1>13. CASE Online
  BY <1>13, PoolAssumption DEF PoolAssumption, TypeOK, Steady, Online, Go,
     Unless, calls, conns, global
<1>14. CASE Install
  BY <1>14, PoolAssumption DEF PoolAssumption, TypeOK, Steady, Install,
     GenWork, Go, calls, conns, global
<1>15. CASE Check
  BY <1>15, PoolAssumption DEF PoolAssumption, TypeOK, Steady, Check, Go,
     Unless, calls, conns, global
<1>16. CASE Wait
  BY <1>16, PoolAssumption DEF PoolAssumption, TypeOK, Steady, Wait, calls,
     conns, global
<1>17. CASE Recheck
  BY <1>17, PoolAssumption DEF PoolAssumption, TypeOK, Steady, Recheck, Go,
     Unless, conns, global
<1>18. CASE Cut
  BY <1>18, PoolAssumption DEF PoolAssumption, TypeOK, Steady, Cut, CleanUp,
     Dangling, DropContext, Empty, Go, calls, global
<1>19. CASE Handle
  BY <1>19, PoolAssumption DEF PoolAssumption, TypeOK, Steady, Handle, Go,
     calls, global
<1>20. CASE Switched
  BY <1>20, PoolAssumption DEF PoolAssumption, TypeOK, Steady, Switched,
     CleanUp, Dangling, Empty, Go, calls, global
<1>21. CASE FreeAgain
  BY <1>21, PoolAssumption DEF PoolAssumption, TypeOK, Steady, FreeAgain,
     Dangling, Die, calls, conns, global
<1>22. CASE MinerGens
  BY <1>22, PoolAssumption DEF PoolAssumption, TypeOK, Steady, MinerGens,
     GenWork, calls, conns, global, thread
<1>23. CASE SwitchTimesOut
  BY <1>23, PoolAssumption DEF PoolAssumption, TypeOK, Steady, SwitchTimesOut,
     calls, conns, thread
<1>24. CASE UNCHANGED vars
  BY <1>24 DEF Steady, vars, global, conns, thread, calls
<1> QED
  BY <1>1, <1>2, <1>3, <1>4, <1>5, <1>6, <1>7, <1>8, <1>9, <1>10, <1>11,
     <1>12, <1>13, <1>14, <1>15, <1>16, <1>17, <1>18, <1>19, <1>20, <1>21,
     <1>22, <1>23, <1>24 DEF OtherStep, ThreadStep

\* While a call is on its way there is no other.
LEMMA OneCall == ASSUME Phases, NEW s \in Switchers, sw[s] # "idle"
                 PROVE  Alone(s) /\ (Called(s) \/ Leaving(s) \/ Counted(s))
<1>1. PICK t \in Switchers : Alone(t) /\ (Called(t) \/ Leaving(t) \/ Counted(t))
  BY DEF Phases, Resting, Entered, Quiet
<1>2. t = s
  BY <1>1 DEF Alone
<1> QED
  BY <1>1, <1>2

\* What may happen while the thread waits or follows a switch.
LEMMA StepsAtRest ==
    ASSUME OtherStep,
           pcs \in {"failover", "retry", "wait", "recheck", "switched", "url", "begin",
                    "switchn"}
    PROVE  \/ FailedOver \/ Retry \/ Wait \/ Recheck \/ Switched \/ TakeUrl \/ Begin
           \/ ReadCount \/ MinerGens \/ SwitchTimesOut \/ UNCHANGED vars
           \/ pcs = "switched" /\ Dangling(saved[sp].curl)
<1>1. ~(ClearFlag \/ ClearReset \/ Top \/ Loop \/ Open \/ Perform \/ Login \/ LoginFails)
  BY DEF ClearFlag, ClearReset, Top, Loop, Open, Perform, Login, LoginFails
<1>2. ~(Failed \/ Online \/ Install \/ Check \/ Cut \/ Handle)
  BY DEF Failed, Online, Install, Check, Cut, Handle
<1>3. FreeAgain => pcs = "switched" /\ Dangling(saved[sp].curl)
  BY DEF FreeAgain
<1> QED
  BY <1>1, <1>2, <1>3 DEF OtherStep, ThreadStep

\* The stratum thread and the miners stay within a phase, or end the last one.
LEMMA ThreadPhases == ASSUME TypeOK, Phases, OtherStep, calm'
                      PROVE  Phases'
<1>1. /\ UNCHANGED <<sw, from, target, got, started, count, cur>>
      /\ urls' = urls \/ (urls' = urls - 1 /\ urls > 0)
  BY OthersLeaveCalls DEF TypeOK
<1>2. (urls = 0 => urls' = 0) /\ (Quiet => Quiet')
  BY <1>1 DEF Quiet, TypeOK
<1>3. CASE Resting
  BY <1>2, <1>3, SteadyKept DEF Resting, Phases
<1>4. ASSUME NEW s \in Switchers, Alone(s), Called(s)
      PROVE  Alone(s)' /\ Called(s)'
  <2>1. Steady' /\ Alone(s)'
    BY <1>1, <1>4, SteadyKept DEF Called, Alone
  <2>2. pcs' \notin {"url", "begin", "switchn", "clear", "unreset"} /\ (s = StratumThread => pcs' = "failover")
    <3>1. CASE Top \/ Loop \/ Open \/ Perform \/ Login \/ LoginFails
      BY <1>4, <3>1 DEF Called, Top, Loop, Open, Perform, Login, LoginFails, Go
    <3>2. CASE Failed \/ FailedOver \/ Retry \/ Online \/ Install
      BY <1>4, <3>2 DEF Called, Steady, Failed, FailedOver, Retry, Online, Install, Unless, Go
    <3>3. CASE Check \/ Wait \/ Recheck \/ Cut \/ Handle
      BY <1>4, <3>3 DEF Called, Steady, Check, Wait, Recheck, Cut, Handle, Unless, Go
    <3>4. CASE TakeUrl \/ Begin \/ ReadCount \/ ClearFlag \/ ClearReset \/ Switched
      BY <1>4, <3>4 DEF Called, Steady, TakeUrl, Begin, ReadCount, ClearFlag, ClearReset, Switched
    <3>5. CASE FreeAgain
      BY <2>1, <3>5 DEF Steady, FreeAgain, Die
    <3>6. CASE MinerGens \/ SwitchTimesOut \/ UNCHANGED vars
      BY <1>4, <3>6 DEF Called, MinerGens, SwitchTimesOut, thread, vars
    <3> QED
      BY <3>1, <3>2, <3>3, <3>4, <3>5, <3>6 DEF OtherStep, ThreadStep
  <2> QED
    BY <1>1, <1>2, <1>4, <2>1, <2>2 DEF Called
<1>5. ASSUME NEW s \in Switchers, Alone(s), Leaving(s)
      PROVE  Alone(s)' /\ Leaving(s)'
  <2>1. /\ pcs \in {"failover", "wait", "recheck"} /\ ~Quiet
        /\ pcs = "failover" => s = StratumThread
    BY <1>5 DEF Leaving, Places, Quiet
  <2>2. Wait \/ MinerGens \/ SwitchTimesOut \/ UNCHANGED vars
    <3>1. ~FailedOver
      BY <1>5, <2>1 DEF Leaving, FailedOver
    <3>2. ~Recheck
      BY <1>5, <2>1 DEF Leaving, Recheck
    <3>3. ~(Retry \/ Switched \/ TakeUrl \/ Begin \/ ReadCount)
      BY <2>1 DEF Retry, Switched, TakeUrl, Begin, ReadCount
    <3> QED
      BY <2>1, <3>1, <3>2, <3>3, StepsAtRest
  <2>3. /\ UNCHANGED <<ctx, saved, alive, sp, sn>>
        /\ pcs' \in Places(s, {"wait", "recheck"})
    BY <1>5, <2>2 DEF Leaving, Places, Wait, MinerGens, SwitchTimesOut,
       conns, thread, vars
  <2> QED
    BY <1>1, <1>2, <1>5, <2>3 DEF Leaving, Alone, OneSaved
<1>6. ASSUME NEW s \in Switchers, Alone(s), Counted(s)
      PROVE  Alone(s)' /\ Counted(s)'
  <2>1. /\ pcs \in {"failover", "wait", "recheck", "switched", "url"}
        /\ pcs = "failover" => s = StratumThread
        /\ pcs # "failover" => s # StratumThread
    BY <1>6 DEF Counted, Places
  <2>2. Wait \/ Recheck \/ Switched \/ MinerGens \/ SwitchTimesOut \/ UNCHANGED vars
    <3>1. ~FailedOver
      BY <1>6, <2>1 DEF Counted, FailedOver
    <3>2. ~TakeUrl
      BY <1>6 DEF Counted, TakeUrl
    <3>3. ~(Retry \/ Begin \/ ReadCount)
      BY <2>1 DEF Retry, Begin, ReadCount
    <3>4. ~Dangling(saved[sp].curl)
      BY <1>6 DEF Counted, OneSaved, Dangling
    <3> QED
      BY <2>1, <3>1, <3>2, <3>3, <3>4, StepsAtRest
  <2>3. /\ UNCHANGED <<sp, sn, ctx>> /\ (sw[s] # "blank" => gwork' = None)
        /\ pcs' \in Places(s, {"wait", "recheck", "switched", "url"})
    BY <1>6, <2>1, <2>2 DEF Counted, Places, Unless, Go, GenWork, Wait, Recheck,
       Switched, MinerGens, SwitchTimesOut, global, conns, thread, vars
  <2>4. OneSaved(sp)' /\ (pcs' = "url" => saved'[sp] = Empty)
    <3>1. CASE Switched
      BY <1>6, <2>3, <3>1 DEF TypeOK, Counted, OneSaved, Switched, CleanUp, Empty, Go
    <3>2. CASE ~Switched
      BY <1>6, <2>2, <2>3, <3>2 DEF Counted, OneSaved, Unless, Go, Wait, Recheck,
         MinerGens, SwitchTimesOut, conns, thread, vars
    <3> QED
      BY <3>1, <3>2
  <2> QED
    BY <1>1, <1>2, <1>6, <2>3, <2>4 DEF Counted, Alone
<1>7. ASSUME Entered
      PROVE  Phases'
  <2>1. ~Dangling(saved[sp].curl)
    BY <1>7 DEF Entered, OneSaved, Dangling
  <2>2. \/ FailedOver \/ Retry \/ Wait \/ Recheck \/ Switched \/ TakeUrl \/ Begin
        \/ ReadCount \/ MinerGens \/ SwitchTimesOut \/ UNCHANGED vars
    BY <1>7, <2>1, StepsAtRest DEF Entered
  <2>3. ctx' = Empty /\ gwork' = None /\ Quiet'
    BY <1>2, <1>7, <2>2 DEF Entered, Empty, GenWork, FailedOver, Retry, Wait, Recheck,
       Switched, TakeUrl, Begin, ReadCount, MinerGens, SwitchTimesOut, conns, vars
  <2>4. CASE Begin
    <3>1. /\ sp' = cur /\ sn' = sn /\ pcs' = "switchn"
          /\ saved' = saved /\ alive' = alive
          /\ \A p \in Pools : saved[p] = Empty
      BY <1>7, <2>4 DEF Entered, OneSaved, Begin, conns, TypeOK
    <3>2. OneSaved(sp)'
      BY <3>1 DEF OneSaved, Empty, TypeOK
    <3> QED
      BY <1>1, <1>7, <2>3, <3>1, <3>2 DEF Phases, Entered, TypeOK
  <2>5. CASE ReadCount
    <3>1. /\ sp' = cur /\ sn' = count /\ pcs' = "clear"
          /\ \A p \in Pools : saved'[p] = Empty
      BY <1>7, <2>5 DEF Entered, OneSaved, ReadCount, CountRead, conns, TypeOK
    <3> QED
      BY <1>1, <2>3, <3>1 DEF Phases, Resting, Steady, Empty
  <2>6. CASE ~(Begin \/ ReadCount)
    <3>1. /\ UNCHANGED <<sp, sn>>
          /\ pcs' \in {"failover", "retry", "wait", "recheck", "switched", "url", "begin",
                       "switchn"}
          /\ pcs' = "switchn" => pcs = "switchn"
      BY <1>7, <2>2, <2>6 DEF Entered, Unless, Go, FailedOver, Retry, Wait, Recheck,
         Switched, TakeUrl, MinerGens, SwitchTimesOut, thread, vars
    <3>2. OneSaved(sp)' /\ (pcs' \in {"url", "begin", "switchn"} => saved'[sp] = Empty)
      <4>1. CASE Switched
        BY <1>7, <3>1, <4>1 DEF TypeOK, Entered, OneSaved, Switched, CleanUp, Empty, Go
      <4>2. CASE ~Switched
        BY <1>7, <2>2, <2>6, <3>1, <4>2 DEF Entered, OneSaved, Unless, Go, FailedOver,
           Retry, Wait, Recheck, TakeUrl, MinerGens, SwitchTimesOut, conns, thread, vars
      <4> QED
        BY <4>1, <4>2
    <3> QED
      BY <1>1, <1>7, <2>3, <3>1, <3>2 DEF Entered, Phases
  <2> QED
    BY <2>4, <2>5, <2>6
<1>8. ASSUME NEW s \in Switchers, Alone(s), Called(s) \/ Leaving(s) \/ Counted(s)
      PROVE  Phases'
  BY <1>4, <1>5, <1>6, <1>8 DEF Phases
<1> QED
  BY <1>3, <1>7, <1>8 DEF Phases

\* A call of pool_switch goes through the phases.
LEMMA SwitcherPhases == ASSUME TypeOK, Phases, NEW s \in Switchers,
                               CallSwitch(s) \/ SwitchStep(s), calm'
                        PROVE  Phases'
<1>1. CASE CallSwitch(s)
  <2>1. Resting /\ urls = 0 /\ pcs \in {"wait", "failover"}
    BY <1>1 DEF CallSwitch, Followed, Phases, Quiet, Called, Leaving, Counted, Entered
  <2>2. target'[s] \in Pools /\ target'[s] # cur /\ sw'[s] = "save"
    BY <1>1 DEF CallSwitch, TypeOK
  <2>3. Steady'
    BY <1>1, <2>1 DEF CallSwitch, Resting, Steady, global, conns, thread
  <2>4. Alone(s)'
    BY <1>1, <2>1 DEF CallSwitch, Resting, Quiet, Alone, TypeOK
  <2>5. /\ urls' = urls /\ pcs' = pcs /\ cur' = cur
        /\ s = StratumThread => pcs = "failover"
    BY <1>1 DEF CallSwitch, global, thread
  <2> QED
    BY <2>1, <2>2, <2>3, <2>4, <2>5 DEF Called, Phases
<1>2. ASSUME SwitchStep(s)
      PROVE  /\ sw[s] # "idle" /\ Alone(s) /\ (Called(s) \/ Leaving(s) \/ Counted(s))
             /\ \A t \in Switchers : t # s => sw'[t] = sw[t]
             /\ UNCHANGED <<thread, target>> /\ Calm(s)
  <2>1. ASSUME NEW next, GoOn(s, next)
        PROVE  /\ \A t \in Switchers : t # s => sw'[t] = sw[t]
               /\ UNCHANGED <<thread, target>> /\ Calm(s)
    BY <2>1 DEF GoOn, TypeOK
  <2>2. sw[s] # "idle" /\ \E next : GoOn(s, next)
    BY <1>2 DEF SwitchStep, Leave, FreeJob, Save, Enter, Test, Count, Blank, RaiseFlag,
       RaiseReset, Load, Push
  <2> QED
    BY <2>1, <2>2, OneCall
<1>3. ASSUME SwitchStep(s)
      PROVE  /\ Alone(s)' /\ (sw'[s] = "idle" => Quiet')
             /\ UNCHANGED <<thread, target>> /\ Calm(s)
  BY <1>2, <1>3 DEF Alone, Quiet
<1>4. ASSUME SwitchStep(s), Leaving(s)' \/ Counted(s)'
      PROVE  Phases'
  BY <1>3, <1>4 DEF Phases
<1>5. CASE Leave(s)
  <2>1. Called(s)
    BY <1>2, <1>5 DEF SwitchStep, Leave, Leaving, Counted
  <2>2. /\ from'[s] = sp /\ sw'[s] = "free"
        /\ UNCHANGED <<ctx, saved, alive, sp, sn, count, cur, urls, target, pcs>>
    BY <1>5, <2>1 DEF Called, Steady, Leave, GoOn, TypeOK, global, conns, thread
  <2>3. OneSaved(sp) /\ saved[sp] = Empty /\ ctx.curl \in alive \union {0}
    BY <2>1 DEF Called, Steady, OneSaved, Empty, TypeOK
  <2>4. pcs \in Places(s, {"wait", "recheck"})
    BY <1>3, <1>5, <2>1 DEF SwitchStep, Called, Steady, Calm, Places
  <2>5. Leaving(s)'
    BY <2>1, <2>2, <2>3, <2>4 DEF Called, Steady, Leaving, OneSaved, Places
  <2> QED
    BY <1>4, <1>5, <2>5 DEF SwitchStep
<1>6. CASE FreeJob(s)
  <2>1. Leaving(s)
    BY <1>2, <1>6 DEF SwitchStep, FreeJob, Called, Counted
  <2>2. /\ ctx'.job = None /\ ctx'.curl = ctx.curl /\ sw[s] = "free" /\ sw'[s] = "copy"
        /\ UNCHANGED <<saved, alive, sp, sn, count, cur, urls, target, from, got, pcs>>
    BY <1>6 DEF FreeJob, GoOn, TypeOK, global, thread
  <2>3. Leaving(s)'
    BY <2>1, <2>2 DEF Leaving, OneSaved, Places
  <2> QED
    BY <1>4, <1>6, <2>3 DEF SwitchStep
<1>7. CASE Save(s)
  <2>1. Leaving(s)
    BY <1>2, <1>7 DEF SwitchStep, Save, Called, Counted
  <2>2. /\ saved' = [saved EXCEPT ![from[s]] = ctx] /\ sw[s] = "copy" /\ sw'[s] = "enter"
        /\ UNCHANGED <<ctx, alive, sp, sn, count, cur, urls, target, from, got, pcs>>
    BY <1>7 DEF Save, GoOn, TypeOK, global, thread
  <2>3. OneSaved(sp)'
    BY <2>1, <2>2 DEF Leaving, OneSaved, TypeOK
  <2>4. Leaving(s)'
    BY <2>1, <2>2, <2>3 DEF Leaving, Places
  <2> QED
    BY <1>4, <1>7, <2>4 DEF SwitchStep
<1>8. CASE Enter(s)
  <2>1. Leaving(s)
    BY <1>2, <1>8 DEF SwitchStep, Enter, Called, Counted
  <2>2. /\ cur' = target[s] /\ sw[s] = "enter" /\ sw'[s] = "test"
        /\ UNCHANGED <<alive, saved, ctx, sp, sn, count, urls, target, from, got, pcs>>
    BY <1>8 DEF Enter, GoOn, TypeOK, conns, thread
  <2>3. Leaving(s)'
    BY <2>1, <2>2 DEF Leaving, OneSaved, Places
  <2> QED
    BY <1>4, <1>8, <2>3 DEF SwitchStep
<1>9. CASE Test(s)
  <2>1. Leaving(s) /\ sw[s] = "test"
    BY <1>2, <1>9 DEF SwitchStep, Test, Called, Counted
  <2>2. from[s] # cur
    BY <2>1 DEF Leaving
  <2>3. /\ got'[s] = count /\ sw'[s] = "count"
        /\ UNCHANGED <<alive, saved, ctx, sp, sn, count, cur, urls, target, from, pcs>>
    BY <1>9, <2>2 DEF Test, GoOn, TypeOK, global, conns, thread
  <2>4. Leaving(s)'
    BY <2>1, <2>3 DEF Leaving, OneSaved, Places
  <2> QED
    BY <1>4, <1>9, <2>4 DEF SwitchStep
<1>10. CASE Count(s)
  <2>1. Leaving(s) /\ sw[s] = "count"
    BY <1>2, <1>10 DEF SwitchStep, Count, Called, Counted
  <2>2. /\ count' = count + 1 /\ sw'[s] = "blank"
        /\ UNCHANGED <<alive, saved, ctx, sp, sn, urls, target, pcs, cur>>
    BY <1>10, <2>1 DEF Count, Leaving, GoOn, TypeOK, conns, thread
  <2>3. Counted(s)'
    BY <2>1, <2>2 DEF Leaving, Counted, OneSaved, Places, TypeOK
  <2> QED
    BY <1>4, <1>10, <2>3 DEF SwitchStep
<1>11. CASE Blank(s) \/ RaiseFlag(s) \/ RaiseReset(s)
  <2>1. Counted(s)
    BY <1>2, <1>11 DEF SwitchStep, Blank, RaiseFlag, RaiseReset, Called, Leaving
  <2>2. /\ gwork' = None /\ sw'[s] \in {"flag", "reset", "load"}
        /\ UNCHANGED <<alive, saved, ctx, sp, sn, urls, target, pcs, cur, count>>
    BY <1>11, <2>1 DEF Blank, BlankWork, RaiseFlag, RaiseReset, Counted, GoOn, TypeOK,
       global, conns, thread
  <2>3. Counted(s)'
    BY <2>1, <2>2 DEF Counted, OneSaved, Places
  <2> QED
    BY <1>4, <1>11, <2>3 DEF SwitchStep
<1>12. CASE Load(s)
  <2>1. Counted(s) /\ sw[s] = "load"
    BY <1>2, <1>12 DEF SwitchStep, Load, Called, Leaving
  <2>2. /\ ctx' = saved[target[s]] /\ sw'[s] = "push"
        /\ UNCHANGED <<alive, saved, sp, sn, urls, target, pcs, cur, count, gwork>>
    BY <1>12 DEF Load, LoadContext, GoOn, TypeOK, global, thread
  <2>3. ctx' = Empty /\ ctx'.job = None
    BY <2>1, <2>2 DEF Counted, OneSaved, TypeOK, Empty
  <2>4. Counted(s)'
    BY <2>1, <2>2, <2>3 DEF Counted, OneSaved, Places
  <2> QED
    BY <1>4, <1>12, <2>4 DEF SwitchStep
<1>13. CASE Push(s)
  <2>1. Counted(s) /\ sw[s] = "push"
    BY <1>2, <1>13 DEF SwitchStep, Push, Called, Leaving
  <2>2. /\ sw'[s] = "idle"
        /\ UNCHANGED <<ctx, alive, saved, sp, sn, gwork, pcs, count>>
    BY <1>13 DEF Push, GoOn, TypeOK, global, conns, thread
  <2>3. Entered'
    BY <1>3, <1>13, <2>1, <2>2 DEF SwitchStep, Counted, Entered, OneSaved, Places
  <2> QED
    BY <2>3 DEF Phases
<1> QED
  BY <1>1, <1>5, <1>6, <1>7, <1>8, <1>9, <1>10, <1>11, <1>12, <1>13 DEF SwitchStep

\* A switch that met the thread elsewhere is not forgotten.
LEMMA CalmLost == ASSUME OtherStep \/ \E s \in Switchers : CallSwitch(s) \/ SwitchStep(s),
                         calm'
                  PROVE  calm
<1>1. CASE TakeUrl \/ Begin \/ ReadCount \/ ClearFlag \/ ClearReset \/ Top \/ Loop \/ Open \/ Perform
  BY <1>1 DEF TakeUrl, Begin, ReadCount, ClearFlag, ClearReset, Top, Loop, Open, Perform, calls
<1>2. CASE Login \/ LoginFails \/ Failed \/ FailedOver \/ Retry \/ Online
  BY <1>2 DEF Login, LoginFails, Failed, FailedOver, Retry, Online, calls
<1>3. CASE Install \/ Check \/ Wait \/ Recheck \/ Cut \/ Handle
  BY <1>3 DEF Install, Check, Wait, Recheck, Cut, Handle, calls
<1>4. CASE Switched \/ FreeAgain \/ MinerGens \/ SwitchTimesOut \/ UNCHANGED vars
  BY <1>4 DEF Switched, FreeAgain, MinerGens, SwitchTimesOut, Die, vars, calls
<1>5. ASSUME NEW s \in Switchers, CallSwitch(s) \/ SwitchStep(s)
      PROVE  calm
  BY <1>5 DEF CallSwitch, SwitchStep, Leave, FreeJob, Save, Enter, Test, Count, Blank,
     RaiseFlag, RaiseReset, Load, Push, GoOn
<1> QED
  BY <1>1, <1>2, <1>3, <1>4, <1>5 DEF OtherStep, ThreadStep
-----------------------------------------------------------------------------
\* The phases last while every switch meets the thread at rest: the invariant
\* of all the theorems below.
THEOREM InvariantHolds == Spec => []IInv
<1>1. Init => IInv
  <2> SUFFICES ASSUME Init
               PROVE  TypeOK /\ SwitchesCounted /\ CalmInv
    BY DEF IInv
  <2>1. TypeOK
    <3>1. ctx \in [curl : Handles \union {0}, job : Pools \union {None}]
      BY DEF Init, Empty
    <3>2. saved \in [Pools -> [curl : Handles \union {0}, job : Pools \union {None}]]
      BY DEF Init, Empty
    <3>3. dest \in [Handles -> Pools \union {None}] /\ alive \subseteq Handles
      BY DEF Init
    <3>4. {switching, reset, calm} \subseteq BOOLEAN
      BY DEF Init
    <3>5. {from, target} \subseteq [Switchers -> Pools]
      BY PoolAssumption DEF PoolAssumption, Init
    <3>6. /\ sw \in [Switchers -> {"idle", "save", "free", "copy", "enter", "test", "count",
                                  "blank", "flag", "reset", "load", "push"}]
          /\ got \in [Switchers -> 0..MaxSwitches]
      BY PoolAssumption DEF PoolAssumption, Init
    <3>7. count \in 0..MaxSwitches /\ urls \in 0..MaxSwitches + 1 /\ sn \in 0..MaxSwitches
      BY PoolAssumption DEF PoolAssumption, Init
    <3> QED
      BY <3>1, <3>2, <3>3, <3>4, <3>5, <3>6, <3>7, PoolAssumption
      DEF PoolAssumption, Init, TypeOK
  <2>2. SwitchesCounted
    <3>1. /\ Busy = {} /\ Uncounted = {}
          /\ \A s \in Switchers : sw[s] # "count"
      BY DEF Init, Busy, Uncounted
    <3> QED
      BY <3>1, FS_EmptySet DEF Init, SwitchesCounted
  <2>3. CalmInv
    BY DEF Init, CalmInv, Phases, Resting, Quiet, Steady, Empty
  <2> QED
    BY <2>1, <2>2, <2>3
<1>2. IInv /\ [Next]_vars => IInv'
  <2> SUFFICES ASSUME TypeOK, SwitchesCounted, CalmInv, [Next]_vars
               PROVE  TypeOK' /\ SwitchesCounted' /\ CalmInv'
    BY DEF IInv
  <2>1. OtherStep \/ \E s \in Switchers : CallSwitch(s) \/ SwitchStep(s)
    BY DEF Next, OtherStep
  <2>2. TypeOK' /\ SwitchesCounted'
    BY <2>1, ThreadTypes, SwitcherTypes, CountsKept
  <2>3. calm' => calm
    BY <2>1, CalmLost
  <2>4. CalmInv'
    BY <2>1, <2>3, ThreadPhases, SwitcherPhases DEF CalmInv
  <2> QED
    BY <2>2, <2>4
<1> QED
  BY <1>1, <1>2, PTL DEF Spec

\* The variables of pool_switch and of the stratum thread keep their types; no
\* more switches are counted than were called, no more URLs queued than one for
\* each and the first, and a handle is left for each connection.
THEOREM TypeCorrect == Spec => []TypeOK
BY InvariantHolds, PTL DEF IInv

\* A switch of pool_switch that meets the stratum thread waiting for a line, or
\* made by the thread after it dropped its connection, leads to the pool asked
\* for, for any number of pools, callers and such switches, and no curl handle
\* is cleaned up twice.
THEOREM CalmSwitchLandsHolds == Spec => []CalmSwitchLands
<1>1. IInv => CalmSwitchLands
  <2> SUFFICES ASSUME IInv, calm
               PROVE  RightPool /\ ~Crashed
    BY DEF CalmSwitchLands
  <2>1. Phases
    BY DEF IInv, CalmInv
  <2>2. ~Crashed
    BY <2>1 DEF Phases, Resting, Steady, Called, Leaving, Counted, Entered, Places, Crashed
  <2>3. ASSUME Settled
        PROVE  Resting
    BY <2>1, <2>3 DEF Settled, Followed, Quiet, Phases, Called, Leaving, Counted, Entered
  <2>4. RightPool
    BY <2>3 DEF RightPool, Settled, Resting, Steady
  <2> QED
    BY <2>2, <2>4
<1> QED
  BY <1>1, InvariantHolds, PTL

\* After such switches g_work is blank or of the current pool whenever none is
\* under way, whatever stratum_gen_work, run by the thread or by a miner, copies
\* from the context.
THEOREM CalmWorkIsCurrentHolds == Spec => []CalmWorkIsCurrent
<1>1. IInv => CalmWorkIsCurrent
  <2> SUFFICES ASSUME IInv, calm, Quiet
               PROVE  gwork \in {None, cur}
    BY DEF CalmWorkIsCurrent
  <2>1. Resting \/ Entered
    BY DEF IInv, CalmInv, Phases, Quiet, Called, Leaving, Counted
  <2> QED
    BY <2>1 DEF Resting, Steady, Entered
<1> QED
  BY <1>1, InvariantHolds, PTL
=============================================================================
