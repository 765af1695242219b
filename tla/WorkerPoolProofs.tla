-------------------------- MODULE WorkerPoolProofs --------------------------
(***************************************************************************)
(* What the stage permits and the worker passes guarantee for any number   *)
(* of workers, assets, slots and conversions.  The slots first, for        *)
(* StagePermits alone; the pool inherits them, for it implements           *)
(* StagePermits.  For the conversions the inductive invariant counts who   *)
(* is entitled to one: an asset with a reservation, and a proved asset     *)
(* that is queued or on its way to its claim.                              *)
(***************************************************************************)
EXTENDS WorkerPool, FiniteSetTheorems, TLAPS

(* The stage permits.  The types need the accounting (a counter that is      *)
(* decremented is not zero), so PermitsInv joins the two.                    *)
PermitsInv == PermitsTypeOK /\ SlotsAccounted

LEMMA SetsAreFinite ==
    \A lanes : /\ IsFiniteSet(Holders(lanes)) /\ Cardinality(Holders(lanes)) \in Nat
               /\ IsFiniteSet(Waiters) /\ Cardinality(Waiters) \in Nat
<1> SUFFICES ASSUME NEW lanes
             PROVE  /\ IsFiniteSet(Holders(lanes)) /\ Cardinality(Holders(lanes)) \in Nat
                    /\ IsFiniteSet(Waiters) /\ Cardinality(Waiters) \in Nat
  OBVIOUS
<1>1. Holders(lanes) \subseteq Workers /\ Waiters \subseteq Workers
  BY DEF Holders, Waiters
<1>2. IsFiniteSet(Holders(lanes)) /\ IsFiniteSet(Waiters)
  BY <1>1, FS_Subset, SlotsAssumption
<1> QED BY <1>2, FS_CardinalityType

(* A worker that comes in with lane l, from outside or from waiting. *)
LEMMA ComesIn ==
    ASSUME PermitsTypeOK, NEW w \in Workers, phase[w] # "in",
           phase' = [phase EXCEPT ![w] = "in"],
           \A v \in Workers \ {w} : lane'[v] = lane[v],
           NEW lanes
    PROVE  Cardinality(Holders(lanes))'
              = Cardinality(Holders(lanes)) + One(lane'[w] \in lanes)
<1>1. w \notin Holders(lanes)
  BY DEF Holders
<1>2. CASE lane'[w] \in lanes
  <2>1. Holders(lanes)' = Holders(lanes) \cup {w}
    BY <1>2 DEF Holders, PermitsTypeOK
  <2> QED BY <1>1, <1>2, <2>1, SetsAreFinite, FS_AddElement DEF One
<1>3. CASE lane'[w] \notin lanes
  <2>1. Holders(lanes)' = Holders(lanes)
    BY <1>1, <1>3 DEF Holders, PermitsTypeOK
  <2> QED BY <1>3, <2>1, SetsAreFinite DEF One
<1> QED BY <1>2, <1>3

(* A worker that neither comes in nor goes out leaves the holders alone. *)
LEMMA HoldersStay ==
    ASSUME PermitsTypeOK, NEW w \in Workers, phase[w] # "in", phase'[w] # "in",
           \A v \in Workers \ {w} : phase'[v] = phase[v] /\ lane'[v] = lane[v],
           NEW lanes
    PROVE  Cardinality(Holders(lanes))' = Cardinality(Holders(lanes))
<1>1. Holders(lanes)' = Holders(lanes)
  BY DEF Holders
<1> QED BY <1>1

(* A worker that goes out was one of the holders. *)
LEMMA GoesOut ==
    ASSUME PermitsTypeOK, NEW w \in Workers, Release(w), NEW lanes, "none" \notin lanes
    PROVE  /\ Cardinality(Holders(lanes))'
                = Cardinality(Holders(lanes)) - One(lane[w] \in lanes)
           /\ Cardinality(Holders(lanes)) >= One(lane[w] \in lanes)
<1>1. phase'[w] = "out" /\ lane'[w] = "none"
  BY DEF Release, PermitsTypeOK
<1>2. \A v \in Workers \ {w} : lane'[v] = lane[v] /\ (phase'[v] = "in" <=> phase[v] = "in")
  BY DEF Release, PermitsTypeOK
<1>3. Holders(lanes)' = Holders(lanes) \ {w}
  BY <1>1, <1>2 DEF Holders
<1>4. w \in Holders(lanes) <=> lane[w] \in lanes
  BY DEF Holders, Release
<1>5. w \in Holders(lanes) => Cardinality(Holders(lanes)) # 0
  BY SetsAreFinite, FS_EmptySet
<1>6. CASE lane[w] \in lanes
  <2>1. Cardinality(Holders(lanes) \ {w}) = Cardinality(Holders(lanes)) - 1
    BY <1>4, <1>6, SetsAreFinite, FS_RemoveElement
  <2>2. Cardinality(Holders(lanes))' = Cardinality(Holders(lanes)) - 1
    BY <1>3, <2>1
  <2>3. Cardinality(Holders(lanes)) >= 1
    BY <1>4, <1>5, <1>6, SetsAreFinite
  <2> QED BY <1>6, <2>2, <2>3 DEF One
<1>7. CASE lane[w] \notin lanes
  <2>1. Holders(lanes)' = Holders(lanes)
    BY <1>3, <1>4, <1>7
  <2> QED BY <1>7, <2>1, SetsAreFinite DEF One
<1> QED BY <1>6, <1>7

LEMMA InitAccounts == PermitsInit => PermitsInv
<1> SUFFICES ASSUME PermitsInit PROVE PermitsInv
  OBVIOUS
<1>1. PermitsTypeOK
  BY SlotsAssumption DEF PermitsInit, PermitsTypeOK, Lanes
<1>2. Waiters = {} /\ \A lanes : Holders(lanes) = {}
  BY DEF PermitsInit, Waiters, Holders
<1>3. Cardinality(Waiters) = 0 /\ \A lanes : Cardinality(Holders(lanes)) = 0
  BY <1>2, FS_EmptySet
<1> QED BY <1>1, <1>3, SlotsAssumption DEF PermitsInit, PermitsInv, SlotsAccounted

LEMMA AcquireAccounts ==
    ASSUME PermitsInv, NEW w \in Workers, NEW l \in Lanes, Acquire(w, l)
    PROVE  PermitsInv'
<1>1. PermitsTypeOK /\ phase[w] = "out" /\ lane'[w] = l
  BY DEF PermitsInv, Acquire, PermitsTypeOK
<1>2. \A v \in Workers \ {w} : lane'[v] = lane[v]
  BY DEF Acquire, PermitsInv, PermitsTypeOK
<1>3. CASE ~MustWait(l) /\ Took(l) /\ phase' = [phase EXCEPT ![w] = "in"] /\ UNCHANGED waiting
  <2>1. \A lanes : Cardinality(Holders(lanes))'
                     = Cardinality(Holders(lanes)) + One(l \in lanes)
    BY <1>1, <1>2, <1>3, ComesIn
  <2>2. Waiters' = Waiters
    BY <1>1, <1>2, <1>3 DEF Waiters, PermitsTypeOK
  <2>3. PermitsTypeOK'
    BY <1>3, SlotsAssumption DEF PermitsInv, PermitsTypeOK, Acquire, Took, MustWait, One, Lanes
  <2>4. SlotsAccounted'
    BY <1>3, <2>1, <2>2, SetsAreFinite, SlotsAssumption
       DEF PermitsInv, PermitsTypeOK, SlotsAccounted, Took, One, Lanes
  <2> QED BY <2>3, <2>4 DEF PermitsInv
<1>4. CASE /\ MustWait(l) /\ waiting' = waiting + One(l = "cpu")
           /\ phase' = [phase EXCEPT ![w] = "asleep"] /\ UNCHANGED <<cpu, convert, mirror>>
  <2>1. \A lanes : Cardinality(Holders(lanes))' = Cardinality(Holders(lanes))
    BY <1>1, <1>2, <1>4, HoldersStay DEF PermitsTypeOK
  <2>2. Waiters' = IF l = "cpu" THEN Waiters \cup {w} ELSE Waiters
    BY <1>1, <1>2, <1>4 DEF Waiters, PermitsTypeOK
  <2>3. w \notin Waiters
    BY <1>1 DEF Waiters
  <2>4. Cardinality(Waiters)' = Cardinality(Waiters) + One(l = "cpu")
    BY <2>2, <2>3, SetsAreFinite, FS_AddElement DEF One
  <2>5. PermitsTypeOK'
    BY <1>4 DEF PermitsInv, PermitsTypeOK, Acquire, One, Lanes
  <2>6. SlotsAccounted'
    BY <1>4, <2>1, <2>4 DEF PermitsInv, SlotsAccounted
  <2> QED BY <2>5, <2>6 DEF PermitsInv
<1> QED BY <1>3, <1>4 DEF Acquire

LEMMA RecheckAccounts ==
    ASSUME PermitsInv, NEW w \in Workers, Recheck(w)
    PROVE  PermitsInv'
<1>1. PermitsTypeOK /\ phase[w] = "woken" /\ lane' = lane
  BY DEF PermitsInv, Recheck
<1>2. CASE /\ ~MustWait(lane[w]) /\ Took(lane[w])
           /\ waiting' = waiting - One(lane[w] = "cpu")
           /\ phase' = [phase EXCEPT ![w] = "in"]
  <2>1. \A lanes : Cardinality(Holders(lanes))'
                     = Cardinality(Holders(lanes)) + One(lane[w] \in lanes)
    BY <1>1, <1>2, ComesIn
  <2>2. Waiters' = Waiters \ {w} /\ (w \in Waiters <=> lane[w] = "cpu")
    BY <1>1, <1>2 DEF Waiters, PermitsTypeOK
  <2>3. w \in Waiters => Cardinality(Waiters) # 0
    BY SetsAreFinite, FS_EmptySet
  <2>4. /\ Cardinality(Waiters)' = Cardinality(Waiters) - One(lane[w] = "cpu")
        /\ Cardinality(Waiters) - One(lane[w] = "cpu") \in Nat
    BY <2>2, <2>3, SetsAreFinite, FS_RemoveElement DEF One
  <2>5. waiting' = Cardinality(Waiters)' /\ waiting' \in Nat
    BY <1>2, <2>4 DEF PermitsInv, SlotsAccounted
  <2>6. PermitsTypeOK'
    BY <1>1, <1>2, <2>5, SlotsAssumption
       DEF PermitsInv, PermitsTypeOK, Took, MustWait, One, Lanes
  <2>7. SlotsAccounted'
    BY <1>1, <1>2, <2>1, <2>5, SetsAreFinite, SlotsAssumption
       DEF PermitsInv, PermitsTypeOK, SlotsAccounted, Took, One, Lanes
  <2> QED BY <2>6, <2>7 DEF PermitsInv
<1>3. CASE /\ MustWait(lane[w]) /\ phase' = [phase EXCEPT ![w] = "asleep"]
           /\ UNCHANGED <<cpu, convert, mirror, waiting>>
  <2>1. \A lanes : Cardinality(Holders(lanes))' = Cardinality(Holders(lanes))
    BY <1>1, <1>3, HoldersStay DEF PermitsTypeOK
  <2>2. Waiters' = Waiters
    BY <1>1, <1>3 DEF Waiters, PermitsTypeOK
  <2> QED BY <1>1, <1>3, <2>1, <2>2 DEF PermitsInv, PermitsTypeOK, SlotsAccounted
<1> QED BY <1>2, <1>3 DEF Recheck

LEMMA SpuriousAccounts ==
    ASSUME PermitsInv, NEW w \in Workers, SpuriousWakeup(w)
    PROVE  PermitsInv'
<1>1. PermitsTypeOK /\ phase[w] = "asleep" /\ lane' = lane
  BY DEF PermitsInv, SpuriousWakeup
<1>2. \A lanes : Cardinality(Holders(lanes))' = Cardinality(Holders(lanes))
  BY <1>1, HoldersStay DEF PermitsTypeOK, SpuriousWakeup
<1>3. Waiters' = Waiters
  BY <1>1 DEF Waiters, PermitsTypeOK, SpuriousWakeup
<1> QED BY <1>1, <1>2, <1>3 DEF PermitsInv, PermitsTypeOK, SlotsAccounted, SpuriousWakeup

LEMMA ReleaseAccounts ==
    ASSUME PermitsInv, NEW w \in Workers, Release(w)
    PROVE  PermitsInv'
<1>1. PermitsTypeOK /\ lane[w] \in Lanes \cup {"none"}
  BY DEF PermitsInv, PermitsTypeOK
<1>2. \A lanes : "none" \notin lanes =>
          /\ Cardinality(Holders(lanes))'
                = Cardinality(Holders(lanes)) - One(lane[w] \in lanes)
          /\ Cardinality(Holders(lanes)) >= One(lane[w] \in lanes)
  BY <1>1, GoesOut
<1>3. Waiters' = Waiters
  BY <1>1 DEF Waiters, PermitsTypeOK, Release
<1>4. /\ cpu' = cpu + One(lane[w] \in {"cpu", "convert"})
      /\ convert' = convert + One(lane[w] \in {"convert"})
      /\ mirror' = mirror + One(lane[w] \in {"mirror"})
      /\ cpu' <= CpuSlots /\ convert' <= ConvertSlots /\ mirror' <= MirrorSlots
  BY <1>1, <1>2, SetsAreFinite, SlotsAssumption
     DEF PermitsInv, PermitsTypeOK, SlotsAccounted, Release, Returned, Least, One
<1>5. PermitsTypeOK'
  BY <1>1, <1>4, SlotsAssumption DEF PermitsTypeOK, Release, One, Lanes
<1>6. SlotsAccounted'
  BY <1>1, <1>2, <1>3, <1>4, SetsAreFinite, SlotsAssumption
     DEF PermitsInv, PermitsTypeOK, SlotsAccounted, Release, One
<1> QED BY <1>5, <1>6 DEF PermitsInv

LEMMA StutterAccounts == PermitsInv /\ UNCHANGED permits => PermitsInv'
<1> SUFFICES ASSUME PermitsInv, UNCHANGED permits PROVE PermitsInv'
  OBVIOUS
<1>1. Waiters' = Waiters /\ \A lanes : Holders(lanes)' = Holders(lanes)
  BY DEF Waiters, Holders, permits
<1> QED BY <1>1 DEF PermitsInv, PermitsTypeOK, SlotsAccounted, permits

LEMMA StepAccounts == PermitsInv /\ [PermitsNext]_permits => PermitsInv'
BY AcquireAccounts, RecheckAccounts, SpuriousAccounts, ReleaseAccounts, StutterAccounts
   DEF PermitsNext

(* Slots and waiting threads are counted right, for any number of workers  *)
(* and slots and in spite of spurious wake-ups.                            *)
THEOREM SlotsAreAccounted == PermitsSpec => [](PermitsTypeOK /\ SlotsAccounted)
<1>1. PermitsInv => PermitsTypeOK /\ SlotsAccounted
  BY DEF PermitsInv
<1> QED BY <1>1, InitAccounts, StepAccounts, PTL DEF PermitsSpec

-----------------------------------------------------------------------------
LEMMA StepWakes ==
    PermitsTypeOK /\ NoLostWakeup /\ [PermitsNext]_permits => NoLostWakeup'
<1> SUFFICES ASSUME PermitsTypeOK, NoLostWakeup, [PermitsNext]_permits,
                    NEW s \in Workers, phase'[s] = "asleep", ~MustWait(lane[s])'
             PROVE  lane'[s] = "convert" /\ Holders({"cpu", "convert"})' # {}
  BY DEF NoLostWakeup
<1>1. ASSUME NEW w \in Workers, NEW l \in Lanes, Acquire(w, l)
      PROVE  lane'[s] = "convert" /\ Holders({"cpu", "convert"})' # {}
  <2>1. s # w
    BY <1>1 DEF Acquire, MustWait, PermitsTypeOK, One
  <2>2. lane'[s] = lane[s] /\ phase[s] = "asleep" /\ ~MustWait(lane[s])
    BY <1>1, <2>1 DEF Acquire, MustWait, Took, One, PermitsTypeOK
  <2>3. Holders({"cpu", "convert"}) \subseteq Holders({"cpu", "convert"})'
    BY <1>1 DEF Acquire, Holders, PermitsTypeOK
  <2> QED BY <2>2, <2>3 DEF NoLostWakeup
<1>2. ASSUME NEW w \in Workers, SpuriousWakeup(w)
      PROVE  lane'[s] = "convert" /\ Holders({"cpu", "convert"})' # {}
  <2>1. phase[s] = "asleep" /\ lane' = lane /\ ~MustWait(lane[s])
    BY <1>2 DEF SpuriousWakeup, MustWait, PermitsTypeOK
  <2>2. Holders({"cpu", "convert"}) \subseteq Holders({"cpu", "convert"})'
    BY <1>2 DEF SpuriousWakeup, Holders, PermitsTypeOK
  <2> QED BY <2>1, <2>2 DEF NoLostWakeup
<1>3. ASSUME NEW w \in Workers, Recheck(w)
      PROVE  lane'[s] = "convert" /\ Holders({"cpu", "convert"})' # {}
  <2>1. s # w
    BY <1>3 DEF Recheck, MustWait, PermitsTypeOK
  <2>2. lane' = lane /\ phase[s] = "asleep"
    BY <1>3, <2>1 DEF Recheck, PermitsTypeOK
  <2>3. Holders({"cpu", "convert"}) \subseteq Holders({"cpu", "convert"})'
    BY <1>3 DEF Recheck, Holders, PermitsTypeOK
  <2>4. CASE ~MustWait(lane[s])
    BY <2>2, <2>3, <2>4 DEF NoLostWakeup
  <2>5. CASE MustWait(lane[s])
    (* Only a CPU-only thread that stopped waiting lets s go on. *)
    <3>1. ~MustWait(lane[w]) /\ Took(lane[w]) /\ lane[w] = "cpu" /\ lane[s] = "convert"
      BY <1>3, <2>2, <2>5 DEF Recheck, MustWait, Took, One, PermitsTypeOK, Lanes
    <3>2. w \in Holders({"cpu", "convert"})'
      BY <1>3, <3>1 DEF Recheck, Holders, PermitsTypeOK
    <3> QED BY <2>2, <3>1, <3>2
  <2> QED BY <2>4, <2>5
<1>4. ASSUME NEW w \in Workers, Release(w)
      PROVE  lane'[s] = "convert" /\ Holders({"cpu", "convert"})' # {}
  BY <1>4 DEF Release, PermitsTypeOK
<1>5. CASE UNCHANGED permits
  BY <1>5 DEF permits, NoLostWakeup, MustWait, Holders
<1> QED BY <1>1, <1>2, <1>3, <1>4, <1>5 DEF PermitsNext

(* No wake-up is lost, for any number of workers and slots: a thread that  *)
(* sleeps beside free slots waits for a holder that will notify it.        *)
THEOREM WakeupsAreNotLost == PermitsSpec => []NoLostWakeup
<1>1. PermitsInit => NoLostWakeup
  BY DEF PermitsInit, NoLostWakeup
<1> QED BY <1>1, SlotsAreAccounted, StepWakes, PTL DEF PermitsSpec

(* Whoever sleeps, somebody else holds a slot, which it will give back and    *)
(* then notify, or has been woken.                                            *)
SomebodyIsAwake ==
    (\E w \in Workers : phase[w] = "asleep") => \E w \in Workers : phase[w] \in {"woken", "in"}

LEMMA SleepersHaveCompany ==
    ASSUME PermitsInv, NoLostWakeup PROVE SomebodyIsAwake
<1> SUFFICES ASSUME NEW w \in Workers, phase[w] = "asleep",
                    \A v \in Workers : phase[v] \notin {"woken", "in"}
             PROVE  FALSE
  BY DEF SomebodyIsAwake
<1>1. \A lanes : Holders(lanes) = {}
  BY DEF Holders
<1>2. cpu = CpuSlots /\ convert = ConvertSlots /\ mirror = MirrorSlots
  <2>1. \A lanes : Cardinality(Holders(lanes)) = 0
    BY <1>1, FS_EmptySet
  <2> QED BY <2>1, SlotsAssumption DEF PermitsInv, PermitsTypeOK, SlotsAccounted
<1>3. cpu # 0 /\ convert # 0 /\ mirror # 0
  BY <1>2, SlotsAssumption
<1>4. \A v \in Workers : phase[v] = "asleep" => MustWait(lane[v])
  BY <1>1 DEF NoLostWakeup
<1>5. waiting > 0
  BY <1>3, <1>4 DEF MustWait
<1>6. PICK v \in Waiters : TRUE
  <2>1. Cardinality(Waiters) # 0
    BY <1>5, SetsAreFinite DEF PermitsInv, SlotsAccounted
  <2> QED BY <2>1, FS_EmptySet
<1> QED BY <1>3, <1>4, <1>6 DEF Waiters, MustWait

(* The worker threads never all wait for each other. *)
THEOREM NoDeadlock == PermitsSpec => []SomebodyIsAwake
<1>1. PermitsTypeOK /\ SlotsAccounted /\ NoLostWakeup => SomebodyIsAwake
  BY SleepersHaveCompany DEF PermitsInv
<1> QED BY <1>1, SlotsAreAccounted, WakeupsAreNotLost, PTL

-----------------------------------------------------------------------------
(* The pool. *)

PassesLeft == /\ pc = "plan" => passes < MaxPasses
              /\ pc # "pool" => \A w \in Workers : job[w] = NoAsset

(* A worker has an asset while it leads one, and a step to work on. *)
Working ==
    \A w \in Workers :
       /\ job[w] # NoAsset <=> at[w] \in {"begin", "step", "work"}
       /\ at[w] \in {"step", "work"} => step[w] \in Steps

(* No asset is led by two workers, or queued while it is led. *)
Exclusive ==
    /\ \A v, w \in Workers : job[v] = job[w] /\ job[v] # NoAsset => v = w
    /\ \A w \in Workers : job[w] \notin queue

(* Where a reserved asset stands. *)
Reserving ==
    /\ \A a \in queue \cap reserved : stage[a] = "unresolved"
    /\ \A w \in Workers : job[w] \in reserved =>
          \/ step[w] = "resolve"
          \/ step[w] = "convert" /\ at[w] # "work" /\ stage[job[w]] = "proved"
    /\ \A w \in Workers :
          at[w] = "work" /\ step[w] = "resolve" => job[w] \in reserved

Heading(w) == /\ job[w] # NoAsset /\ stage[job[w]] = "proved"
              /\ step[w] = "convert" /\ at[w] \in {"begin", "step"}

Entitled == {a \in Assets : \/ a \in reserved
                            \/ a \in queue /\ stage[a] = "proved"
                            \/ \E w \in Workers : job[w] = a /\ Heading(w)}

EntitledFit == attempted + Cardinality(Entitled) <= MaxConversions

PoolInv == TypeOK /\ SlotsAccounted /\ PassesLeft /\ Working
ConversionInv == Exclusive /\ Reserving /\ EntitledFit /\ NoStaleReservation

-----------------------------------------------------------------------------
(* The slots: every step of the pool is one of StagePermits or leaves the   *)
(* slots alone.                                                            *)
LEMMA ReleaseSlotsIsPermitsStep ==
    ASSUME NEW w \in Workers, ReleaseSlots(w) PROVE [PermitsNext]_permits
BY DEF ReleaseSlots, PermitsNext

LEMMA PermitsStep == TypeOK /\ [Next]_vars => [PermitsNext]_permits
<1> SUFFICES ASSUME TypeOK, [Next]_vars PROVE [PermitsNext]_permits
  OBVIOUS
<1>1. CASE StartPass
  BY <1>1 DEF StartPass
<1>2. CASE JoinPool
  BY <1>2 DEF JoinPool
<1>3. ASSUME NEW w \in Workers, Worker(w) \/ Spurious(w) PROVE [PermitsNext]_permits
  <2>1. CASE Pop(w) \/ StartWork(w) \/ AdoptDurable(w)
    BY <2>1 DEF Pop, StartWork, AdoptDurable
  <2>2. CASE BeginStep(w)
    <3>1. UNCHANGED permits \/ (step[w] # "none" /\ Acquire(w, LaneOf[step[w]]))
      BY <2>2 DEF BeginStep
    <3>2. step[w] # "none" /\ LaneOf[step[w]] # "none" => LaneOf[step[w]] \in Lanes
      BY DEF TypeOK, Steps, LaneOf, Lanes
    <3>3. LaneOf[step[w]] = "none" /\ step[w] # "none" => UNCHANGED permits
      BY <2>2 DEF BeginStep
    <3> QED BY <3>1, <3>2, <3>3 DEF PermitsNext
  <2>3. CASE WakeUp(w) \/ Spurious(w)
    BY <2>3 DEF WakeUp, Spurious, PermitsNext
  <2>4. CASE Skip(w) \/ Complete(w) \/ Fail(w) \/ StoreFails(w)
    BY <2>4, ReleaseSlotsIsPermitsStep DEF Skip, Complete, Fail, StoreFails
  <2>5. CASE ClaimConversion(w)
    <3>1. ReleaseSlots(w) \/ UNCHANGED permits
      BY <2>5 DEF ClaimConversion, GiveUpConversion
    <3> QED BY <3>1, ReleaseSlotsIsPermitsStep
  <2> QED BY <1>3, <2>1, <2>2, <2>3, <2>4, <2>5 DEF Worker
<1>4. CASE Terminated \/ UNCHANGED vars
  BY <1>4 DEF Terminated, vars
<1> QED BY <1>1, <1>2, <1>3, <1>4 DEF Next

-----------------------------------------------------------------------------
(* Types, steps and passes.                                                *)
LEMMA PoolInit == Init => PoolInv
<1> SUFFICES ASSUME Init PROVE PoolInv
  OBVIOUS
<1>1. PermitsInv
  BY InitAccounts DEF Init
<1>2. stage \in [Assets -> Stages]
  BY DEF Init, Stages
<1>3. /\ passes \in 0 .. MaxPasses /\ attempted \in 0 .. MaxConversions
      /\ failures \in 0 .. MaxFailures
  BY PoolAssumption DEF Init
<1>4. TypeOK
  BY <1>1, <1>2, <1>3 DEF Init, TypeOK, PermitsInv
<1>5. PassesLeft /\ Working
  BY PoolAssumption DEF Init, PassesLeft, Working
<1> QED BY <1>1, <1>4, <1>5 DEF PoolInv, PermitsInv

LEMMA StepTables ==
    /\ \A s \in Steps : /\ After[s] \in Stages /\ FailsTo[s] \subseteq Stages
                         /\ Succ[s] \in Steps \union {"none"}
    /\ "none" \notin Steps
BY DEF Steps, After, FailsTo, Succ, Stages

LEMMA CapacityType == TypeOK => Capacity \in Nat /\ Capacity <= MaxConversions
BY PoolAssumption DEF TypeOK, Capacity

PoolTypes ==
    /\ pc \in {"plan", "pool", "ended"} /\ passes \in 0 .. MaxPasses
    /\ stage \in [Assets -> Stages] /\ queue \in SUBSET Assets
    /\ deferred \in SUBSET Assets /\ reserved \in SUBSET Assets
    /\ attempted \in 0 .. MaxConversions /\ progress \in SUBSET Steps
    /\ failures \in 0 .. MaxFailures /\ failedNow \in BOOLEAN /\ broken \in BOOLEAN
    /\ at \in [Workers -> {"pop", "begin", "step", "work", "done"}]
    /\ job \in [Workers -> Assets \union {NoAsset}]
    /\ step \in [Workers -> Steps \union {"none"}]
    /\ moved \in [Workers -> BOOLEAN]

LEMMA FailureBounded == TypeOK /\ Failure => failures' \in 0 .. MaxFailures
BY PoolAssumption DEF TypeOK, Failure

LEMMA LeavesTyped ==
    ASSUME TypeOK, NEW w \in Workers, NEW change, job[w] \in Assets, LeaveAsset(w, change)
    PROVE  /\ deferred' \in SUBSET Assets
           /\ at' \in [Workers -> {"pop", "begin", "step", "work", "done"}]
           /\ job' \in [Workers -> Assets \union {NoAsset}]
           /\ step' \in [Workers -> Steps \union {"none"}]
           /\ moved' \in [Workers -> BOOLEAN]
BY DEF LeaveAsset, TypeOK

LEMMA LeavesWorking ==
    ASSUME TypeOK, Working, NEW w \in Workers, NEW change, LeaveAsset(w, change)
    PROVE  Working'
BY PoolAssumption DEF LeaveAsset, TypeOK, Working

LEMMA PoolStep == PoolInv /\ [Next]_vars => PoolTypes' /\ PassesLeft' /\ Working'
<1> SUFFICES ASSUME TypeOK, PassesLeft, Working, [Next]_vars
             PROVE  PoolTypes' /\ PassesLeft' /\ Working'
  BY DEF PoolInv
<1>1. CASE StartPass
  <2>1. passes' \in 0 .. MaxPasses
    BY <1>1, PoolAssumption DEF StartPass, PassesLeft, TypeOK
  <2>2. PICK C \in Selections :
           /\ queue' = C \union {a \in Workable : stage[a] \notin {"unresolved", "proved"}}
           /\ reserved' = {a \in C : stage[a] = "unresolved"}
    BY <1>1 DEF StartPass
  <2>3. C \in SUBSET Assets
    BY DEF Selections, Workable
  <2>4. queue' \in SUBSET Assets /\ reserved' \in SUBSET Assets
    BY <2>2, <2>3 DEF Workable
  <2>5. /\ at' \in [Workers -> {"pop", "begin", "step", "work", "done"}]
        /\ \A w \in Workers : at'[w] \in {"pop", "done"}
    BY <1>1 DEF StartPass
  <2>6. failures' \in 0 .. MaxFailures /\ broken' \in BOOLEAN
    BY <1>1, FailureBounded DEF StartPass, TypeOK
  <2>7. PoolTypes'
    BY <1>1, <2>1, <2>4, <2>5, <2>6 DEF StartPass, PoolTypes, TypeOK
  <2>8. pc = "plan" /\ pc' # "plan" /\ job' = job
    BY <1>1 DEF StartPass
  <2> QED BY <2>5, <2>7, <2>8 DEF PassesLeft, Working
<1>2. CASE JoinPool
  <2>1. PoolTypes' /\ Working'
    BY <1>2 DEF JoinPool, TypeOK, PoolTypes, Working, assetVars, workerVars
  <2>2. pc' = "plan" => passes' < MaxPasses
    BY <1>2, PoolAssumption DEF JoinPool, TypeOK
  <2>3. \A w \in Workers : job'[w] = NoAsset
    BY <1>2 DEF JoinPool, Working, workerVars
  <2> QED BY <2>1, <2>2, <2>3 DEF PassesLeft
<1>3. ASSUME NEW w \in Workers, Worker(w) \/ Spurious(w)
      PROVE  PoolTypes' /\ PassesLeft' /\ Working'
  <2>1. CASE Pop(w)
    <3>1. CASE queue = {} /\ at' = [at EXCEPT ![w] = "done"]
               /\ UNCHANGED <<queue, job, step, moved>>
      BY <2>1, <3>1 DEF Pop, TypeOK, PoolTypes, PassesLeft, Working, passVars
    <3>2. ASSUME NEW a \in queue, NEW s \in Steps,
                 /\ queue' = queue \ {a}
                 /\ job' = [job EXCEPT ![w] = a]
                 /\ step' = [step EXCEPT ![w] = s]
                 /\ moved' = [moved EXCEPT ![w] = FALSE]
                 /\ at' = [at EXCEPT ![w] = "begin"]
          PROVE  PoolTypes' /\ PassesLeft' /\ Working'
      <4>1. a \in Assets /\ a # NoAsset
        BY PoolAssumption DEF TypeOK
      <4>2. PoolTypes'
        BY <2>1, <3>2, <4>1 DEF Pop, TypeOK, PoolTypes, passVars
      <4>3. PassesLeft' /\ Working'
        BY <2>1, <3>2, <4>1 DEF Pop, TypeOK, PassesLeft, Working, passVars
      <4> QED BY <4>2, <4>3
    <3> QED BY <2>1, <3>1, <3>2 DEF Pop
  <2>2. CASE BeginStep(w)
    <3>1. job[w] \in Assets
      BY <2>2 DEF BeginStep, Working, TypeOK
    <3>2. CASE LeaveAsset(w, FALSE) /\ reserved' \in SUBSET reserved
      <4>1. PoolTypes' /\ Working'
        BY <2>2, <3>1, <3>2, LeavesTyped, LeavesWorking
           DEF BeginStep, TypeOK, PoolTypes, passVars
      <4>2. PassesLeft'
        BY <2>2, <3>2 DEF BeginStep, LeaveAsset, TypeOK, PassesLeft, passVars
      <4> QED BY <4>1, <4>2
    <3>3. CASE /\ step[w] # "none" /\ at' = [at EXCEPT ![w] = "step"]
               /\ UNCHANGED <<reserved, deferred, job, step, moved>>
      BY <2>2, <3>3 DEF BeginStep, TypeOK, PoolTypes, PassesLeft, Working, passVars
    <3> QED BY <2>2, <3>2, <3>3 DEF BeginStep
  <2>3. CASE WakeUp(w) \/ Spurious(w)
    BY <2>3 DEF WakeUp, Spurious, TypeOK, PoolTypes, PassesLeft, Working,
                assetVars, passVars, workerVars
  <2>4. CASE Skip(w)
    <3>1. job[w] \in Assets /\ LeaveAsset(w, FALSE) /\ reserved' \in SUBSET reserved
      BY <2>4 DEF Skip, Admitted, Working, TypeOK
    <3>2. PoolTypes' /\ Working'
      BY <2>4, <3>1, LeavesTyped, LeavesWorking DEF Skip, TypeOK, PoolTypes, passVars
    <3>3. PassesLeft'
      BY <2>4, <3>1 DEF Skip, LeaveAsset, TypeOK, PassesLeft, passVars
    <3> QED BY <3>2, <3>3
  <2>5. CASE StartWork(w)
    <3>1. PoolTypes'
      BY <2>5 DEF StartWork, TypeOK, PoolTypes, passVars, assetVars
    <3>2. PassesLeft' /\ Working'
      BY <2>5 DEF StartWork, Admitted, TypeOK, PassesLeft, Working, passVars, assetVars
    <3> QED BY <3>1, <3>2
  <2>6. CASE ClaimConversion(w)
    <3>1. ~Refused(job[w]) => attempted + 1 <= MaxConversions
      <4>1. IsFiniteSet(reserved)
        BY FS_Subset, PoolAssumption DEF TypeOK
      <4>2. Cardinality(reserved) \in Nat
        BY <4>1, FS_CardinalityType
      <4> QED BY <4>2, PoolAssumption DEF Refused, TypeOK
    <3>2. at[w] = "step" /\ step[w] = "convert" /\ job[w] \in Assets
      BY <2>6 DEF ClaimConversion, Converts, Admitted, Working, TypeOK
    <3>3. CASE ~Refused(job[w])
      BY <2>6, <3>1, <3>2, <3>3, PoolAssumption
         DEF ClaimConversion, TypeOK, PoolTypes, PassesLeft, Working
    <3>4. CASE Refused(job[w]) /\ job[w] \in reserved
      <4>1. /\ at' = [at EXCEPT ![w] = "done"] /\ job' = [job EXCEPT ![w] = NoAsset]
            /\ broken' = TRUE
            /\ UNCHANGED <<deferred, step, moved, attempted, stage, queue, pc, passes,
                           progress, failures, failedNow>>
            /\ reserved' = reserved \ {job[w]}
        BY <2>6, <3>4 DEF ClaimConversion, GiveUpConversion
      <4> QED BY <3>2, <4>1, PoolAssumption DEF TypeOK, PoolTypes, PassesLeft, Working
    <3>5. CASE Refused(job[w]) /\ job[w] \notin reserved
      <4>1. /\ LeaveAsset(w, FALSE)
            /\ UNCHANGED <<broken, attempted, stage, queue, pc, passes,
                           progress, failures, failedNow>>
            /\ reserved' = reserved \ {job[w]}
        BY <2>6, <3>5 DEF ClaimConversion, GiveUpConversion
      <4>2. PoolTypes' /\ Working'
        BY <3>2, <4>1, LeavesTyped, LeavesWorking DEF TypeOK, PoolTypes
      <4>3. PassesLeft'
        BY <4>1 DEF LeaveAsset, TypeOK, PassesLeft
      <4> QED BY <4>2, <4>3
    <3> QED BY <3>3, <3>4, <3>5
  <2>7. CASE Complete(w)
    <3>1. step[w] \in Steps /\ job[w] \in Assets
      BY <2>7 DEF Complete, Working, TypeOK
    <3>2. PoolTypes'
      BY <2>7, <3>1, StepTables DEF Complete, TypeOK, PoolTypes
    <3>3. PassesLeft' /\ Working'
      BY <2>7, <3>1, StepTables DEF Complete, TypeOK, PassesLeft, Working
    <3> QED BY <3>2, <3>3
  <2>8. CASE Fail(w)
    <3>1. step[w] \in Steps /\ job[w] \in Assets
      BY <2>8 DEF Fail, Working, TypeOK
    <3>2. failures' \in 0 .. MaxFailures
      BY <2>8, FailureBounded DEF Fail
    <3>3. PICK s \in Stages :
             /\ stage' = [stage EXCEPT ![job[w]] = s]
             /\ IF step[w] \in ChangedByFailure
                  THEN /\ step' = [step EXCEPT ![w] = Succ[step[w]]]
                       /\ moved' = [moved EXCEPT ![w] = @ \/ s # stage[job[w]]]
                       /\ at' = [at EXCEPT ![w] = "begin"]
                       /\ UNCHANGED <<deferred, job>>
                  ELSE LeaveAsset(w, s # stage[job[w]])
      BY <2>8, <3>1, StepTables DEF Fail
    <3>4. moved' \in [Workers -> BOOLEAN]
      BY <3>3 DEF TypeOK, LeaveAsset
    <3>5. PoolTypes'
      BY <2>8, <3>1, <3>2, <3>3, <3>4, StepTables
         DEF Fail, LeaveAsset, TypeOK, PoolTypes
    <3>6. PassesLeft'
      BY <2>8, <3>1, <3>3 DEF Fail, LeaveAsset, TypeOK, PassesLeft, Working
    <3>7. Working'
      BY <2>8, <3>1, <3>3, StepTables, LeavesWorking DEF Fail, TypeOK, Working
    <3> QED BY <3>5, <3>6, <3>7
  <2>9. CASE AdoptDurable(w)
    <3>1. job[w] \in Assets
      BY <2>9 DEF AdoptDurable, Working, TypeOK
    <3>2. stage' \in [Assets -> Stages]
      BY <2>9 DEF AdoptDurable, TypeOK, Stages
    <3>3. PoolTypes' /\ Working'
      BY <2>9, <3>1, <3>2, FailureBounded, LeavesTyped, LeavesWorking
         DEF AdoptDurable, TypeOK, PoolTypes
    <3>4. PassesLeft'
      BY <2>9 DEF AdoptDurable, LeaveAsset, TypeOK, PassesLeft
    <3> QED BY <3>3, <3>4
  <2>10. CASE StoreFails(w)
    <3>1. PoolTypes'
      BY <2>10, FailureBounded DEF StoreFails, TypeOK, PoolTypes
    <3>2. PassesLeft' /\ Working'
      BY <2>10, PoolAssumption DEF StoreFails, TypeOK, PassesLeft, Working
    <3> QED BY <3>1, <3>2
  <2> QED BY <1>3, <2>1, <2>2, <2>3, <2>4, <2>5, <2>6, <2>7, <2>8, <2>9, <2>10 DEF Worker
<1>4. CASE Terminated \/ UNCHANGED vars
  BY <1>4 DEF Terminated, vars, assetVars, passVars, workerVars, PoolTypes, TypeOK,
              PassesLeft, Working
<1> QED BY <1>1, <1>2, <1>3, <1>4 DEF Next

LEMMA PoolTypesSuffice == PoolTypes /\ PermitsTypeOK <=> TypeOK
BY DEF PoolTypes, TypeOK

LEMMA PoolInvStep == PoolInv /\ [Next]_vars => PoolInv'
<1> SUFFICES ASSUME PoolInv, [Next]_vars PROVE PoolInv'
  OBVIOUS
<1>1. PermitsInv'
  BY PermitsStep, StepAccounts DEF PoolInv, PermitsInv, TypeOK
<1> QED BY <1>1, PoolStep, PoolTypesSuffice DEF PoolInv, PermitsInv, PoolTypes, TypeOK

LEMMA PoolInvariant == Spec => []PoolInv
BY PoolInit, PoolInvStep, PTL DEF Spec

(* Every reachable state of the pool is well typed: in particular, no scan *)
(* starts more conversions than max_conversions_per_scan.                  *)
THEOREM TypeCorrect == Spec => []TypeOK
<1>1. PoolInv => TypeOK
  BY DEF PoolInv
<1> QED BY <1>1, PoolInvariant, PTL

(* The pool uses the slots as StagePermits describes: each of its steps is *)
(* one of StagePermits or leaves the slots alone.                          *)
THEOREM Implementation == Spec => ImplementsStagePermits
<1>1. Init => PermitsInit
  BY DEF Init
<1> QED BY <1>1, TypeCorrect, PermitsStep, PTL DEF Spec, ImplementsStagePermits, PermitsSpec

(* No slot is lost or used twice by the worker threads of a scan. *)
THEOREM PoolAccountsSlots == Spec => []SlotsAccounted
BY Implementation, SlotsAreAccounted, PTL DEF ImplementsStagePermits

(* No worker of a scan sleeps beside free slots with nobody to wake it. *)
THEOREM PoolLosesNoWakeup == Spec => []NoLostWakeup
BY Implementation, WakeupsAreNotLost, PTL DEF ImplementsStagePermits

-----------------------------------------------------------------------------
(* The conversions.                                                        *)
LEMMA EntitledFinite ==
    /\ Entitled \subseteq Assets /\ IsFiniteSet(Entitled) /\ Cardinality(Entitled) \in Nat
    /\ TypeOK => IsFiniteSet(reserved) /\ Cardinality(reserved) \in Nat
<1>1. Entitled \subseteq Assets
  BY DEF Entitled
<1> QED BY <1>1, FS_Subset, FS_CardinalityType, PoolAssumption DEF TypeOK

(* Who is entitled covers who is reserved and who is about to claim. *)
LEMMA EntitledServes ==
    TypeOK /\ Working /\ EntitledFit => ConversionBudget /\ ClaimsSucceed
<1> SUFFICES ASSUME TypeOK, Working, EntitledFit PROVE ConversionBudget /\ ClaimsSucceed
  OBVIOUS
<1>1. attempted \in Nat /\ MaxConversions \in Nat
  BY PoolAssumption DEF TypeOK
<1>2. reserved \subseteq Entitled
  BY DEF TypeOK, Entitled
<1>3. Cardinality(reserved) <= Cardinality(Entitled)
  BY <1>2, EntitledFinite, FS_Subset
<1>4. ConversionBudget
  BY <1>1, <1>3, EntitledFinite DEF ConversionBudget, EntitledFit
<1>5. ASSUME NEW w \in Workers, Converts(w) PROVE ~Refused(job[w])
  <2>1. job[w] \in Entitled
    BY <1>5 DEF Converts, Admitted, Working, TypeOK, Entitled, Heading
  <2>2. CASE job[w] \in reserved
    <3>1. Cardinality(reserved) # 0
      BY <2>2, EntitledFinite, FS_EmptySet
    <3>2. attempted < MaxConversions
      BY <1>1, <1>4, <3>1, EntitledFinite DEF ConversionBudget
    <3> QED BY <1>1, <2>2, <3>2 DEF Refused
  <2>3. CASE job[w] \notin reserved
    <3>1. reserved \subseteq Entitled \ {job[w]}
      BY <1>2, <2>3
    <3>2. /\ IsFiniteSet(Entitled \ {job[w]})
          /\ Cardinality(Entitled \ {job[w]}) = Cardinality(Entitled) - 1
      BY <2>1, EntitledFinite, FS_RemoveElement
    <3>3. Cardinality(reserved) <= Cardinality(Entitled) - 1
      BY <3>1, <3>2, FS_Subset
    <3> QED BY <1>1, <2>3, <3>3, EntitledFinite DEF Refused, EntitledFit
  <2> QED BY <2>2, <2>3
<1> QED BY <1>4, <1>5 DEF ClaimsSucceed

(* What a step of worker w may change: its own position, the state of its  *)
(* asset and that asset's reservation, and the asset it takes or leaves.   *)
Moves(w) ==
    /\ pc' = pc
    /\ reserved' \subseteq reserved /\ reserved \ {job[w]} \subseteq reserved'
    /\ \A v \in Workers \ {w} : job'[v] = job[v] /\ step'[v] = step[v] /\ at'[v] = at[v]
    /\ \A a \in Assets \ {job[w]} : stage'[a] = stage[a]
    /\ \/ queue' = queue /\ job'[w] = job[w]
       \/ queue' = queue /\ job'[w] = NoAsset /\ job[w] \notin reserved'
       \/ job[w] = NoAsset /\ job'[w] \in queue /\ queue' = queue \ {job'[w]}
    /\ job'[w] \in reserved' =>
          \/ step'[w] = "resolve"
          \/ step'[w] = "convert" /\ at'[w] # "work" /\ stage'[job'[w]] = "proved"
    /\ at'[w] = "work" /\ step'[w] = "resolve" => job'[w] \in reserved'
    /\ Heading(w)' => job'[w] \in Entitled

LEMMA MovesKeep ==
    ASSUME TypeOK, Exclusive, Reserving, NoStaleReservation, NEW w \in Workers, Moves(w)
    PROVE  Exclusive' /\ Reserving' /\ NoStaleReservation' /\ Entitled' \subseteq Entitled
<1>1. \A v \in Workers \ {w} : job[v] \in Assets => job[v] # job[w]
  BY PoolAssumption DEF Exclusive
<1>2. NoAsset \notin queue /\ \A v \in Workers : job[v] \in Assets \/ job[v] = NoAsset
  BY PoolAssumption DEF TypeOK
<1>3. \A a \in queue : a \in Assets /\ a # job[w]
  BY DEF TypeOK, Exclusive
<1>4. Exclusive'
  BY <1>1, <1>2 DEF Moves, Exclusive
<1>5. Reserving'
  <2>1. \A a \in (queue \cap reserved)' : stage'[a] = "unresolved"
    BY <1>3 DEF Moves, Reserving
  <2>2. ASSUME NEW v \in Workers, job'[v] \in reserved'
        PROVE  \/ step'[v] = "resolve"
               \/ step'[v] = "convert" /\ at'[v] # "work" /\ stage'[job'[v]] = "proved"
    <3>1. CASE v = w
      BY <2>2, <3>1 DEF Moves
    <3>2. CASE v # w
      BY <1>1, <2>2, <3>2 DEF Moves, Reserving, TypeOK
    <3> QED BY <3>1, <3>2
  <2>3. ASSUME NEW v \in Workers, at'[v] = "work", step'[v] = "resolve"
        PROVE  job'[v] \in reserved'
    BY <1>1, <2>3, PoolAssumption DEF Moves, Reserving, TypeOK
  <2> QED BY <2>1, <2>2, <2>3 DEF Reserving
<1>6. NoStaleReservation'
  <2> SUFFICES ASSUME pc = "pool", NEW a \in reserved', a \notin queue'
               PROVE  \E v \in Workers : job'[v] = a
    BY DEF NoStaleReservation, Moves
  <2>1. a \in reserved /\ a # NoAsset
    BY PoolAssumption DEF Moves, TypeOK
  <2>2. CASE a \in queue
    BY <2>2 DEF Moves
  <2>3. ASSUME NEW v \in Workers, job[v] = a PROVE \E u \in Workers : job'[u] = a
    BY <2>1, <2>3 DEF Moves
  <2> QED BY <2>1, <2>2, <2>3 DEF NoStaleReservation
<1>7. Entitled' \subseteq Entitled
  <2> SUFFICES ASSUME NEW a \in Assets, a \in Entitled' PROVE a \in Entitled
    BY DEF Entitled
  <2>1. CASE a \in reserved'
    BY <2>1 DEF Moves, Entitled
  <2>2. CASE a \in queue' /\ stage'[a] = "proved"
    BY <1>3, <2>2 DEF Moves, Entitled
  <2>3. ASSUME NEW v \in Workers, job'[v] = a, Heading(v)' PROVE a \in Entitled
    <3>1. CASE v = w
      BY <2>3, <3>1 DEF Moves
    <3>2. CASE v # w
      BY <1>1, <2>3, <3>2 DEF Moves, Entitled, Heading
    <3> QED BY <3>1, <3>2
  <2> QED BY <2>1, <2>2, <2>3 DEF Entitled
<1> QED BY <1>4, <1>5, <1>6, <1>7

LEMMA LeavingMoves ==
    ASSUME TypeOK, NEW w \in Workers, NEW change, LeaveAsset(w, change),
           pc' = pc, queue' = queue,
           reserved' = reserved \ {job[w]} \/ (reserved' = reserved /\ job[w] \notin reserved),
           \A a \in Assets \ {job[w]} : stage'[a] = stage[a]
    PROVE  Moves(w)
<1>1. /\ job'[w] = NoAsset /\ at'[w] = "pop" /\ step'[w] = "none"
      /\ \A v \in Workers \ {w} : job'[v] = job[v] /\ step'[v] = step[v] /\ at'[v] = at[v]
  BY DEF LeaveAsset, TypeOK
<1>2. NoAsset \notin reserved'
  BY PoolAssumption DEF TypeOK
<1> QED BY <1>1, <1>2 DEF Moves, Heading

LEMMA WorkerMoves ==
    ASSUME PoolInv, Exclusive, Reserving, EntitledFit, NEW w \in Workers,
           Worker(w) \/ Spurious(w)
    PROVE  /\ Moves(w)
           /\ \/ attempted' = attempted
              \/ /\ attempted' = attempted + 1
                 /\ job[w] \in Entitled /\ job[w] \notin Entitled'
<1> USE DEF PoolInv
<1>1. CASE Pop(w)
  <2>1. job[w] = NoAsset
    BY <1>1 DEF Pop, Working
  <2>2. CASE queue = {} /\ at' = [at EXCEPT ![w] = "done"] /\ UNCHANGED <<queue, job, step, moved>>
    BY <1>1, <2>1, <2>2, PoolAssumption
       DEF Pop, Moves, TypeOK, passVars, Heading
  <2>3. ASSUME NEW a \in queue, NEW s \in Steps, stage[a] = Before[s],
               /\ queue' = queue \ {a}
               /\ job' = [job EXCEPT ![w] = a]
               /\ step' = [step EXCEPT ![w] = s]
               /\ at' = [at EXCEPT ![w] = "begin"]
        PROVE  Moves(w)
    <3>1. /\ stage[a] = "unresolved" => s = "resolve"
          /\ a \in Assets
      BY <2>3 DEF Before, Steps, TypeOK
    <3>2. stage[a] = "proved" => a \in Entitled
      BY <3>1 DEF Entitled
    <3>3. /\ job'[w] = a /\ step'[w] = s /\ at'[w] = "begin"
          /\ \A v \in Workers \ {w} : job'[v] = job[v] /\ step'[v] = step[v] /\ at'[v] = at[v]
      BY <2>3 DEF TypeOK
    <3>4. a \in reserved => s = "resolve"
      BY <3>1 DEF Reserving
    <3>5. Heading(w)' => a \in Entitled
      BY <1>1, <3>2, <3>3 DEF Pop, Heading
    <3> QED BY <1>1, <2>1, <2>3, <3>3, <3>4, <3>5 DEF Pop, Moves, passVars
  <2> QED BY <1>1, <2>2, <2>3 DEF Pop
<1>2. CASE BeginStep(w)
  <2>1. job[w] \in Assets /\ job[w] # NoAsset
    BY <1>2, PoolAssumption DEF BeginStep, Working, TypeOK
  <2>2. CASE LeaveAsset(w, FALSE)
    <3>1. /\ step[w] = "none" \/ stage[job[w]] = "failed"
          /\ reserved' = IF step[w] = "resolve" THEN reserved \ {job[w]} ELSE reserved
      BY <1>2, <2>2 DEF BeginStep, LeaveAsset, TypeOK
    <3>2. job[w] \notin reserved'
      BY <3>1 DEF Reserving
    <3>3. pc' = pc /\ queue' = queue /\ stage' = stage /\ attempted' = attempted
      BY <1>2 DEF BeginStep, passVars
    <3> QED BY <2>2, <3>1, <3>2, <3>3, LeavingMoves
  <2>3. CASE /\ step[w] # "none" /\ at' = [at EXCEPT ![w] = "step"]
             /\ UNCHANGED <<reserved, deferred, job, step, moved>>
    BY <1>2, <2>1, <2>3 DEF BeginStep, Moves, TypeOK, passVars, Heading, Reserving, Entitled
  <2> QED BY <1>2, <2>2, <2>3 DEF BeginStep
<1>3. CASE WakeUp(w) \/ Spurious(w)
  BY <1>3, PoolAssumption
     DEF WakeUp, Spurious, Moves, assetVars, passVars, workerVars, Heading, Reserving,
         Entitled, TypeOK
<1>4. CASE Skip(w)
  <2>1. job[w] \in Assets /\ LeaveAsset(w, FALSE)
    BY <1>4 DEF Skip, Admitted, Working, TypeOK
  <2>2. job[w] \notin reserved'
    BY <1>4 DEF Skip, Reserving
  <2>3. reserved' = reserved \ {job[w]} \/ reserved' = reserved
    BY <1>4 DEF Skip
  <2> QED BY <1>4, <2>1, <2>2, <2>3, LeavingMoves DEF Skip, passVars
<1>5. CASE StartWork(w)
  BY <1>5 DEF StartWork, Admitted, Moves, TypeOK, passVars, assetVars, Heading, Reserving
<1>6. CASE ClaimConversion(w)
  <2>1. /\ job[w] \in Assets /\ job[w] # NoAsset
        /\ at[w] = "step" /\ step[w] = "convert" /\ stage[job[w]] = "proved"
    BY <1>6, PoolAssumption DEF ClaimConversion, Converts, Admitted, Working, TypeOK
  <2>2. ~Refused(job[w])
    BY <1>6, EntitledServes DEF ClaimConversion, ClaimsSucceed
  <2>3. /\ attempted' = attempted + 1 /\ at' = [at EXCEPT ![w] = "work"]
        /\ reserved' = reserved \ {job[w]}
        /\ UNCHANGED <<stage, queue, pc, job, step>>
    BY <1>6, <2>2 DEF ClaimConversion
  <2>4. Moves(w)
    BY <2>1, <2>3 DEF Moves, TypeOK, Heading
  <2>5. job[w] \in Entitled
    BY <2>1 DEF Entitled, Heading
  <2>6. job[w] \notin Entitled'
    BY <2>1, <2>3 DEF Entitled, Heading, Exclusive, TypeOK
  <2> QED BY <2>3, <2>4, <2>5, <2>6
<1>7. CASE Complete(w)
  <2>1. job[w] \in Assets /\ job[w] # NoAsset /\ step[w] \in Steps /\ at[w] = "work"
    BY <1>7, PoolAssumption DEF Complete, Working, TypeOK
  <2>2. /\ at' = [at EXCEPT ![w] = "begin"] /\ step' = [step EXCEPT ![w] = Succ[step[w]]]
        /\ stage' = [stage EXCEPT ![job[w]] = After[step[w]]]
        /\ UNCHANGED <<queue, reserved, attempted, job, pc>>
    BY <1>7 DEF Complete
  <2>3. job[w] \in reserved <=> step[w] = "resolve"
    BY <2>1 DEF Reserving
  <2>4. /\ step[w] = "resolve" => Succ[step[w]] = "convert" /\ After[step[w]] = "proved"
        /\ After[step[w]] = "proved" => step[w] = "resolve"
    BY <2>1 DEF Steps, Succ, After
  <2>5. step[w] = "resolve" => job[w] \in Entitled
    BY <2>1, <2>3 DEF Entitled
  <2> QED BY <2>1, <2>2, <2>3, <2>4, <2>5 DEF Moves, TypeOK, Heading
<1>8. CASE Fail(w)
  <2>1. job[w] \in Assets /\ job[w] # NoAsset /\ step[w] \in Steps /\ at[w] = "work"
    BY <1>8, PoolAssumption DEF Fail, Working, TypeOK
  <2>2. PICK s \in FailsTo[step[w]] :
           /\ stage' = [stage EXCEPT ![job[w]] = s]
           /\ IF step[w] \in ChangedByFailure
                THEN /\ step' = [step EXCEPT ![w] = Succ[step[w]]]
                     /\ at' = [at EXCEPT ![w] = "begin"]
                     /\ UNCHANGED job
                ELSE LeaveAsset(w, s # stage[job[w]])
    BY <1>8 DEF Fail
  <2>3. job[w] \notin reserved'
    BY <1>8, <2>1 DEF Fail, Reserving
  <2>4. s # "proved"
    BY <2>1 DEF FailsTo, Steps
  <2>5. stage'[job[w]] # "proved"
    BY <2>1, <2>2, <2>4 DEF TypeOK
  <2>6. CASE step[w] \in ChangedByFailure
    BY <1>8, <2>1, <2>2, <2>3, <2>5, <2>6 DEF Fail, Moves, TypeOK, Heading
  <2>7. CASE step[w] \notin ChangedByFailure
    <3>1. \A a \in Assets \ {job[w]} : stage'[a] = stage[a]
      BY <2>2 DEF TypeOK
    <3>2. LeaveAsset(w, s # stage[job[w]])
      BY <2>2, <2>7
    <3>3. reserved' = reserved \ {job[w]} \/ reserved' = reserved
      BY <1>8 DEF Fail
    <3> QED BY <1>8, <2>3, <3>1, <3>2, <3>3, LeavingMoves DEF Fail
  <2> QED BY <2>6, <2>7
<1>9. CASE AdoptDurable(w)
  <2>1. job[w] \in Assets /\ LeaveAsset(w, TRUE) /\ reserved' = reserved \ {job[w]}
    BY <1>9 DEF AdoptDurable, Working, TypeOK
  <2>2. \A a \in Assets \ {job[w]} : stage'[a] = stage[a]
    BY <1>9 DEF AdoptDurable, TypeOK
  <2> QED BY <1>9, <2>1, <2>2, LeavingMoves DEF AdoptDurable
<1>10. CASE StoreFails(w)
  <2>1. job[w] \in Assets /\ job[w] \notin reserved'
    BY <1>10 DEF StoreFails, Working, Reserving, TypeOK
  <2> QED BY <1>10, <2>1, PoolAssumption DEF StoreFails, Moves, TypeOK, Heading
<1> QED BY <1>1, <1>2, <1>3, <1>4, <1>5, <1>6, <1>7, <1>8, <1>9, <1>10 DEF Worker

(* A pass queues no more conversions than the capacity that is left. *)
LEMMA StartEntitles ==
    ASSUME PoolInv, StartPass
    PROVE  Exclusive' /\ Reserving' /\ NoStaleReservation' /\ EntitledFit'
<1> USE DEF PoolInv
<1>1. PICK C \in Selections :
         /\ queue' = C \union {a \in Workable : stage[a] \notin {"unresolved", "proved"}}
         /\ reserved' = {a \in C : stage[a] = "unresolved"}
  BY DEF StartPass
<1>2. C \subseteq Assets /\ Cardinality(C) <= Capacity
  <2> DEFINE V == {a \in Workable : stage[a] \in {"unresolved", "proved"}}
  <2>1. C \subseteq V /\ V \subseteq Assets /\ Cardinality(C) = Least(Capacity, Cardinality(V))
    BY DEF Selections, Workable
  <2>2. Cardinality(V) \in Nat
    BY <2>1, FS_Subset, FS_CardinalityType, PoolAssumption
  <2> HIDE DEF V
  <2> QED BY <2>1, <2>2, CapacityType DEF Least
<1>3. /\ \A w \in Workers : job'[w] = NoAsset /\ at'[w] \in {"pop", "done"}
      /\ queue' \subseteq Assets /\ stage' = stage /\ attempted' = attempted
  BY <1>1, <1>2 DEF StartPass, PassesLeft, Workable
<1>4. Exclusive' /\ Reserving' /\ NoStaleReservation'
  BY <1>1, <1>2, <1>3, PoolAssumption DEF Exclusive, Reserving, NoStaleReservation
<1>5. Entitled' \subseteq C
  BY <1>1, <1>3 DEF Entitled, Heading
<1>6. IsFiniteSet(C) /\ Cardinality(C) \in Nat
  BY <1>2, FS_Subset, FS_CardinalityType, PoolAssumption
<1>7. Cardinality(Entitled') <= Cardinality(C) /\ Cardinality(Entitled') \in Nat
  BY <1>5, <1>6, FS_Subset, FS_CardinalityType
<1>8. attempted + Cardinality(C) <= MaxConversions
  BY <1>2, <1>6, PoolAssumption DEF Capacity, TypeOK
<1>9. attempted \in Nat /\ MaxConversions \in Nat
  BY PoolAssumption DEF TypeOK
<1>10. EntitledFit'
  BY <1>3, <1>6, <1>7, <1>8, <1>9 DEF EntitledFit
<1> QED BY <1>4, <1>10

LEMMA ConversionInit == Init => ConversionInv
<1> SUFFICES ASSUME Init PROVE ConversionInv
  OBVIOUS
<1>1. Entitled = {}
  BY DEF Init, Entitled, Heading
<1>2. Cardinality(Entitled) = 0
  BY <1>1, FS_EmptySet
<1>3. EntitledFit
  BY <1>2, PoolAssumption DEF Init, EntitledFit
<1>4. Exclusive /\ Reserving /\ NoStaleReservation
  BY DEF Init, Exclusive, Reserving, NoStaleReservation
<1> QED BY <1>3, <1>4 DEF ConversionInv

LEMMA ConversionStep == PoolInv /\ ConversionInv /\ [Next]_vars => ConversionInv'
<1> SUFFICES ASSUME PoolInv, ConversionInv, [Next]_vars PROVE ConversionInv'
  OBVIOUS
<1> USE DEF ConversionInv
<1>1. CASE StartPass
  BY <1>1, StartEntitles
<1>2. CASE JoinPool
  <2>1. /\ UNCHANGED <<assetVars, workerVars>>
        /\ \A w \in Workers : job[w] = NoAsset
        /\ pc' # "pool"
    BY <1>2 DEF JoinPool, PoolInv, Working
  <2>2. Entitled' = Entitled
    BY <2>1 DEF Entitled, Heading, assetVars, workerVars
  <2> QED BY <2>1, <2>2
          DEF Exclusive, Reserving, EntitledFit, NoStaleReservation, assetVars, workerVars
<1>3. ASSUME NEW w \in Workers, Worker(w) \/ Spurious(w) PROVE ConversionInv'
  <2>1. Exclusive' /\ Reserving' /\ NoStaleReservation' /\ Entitled' \subseteq Entitled
    BY <1>3, WorkerMoves, MovesKeep DEF PoolInv
  <2>2. attempted \in Nat /\ MaxConversions \in Nat
    BY PoolAssumption DEF PoolInv, TypeOK
  <2>3. CASE attempted' = attempted
    <3>1. Cardinality(Entitled') <= Cardinality(Entitled) /\ Cardinality(Entitled') \in Nat
      BY <2>1, EntitledFinite, FS_Subset, FS_CardinalityType
    <3> QED BY <2>1, <2>2, <2>3, <3>1, EntitledFinite DEF EntitledFit
  <2>4. CASE attempted' = attempted + 1 /\ job[w] \in Entitled /\ job[w] \notin Entitled'
    <3>1. Entitled' \subseteq Entitled \ {job[w]}
      BY <2>1, <2>4
    <3>2. /\ IsFiniteSet(Entitled \ {job[w]})
          /\ Cardinality(Entitled \ {job[w]}) = Cardinality(Entitled) - 1
      BY <2>4, EntitledFinite, FS_RemoveElement
    <3>3. Cardinality(Entitled') <= Cardinality(Entitled) - 1 /\ Cardinality(Entitled') \in Nat
      BY <3>1, <3>2, FS_Subset, FS_CardinalityType
    <3> QED BY <2>1, <2>2, <2>4, <3>3, EntitledFinite DEF EntitledFit
  <2> QED BY <1>3, <2>3, <2>4, WorkerMoves
<1>4. CASE Terminated \/ UNCHANGED vars
  <2>1. UNCHANGED <<assetVars, workerVars, pc>>
    BY <1>4 DEF Terminated, vars, passVars
  <2>2. Entitled' = Entitled
    BY <2>1 DEF Entitled, Heading, assetVars, workerVars
  <2> QED BY <2>1, <2>2
          DEF Exclusive, Reserving, EntitledFit, NoStaleReservation, assetVars, workerVars
<1> QED BY <1>1, <1>2, <1>3, <1>4 DEF Next

LEMMA ConversionInvariant == Spec => [](PoolInv /\ ConversionInv)
<1>1. Init => PoolInv /\ ConversionInv
  BY PoolInit, ConversionInit
<1>2. PoolInv /\ ConversionInv /\ [Next]_vars => (PoolInv /\ ConversionInv)'
  BY PoolInvStep, ConversionStep
<1> QED BY <1>1, <1>2, PTL DEF Spec

(* The cap max_conversions_per_scan covers reserved and started            *)
(* conversions, for any number of workers and assets.                      *)
THEOREM BudgetHolds == Spec => []ConversionBudget
<1>1. PoolInv /\ ConversionInv => ConversionBudget
  BY EntitledServes DEF PoolInv, ConversionInv
<1> QED BY <1>1, ConversionInvariant, PTL

(* No claim of a conversion is ever refused: an asset that was selected    *)
(* for one gets it, and the error "exceeded conversion capacity" that      *)
(* would end the scan is unreachable.                                      *)
THEOREM ClaimsAreServed == Spec => []ClaimsSucceed
<1>1. PoolInv /\ ConversionInv => ClaimsSucceed
  BY EntitledServes DEF PoolInv, ConversionInv
<1> QED BY <1>1, ConversionInvariant, PTL

(* No reservation outlives the work on its asset, whatever step fails. *)
THEOREM ReservationsAreLive == Spec => []NoStaleReservation
<1>1. ConversionInv => NoStaleReservation
  BY DEF ConversionInv
<1> QED BY <1>1, ConversionInvariant, PTL

-----------------------------------------------------------------------------
(* No pool comes to a stop before its workers are done.                     *)

(* What a worker needs to go on: the guards of its actions, but for a       *)
(* spurious wakeup.                                                         *)
CanGoOn(w) ==
    \/ at[w] = "pop" /\ (queue = {} \/ \E a \in queue, s \in Steps : stage[a] = Before[s])
    \/ at[w] = "begin" /\ (\/ step[w] = "none" \/ stage[job[w]] = "failed"
                           \/ LaneOf[step[w]] = "none" \/ phase[w] = "out")
    \/ at[w] = "step" /\ phase[w] = "woken"
    \/ /\ Admitted(w)
       /\ \/ stage[job[w]] # Before[step[w]]
          \/ step[w] = "resolve" /\ job[w] \notin reserved
          \/ step[w] # "convert" /\ (step[w] = "resolve" => job[w] \in reserved)
    \/ Converts(w)
    \/ at[w] = "work"

PoolGoesOn ==
    pc = "pool" => (\A w \in Workers : at[w] = "done") \/ \E w \in Workers : CanGoOn(w)

(* A worker has slots, or waits for them, only for the step it is at. *)
SlotFits(w) ==
    /\ at[w] \in {"pop", "begin", "done"} => phase[w] = "out"
    /\ at[w] = "step" => (LaneOf[step[w]] = "none" <=> phase[w] = "out")
    /\ at[w] = "work" => phase[w] = IF LaneOf[step[w]] = "none" THEN "out" ELSE "in"

SlotUse == \A w \in Workers : SlotFits(w)

QueueHasWork == \A a \in queue : HasStep(stage[a])

GoingInv == PoolInv /\ ConversionInv /\ SlotUse /\ QueueHasWork

(* What a step of w does to the phase of the others: it may wake them. *)
LEMMA OthersSleepOrWake ==
    ASSUME TypeOK, NEW w \in Workers,
           \/ UNCHANGED permits
           \/ \E l \in Lanes : Acquire(w, l)
           \/ Recheck(w) \/ SpuriousWakeup(w) \/ ReleaseSlots(w)
    PROVE  \A v \in Workers \ {w} :
              phase'[v] = phase[v] \/ (phase[v] = "asleep" /\ phase'[v] = "woken")
BY DEF TypeOK, PermitsTypeOK, permits, Acquire, Recheck, SpuriousWakeup, ReleaseSlots, Release

LEMMA ReleasedIsOut ==
    ASSUME TypeOK, NEW w \in Workers, phase[w] \in {"out", "in"}, ReleaseSlots(w)
    PROVE  phase'[w] = "out"
BY DEF TypeOK, PermitsTypeOK, permits, ReleaseSlots, Release

(* The worker itself. *)
LEMMA MoverFits ==
    ASSUME GoingInv, NEW w \in Workers, Worker(w) \/ Spurious(w)
    PROVE  /\ SlotFits(w)'
           /\ \/ UNCHANGED permits
              \/ \E l \in Lanes : Acquire(w, l)
              \/ Recheck(w) \/ SpuriousWakeup(w) \/ ReleaseSlots(w)
<1> USE DEF GoingInv, PoolInv
<1>0. SlotFits(w) /\ TypeOK /\ PermitsTypeOK
  BY DEF SlotUse, TypeOK
<1>1. CASE Pop(w)
  <2>1. at'[w] \in {"begin", "done"} /\ UNCHANGED permits
    BY <1>0, <1>1 DEF Pop, TypeOK
  <2> QED BY <1>0, <1>1, <2>1 DEF Pop, SlotFits, permits
<1>2. CASE BeginStep(w)
  <2>1. CASE LeaveAsset(w, FALSE) /\ UNCHANGED permits
    BY <1>0, <1>2, <2>1 DEF BeginStep, LeaveAsset, SlotFits, permits, TypeOK
  <2>2. CASE /\ at' = [at EXCEPT ![w] = "step"] /\ step' = step
             /\ step[w] # "none"
             /\ IF LaneOf[step[w]] = "none" THEN UNCHANGED permits
                                            ELSE Acquire(w, LaneOf[step[w]])
    <3>1. at'[w] = "step" /\ step[w] \in Steps
      BY <1>0, <2>2 DEF TypeOK
    <3>2. CASE LaneOf[step[w]] = "none"
      BY <1>0, <1>2, <2>2, <3>1, <3>2 DEF BeginStep, SlotFits, permits
    <3>3. CASE LaneOf[step[w]] # "none"
      <4>1. LaneOf[step[w]] \in Lanes
        BY <3>1, <3>3 DEF LaneOf, Lanes, Steps
      <4>2. phase'[w] # "out"
        BY <1>0, <2>2, <3>3 DEF Acquire, PermitsTypeOK
      <4> QED BY <2>2, <3>1, <3>3, <4>1, <4>2 DEF SlotFits
    <3> QED BY <3>2, <3>3
  <2> QED BY <1>2, <2>1, <2>2 DEF BeginStep
<1>3. CASE WakeUp(w)
  <2>1. phase'[w] \in {"in", "asleep"} /\ phase[w] # "out" /\ at'[w] = "step" /\ step' = step
    BY <1>0, <1>3 DEF WakeUp, Recheck, PermitsTypeOK, workerVars
  <2>2. at[w] = "step"
    BY <1>3 DEF WakeUp
  <2> QED BY <1>0, <1>3, <2>1, <2>2 DEF WakeUp, SlotFits
<1>4. CASE Spurious(w)
  <2>1. phase'[w] = "woken" /\ phase[w] # "out" /\ at'[w] = "step" /\ step' = step
    BY <1>0, <1>4 DEF Spurious, SpuriousWakeup, PermitsTypeOK, workerVars
  <2>2. at[w] = "step"
    BY <1>4 DEF Spurious
  <2> QED BY <1>0, <1>4, <2>1, <2>2 DEF Spurious, SlotFits
<1>5. ASSUME Admitted(w)
      PROVE  phase[w] = IF LaneOf[step[w]] = "none" THEN "out" ELSE "in"
  BY <1>0, <1>5 DEF Admitted, SlotFits
<1>6. CASE Skip(w)
  <2>1. ReleaseSlots(w) /\ at'[w] = "pop"
    BY <1>0, <1>6 DEF Skip, LeaveAsset, TypeOK
  <2> QED BY <1>0, <1>5, <1>6, <2>1, ReleasedIsOut DEF Skip, SlotFits
<1>7. CASE StartWork(w)
  <2>1. at'[w] = "work" /\ step' = step /\ UNCHANGED permits
    BY <1>0, <1>7 DEF StartWork, TypeOK
  <2> QED BY <1>5, <1>7, <2>1 DEF StartWork, SlotFits, permits
<1>8. CASE ClaimConversion(w)
  <2>1. Admitted(w)
    BY <1>8 DEF ClaimConversion, Converts
  <2>2. CASE UNCHANGED permits /\ at' = [at EXCEPT ![w] = "work"] /\ step' = step
    BY <1>0, <1>5, <2>1, <2>2 DEF SlotFits, permits, TypeOK
  <2>3. CASE GiveUpConversion(w)
    <3>1. ReleaseSlots(w) /\ at'[w] \in {"done", "pop"}
      BY <1>0, <2>3 DEF GiveUpConversion, LeaveAsset, TypeOK
    <3> QED BY <1>0, <1>5, <2>1, <3>1, ReleasedIsOut DEF SlotFits
  <2> QED BY <1>8, <2>2, <2>3 DEF ClaimConversion
<1>9. CASE Complete(w) \/ Fail(w) \/ AdoptDurable(w) \/ StoreFails(w)
  <2>1. at[w] = "work" /\ phase[w] \in {"out", "in"}
    BY <1>0, <1>9 DEF Complete, Fail, AdoptDurable, StoreFails, SlotFits
  <2>2. CASE AdoptDurable(w)
    <3>1. step[w] = "resolve" /\ at'[w] = "pop" /\ UNCHANGED permits
      BY <1>0, <2>2 DEF AdoptDurable, LeaveAsset, TypeOK
    <3>2. phase[w] = "out"
      BY <1>0, <2>1, <3>1 DEF SlotFits, LaneOf
    <3> QED BY <3>1, <3>2 DEF SlotFits, permits
  <2>3. CASE ~AdoptDurable(w)
    <3>1. ReleaseSlots(w)
      BY <1>9, <2>3 DEF Complete, Fail, StoreFails
    <3>2. at'[w] \in {"pop", "begin", "done"}
      BY <1>0, <1>9, <2>3 DEF Complete, Fail, StoreFails, LeaveAsset, TypeOK
    <3> QED BY <1>0, <2>1, <3>1, <3>2, ReleasedIsOut DEF SlotFits
  <2> QED BY <2>2, <2>3
<1> QED BY <1>1, <1>2, <1>3, <1>4, <1>6, <1>7, <1>8, <1>9 DEF Worker

LEMMA GoingWorker ==
    ASSUME GoingInv, NEW w \in Workers, Worker(w) \/ Spurious(w)
    PROVE  SlotUse' /\ QueueHasWork'
<1> USE DEF GoingInv, PoolInv
<1>1. Moves(w)
  BY WorkerMoves DEF ConversionInv
<1>2. SlotFits(w)'
  BY MoverFits
<1>3. ASSUME NEW v \in Workers \ {w} PROVE SlotFits(v)'
  <2>1. phase'[v] = phase[v] \/ (phase[v] = "asleep" /\ phase'[v] = "woken")
    BY MoverFits, OthersSleepOrWake
  <2>2. at'[v] = at[v] /\ step'[v] = step[v] /\ SlotFits(v)
    BY <1>1 DEF Moves, SlotUse
  <2> QED BY <2>1, <2>2 DEF SlotFits
<1>4. QueueHasWork'
  <2>1. \A a \in queue' : a \in queue /\ a # job[w] /\ a \in Assets
    BY <1>1 DEF Moves, ConversionInv, Exclusive, TypeOK
  <2> QED BY <1>1, <2>1 DEF Moves, QueueHasWork
<1> QED BY <1>2, <1>3, <1>4 DEF SlotUse

LEMMA GoingStep == GoingInv /\ [Next]_vars => GoingInv'
<1> SUFFICES ASSUME GoingInv, [Next]_vars PROVE SlotUse' /\ QueueHasWork'
  BY PoolInvStep, ConversionStep DEF GoingInv
<1> USE DEF GoingInv
<1>1. CASE StartPass
  <2>1. \A w \in Workers : at[w] \in {"pop", "done"} /\ at'[w] \in {"pop", "done"}
    BY <1>1 DEF StartPass, PoolInv, PassesLeft, Working, TypeOK
  <2>2. SlotUse'
    BY <1>1, <2>1 DEF StartPass, SlotUse, SlotFits, permits
  <2>3. queue' \subseteq Workable /\ stage' = stage
    BY <1>1 DEF StartPass, Selections
  <2> QED BY <2>2, <2>3 DEF QueueHasWork, Workable
<1>2. CASE JoinPool
  BY <1>2 DEF JoinPool, SlotUse, SlotFits, QueueHasWork, permits, assetVars, workerVars
<1>3. ASSUME NEW w \in Workers, Worker(w) \/ Spurious(w) PROVE SlotUse' /\ QueueHasWork'
  BY <1>3, GoingWorker
<1>4. CASE Terminated \/ UNCHANGED vars
  BY <1>4 DEF Terminated, vars, SlotUse, SlotFits, QueueHasWork, permits, assetVars,
              workerVars
<1> QED BY <1>1, <1>2, <1>3, <1>4 DEF Next

LEMMA GoingGoesOn ==
    ASSUME GoingInv, SomebodyIsAwake PROVE PoolGoesOn
<1> SUFFICES ASSUME pc = "pool", NEW w \in Workers, at[w] # "done"
             PROVE  \E v \in Workers : CanGoOn(v)
  BY DEF PoolGoesOn
<1> USE DEF GoingInv, PoolInv
<1>1. ASSUME NEW v \in Workers, at[v] # "done", phase[v] # "asleep" PROVE CanGoOn(v)
  <2>1. CASE at[v] = "pop"
    BY <2>1 DEF CanGoOn, QueueHasWork, HasStep
  <2>2. CASE at[v] = "begin"
    BY <2>2 DEF CanGoOn, SlotUse, SlotFits
  <2>3. CASE at[v] = "step" /\ phase[v] = "woken"
    BY <2>3 DEF CanGoOn
  <2>4. CASE at[v] = "step" /\ phase[v] # "woken"
    <3>1. Admitted(v)
      BY <1>1, <2>4 DEF Admitted, SlotUse, SlotFits, TypeOK, PermitsTypeOK
    <3>2. step[v] = "convert" /\ stage[job[v]] = Before[step[v]] => Converts(v)
      BY <3>1 DEF Converts, Before
    <3> QED BY <3>1, <3>2 DEF CanGoOn
  <2>5. CASE at[v] = "work"
    BY <2>5 DEF CanGoOn
  <2> QED BY <1>1, <2>1, <2>2, <2>3, <2>4, <2>5 DEF TypeOK
<1>2. CASE phase[w] # "asleep"
  BY <1>1, <1>2
<1>3. CASE phase[w] = "asleep"
  <2>1. PICK v \in Workers : phase[v] \in {"woken", "in"}
    BY <1>3 DEF SomebodyIsAwake
  <2>2. at[v] # "done"
    BY <2>1 DEF SlotUse, SlotFits
  <2> QED BY <1>1, <2>1, <2>2
<1> QED BY <1>2, <1>3

(* Whatever the workers wait for, and whichever of them failed: as long as a *)
(* pool has workers that are not done, one of them can go on, without a      *)
(* spurious wakeup.  This is what ScanEnds needs besides fairness.           *)
THEOREM PoolNeverStops == Spec => []PoolGoesOn
<1>1. Init => GoingInv
  <2>1. Init => SlotUse /\ QueueHasWork
    BY DEF Init, PermitsInit, SlotUse, SlotFits, QueueHasWork
  <2> QED BY <2>1, PoolInit, ConversionInit DEF GoingInv
<1>2. Spec => []SomebodyIsAwake
  BY Implementation, NoDeadlock, PTL DEF ImplementsStagePermits
<1>3. GoingInv /\ SomebodyIsAwake => PoolGoesOn
  BY GoingGoesOn
<1> QED BY <1>1, <1>2, <1>3, GoingStep, PTL DEF Spec
=============================================================================
