---------------------------- MODULE StagePermits ----------------------------
(***************************************************************************)
(* RollingStagePermits (src/monitor.rs): the slots that the worker threads *)
(* of a rolling scan share.  A verification takes a CPU slot, a conversion *)
(* a CPU slot and a conversion slot, the recording of a mirror a mirror    *)
(* slot.  One mutex guards the counters and one condition variable is      *)
(* notified when slots come back, and only then.  A conversion gives way   *)
(* to any worker that waits for a CPU slot alone.                          *)
(***************************************************************************)
EXTENDS Integers, FiniteSets

CONSTANTS Workers,       \* the worker threads
          CpuSlots,      \* rolling_lifecycle_cpu_stage_jobs
          ConvertSlots,  \* rolling_lifecycle_convert_stage_jobs
          MirrorSlots    \* rolling_lifecycle_mirror_stage_jobs

ASSUME SlotsAssumption ==
    /\ IsFiniteSet(Workers)
    /\ CpuSlots \in Nat \ {0}
    /\ ConvertSlots \in 1 .. CpuSlots
    /\ MirrorSlots \in Nat \ {0}

VARIABLES cpu,      \* available_cpu_stage_slots
          convert,  \* available_convert_stage_slots
          mirror,   \* available_mirror_stage_slots
          waiting,  \* waiting_cpu_only_slots
          lane,     \* what each worker acquires or holds
          phase     \* how far it has come: out, asleep, woken, in

permits == <<cpu, convert, mirror, waiting, lane, phase>>

Lanes == {"cpu", "convert", "mirror"}

PermitsTypeOK ==
    /\ cpu \in 0 .. CpuSlots
    /\ convert \in 0 .. ConvertSlots
    /\ mirror \in 0 .. MirrorSlots
    /\ waiting \in Nat
    /\ lane \in [Workers -> Lanes \union {"none"}]
    /\ phase \in [Workers -> {"out", "asleep", "woken", "in"}]

-----------------------------------------------------------------------------
(* should_wait_for, and the condition of acquire_mirror_slot. *)
MustWait(l) ==
    \/ l = "mirror" /\ mirror = 0
    \/ l \in {"cpu", "convert"} /\ cpu = 0
    \/ l = "convert" /\ (convert = 0 \/ waiting > 0)

One(condition) == IF condition THEN 1 ELSE 0

Took(l) ==
    /\ cpu' = cpu - One(l \in {"cpu", "convert"})
    /\ convert' = convert - One(l = "convert")
    /\ mirror' = mirror - One(l = "mirror")

(* acquire, from taking the lock to the slot or to the first wait. *)
Acquire(w, l) ==
    /\ phase[w] = "out"
    /\ lane' = [lane EXCEPT ![w] = l]
    /\ \/ /\ ~MustWait(l)
          /\ Took(l)
          /\ phase' = [phase EXCEPT ![w] = "in"]
          /\ UNCHANGED waiting
       \/ /\ MustWait(l)
          /\ waiting' = waiting + One(l = "cpu")
          /\ phase' = [phase EXCEPT ![w] = "asleep"]
          /\ UNCHANGED <<cpu, convert, mirror>>

(* A waiting thread may wake up without a notification. *)
SpuriousWakeup(w) ==
    /\ phase[w] = "asleep"
    /\ phase' = [phase EXCEPT ![w] = "woken"]
    /\ UNCHANGED <<cpu, convert, mirror, waiting, lane>>

(* A thread that woke up has the lock again and tests the condition. *)
Recheck(w) ==
    /\ phase[w] = "woken"
    /\ \/ /\ ~MustWait(lane[w])
          /\ Took(lane[w])
          /\ waiting' = waiting - One(lane[w] = "cpu")
          /\ phase' = [phase EXCEPT ![w] = "in"]
       \/ /\ MustWait(lane[w])
          /\ phase' = [phase EXCEPT ![w] = "asleep"]
          /\ UNCHANGED <<cpu, convert, mirror, waiting>>
    /\ UNCHANGED lane

Least(m, n) == IF m < n THEN m ELSE n

(* Mutant: a conversion gives back its CPU slot only. *)
Returned_CpuOnly(l) ==
    /\ cpu' = Least(cpu + One(l \in {"cpu", "convert"}), CpuSlots)
    /\ mirror' = Least(mirror + One(l = "mirror"), MirrorSlots)
    /\ UNCHANGED convert

Returned(l) ==
    /\ cpu' = Least(cpu + One(l \in {"cpu", "convert"}), CpuSlots)
    /\ convert' = Least(convert + One(l = "convert"), ConvertSlots)
    /\ mirror' = Least(mirror + One(l = "mirror"), MirrorSlots)

(* Mutant: notify_one instead of notify_all. *)
Release_NotifiesOne(w) ==
    /\ phase[w] = "in"
    /\ Returned(lane[w])
    /\ lane' = [lane EXCEPT ![w] = "none"]
    /\ LET asleep == {v \in Workers : phase[v] = "asleep"} IN
       IF asleep = {}
         THEN phase' = [phase EXCEPT ![w] = "out"]
         ELSE \E v \in asleep : phase' = [phase EXCEPT ![w] = "out", ![v] = "woken"]
    /\ UNCHANGED waiting

(* The guard is dropped: the slots come back and all sleepers are notified. *)
Release(w) ==
    /\ phase[w] = "in"
    /\ Returned(lane[w])
    /\ lane' = [lane EXCEPT ![w] = "none"]
    /\ phase' = [v \in Workers |-> IF v = w THEN "out"
                                   ELSE IF phase[v] = "asleep" THEN "woken"
                                   ELSE phase[v]]
    /\ UNCHANGED waiting

PermitsInit ==
    /\ cpu = CpuSlots
    /\ convert = ConvertSlots
    /\ mirror = MirrorSlots
    /\ waiting = 0
    /\ lane = [w \in Workers |-> "none"]
    /\ phase = [w \in Workers |-> "out"]

PermitsNext ==
    \E w \in Workers : \/ \E l \in Lanes : Acquire(w, l)
                       \/ SpuriousWakeup(w) \/ Recheck(w) \/ Release(w)

PermitsSpec == PermitsInit /\ [][PermitsNext]_permits

-----------------------------------------------------------------------------
Holders(lanes) == {w \in Workers : phase[w] = "in" /\ lane[w] \in lanes}
Waiters == {w \in Workers : phase[w] \in {"asleep", "woken"} /\ lane[w] = "cpu"}

(* No slot is lost or used twice, whatever way a step ends, and the number *)
(* that conversions give way to is that of the threads that really wait.   *)
SlotsAccounted ==
    /\ cpu + Cardinality(Holders({"cpu", "convert"})) = CpuSlots
    /\ convert + Cardinality(Holders({"convert"})) = ConvertSlots
    /\ mirror + Cardinality(Holders({"mirror"})) = MirrorSlots
    /\ waiting = Cardinality(Waiters)

(* A thread that sleeps although it could go on is woken by somebody else: *)
(* this happens to conversions only, when a waiting CPU-only thread takes  *)
(* one slot and leaves another, and then that thread, or one that follows  *)
(* it, still holds a slot and notifies when it returns it.                 *)
NoLostWakeup ==
    \A w \in Workers :
       phase[w] = "asleep" /\ ~MustWait(lane[w])
          => lane[w] = "convert" /\ Holders({"cpu", "convert"}) # {}
=============================================================================
