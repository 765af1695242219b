----------------------------- MODULE WorkerPool -----------------------------
(***************************************************************************)
(* The worker passes of a rolling scan (src/monitor.rs,                    *)
(* run_rolling_lifecycle_passes and run_rolling_lifecycle_worker_pool).    *)
(*                                                                         *)
(* A pass queues the assets that have work to do.  Worker threads take     *)
(* them from the queue and lead each through the steps that follow its     *)
(* state, under the slots of StagePermits.  Conversions are capped per     *)
(* scan; an asset whose adjusted source must be resolved first reserves    *)
(* its conversion beforehand.  An error of the store ends the worker that  *)
(* met it; the others empty the queue, then the scan ends.                 *)
(*                                                                         *)
(* Assets is the active set of the scan.  The delete batches and the       *)
(* resolution of originals between two pools are not modelled here.        *)
(***************************************************************************)
EXTENDS StagePermits

CONSTANTS Assets,          \* the active lifecycle set
          NoAsset,         \* not an asset
          MaxConversions,  \* config.max_conversions_per_scan
          MaxPasses,       \* max_lifecycle_per_scan + max_conversions_per_scan
          MaxFailures      \* bound: failed steps and store errors

ASSUME PoolAssumption ==
    /\ IsFiniteSet(Assets)
    /\ NoAsset \notin Assets
    /\ MaxConversions \in Nat
    /\ MaxPasses \in Nat \ {0}
    /\ MaxFailures \in Nat

VARIABLES
    pc,         \* the scan: plan, pool, ended
    passes,     \* passes started
    stage,      \* state of each asset, in the shared manifest and the store
    queue,      \* assets no worker has taken yet
    deferred,   \* deferred_worker_asset_ids
    reserved,   \* RollingConversionReservations
    attempted,  \* summary.conversions_attempted
    progress,   \* steps completed in this pass
    failures,   \* failures of this scan
    failedNow,  \* whether a step failed in this pass
    broken,     \* whether a worker ended with an error
    at,         \* where each worker is: pop, begin, step, work, done
    job,        \* the asset it leads
    step,       \* the step it is at
    moved       \* whether its asset has changed since it was taken

assetVars == <<stage, queue, deferred, reserved, attempted>>
passVars == <<pc, passes, progress, failures, failedNow, broken>>
workerVars == <<at, job, step, moved>>
vars == <<permits, assetVars, passVars, workerVars>>

-----------------------------------------------------------------------------
(* unresolved is Failed with an adjusted-source requirement, proved is      *)
(* NasVerified with an original proof, uploaded is UploadVerified with a   *)
(* mirror to record, and failed stands for what no worker can go on with.  *)
Stages == {"unresolved", "proved", "converted", "verified", "uploaded",
           "mirrored", "failed"}
Steps == {"resolve", "convert", "verify", "upload", "mirror"}

(* The state a step starts from, the one it leads to and the step after it. *)
Before == [resolve |-> "unresolved", convert |-> "proved",
           verify |-> "converted", upload |-> "verified", mirror |-> "uploaded"]
After == [resolve |-> "proved", convert |-> "converted",
          verify |-> "verified", upload |-> "uploaded", mirror |-> "mirrored"]
Succ == [resolve |-> "convert", convert |-> "verify", verify |-> "upload",
         upload |-> "mirror", mirror |-> "none"]

(* What is left of an asset whose step failed, and whether the worker goes *)
(* on with the next step of the sequence all the same.                     *)
FailsTo == [resolve |-> {"unresolved", "failed"},
            convert |-> {"unresolved", "failed"},
            verify |-> {"converted", "failed"},
            upload |-> {"verified", "failed"},
            mirror |-> {"uploaded"}]
ChangedByFailure == {"resolve", "convert"}

LaneOf == [resolve |-> "none", convert |-> "convert", verify |-> "cpu",
           upload |-> "none", mirror |-> "mirror"]

TypeOK ==
    /\ PermitsTypeOK
    /\ pc \in {"plan", "pool", "ended"}
    /\ passes \in 0 .. MaxPasses
    /\ stage \in [Assets -> Stages]
    /\ queue \in SUBSET Assets
    /\ deferred \in SUBSET Assets
    /\ reserved \in SUBSET Assets
    /\ attempted \in 0 .. MaxConversions
    /\ progress \in SUBSET Steps
    /\ failures \in 0 .. MaxFailures
    /\ failedNow \in BOOLEAN
    /\ broken \in BOOLEAN
    /\ at \in [Workers -> {"pop", "begin", "step", "work", "done"}]
    /\ job \in [Workers -> Assets \union {NoAsset}]
    /\ step \in [Workers -> Steps \union {"none"}]
    /\ moved \in [Workers -> BOOLEAN]

Failure == failures < MaxFailures /\ failures' = failures + 1

-----------------------------------------------------------------------------
(* The scan's own thread.                                                  *)

HasStep(s) == \E t \in Steps : Before[t] = s
Workable == {a \in Assets \ deferred : HasStep(stage[a])}
Capacity == MaxConversions - attempted

(* Mutant: assets with a conversion to do are queued beyond the capacity. *)
Selections_Uncapped ==
    {{a \in Workable : stage[a] \in {"unresolved", "proved"}}}

(* rolling_lifecycle_worker_asset_ids: what leads to a conversion is queued *)
(* up to the remaining capacity, unresolved assets first.                   *)
Selections ==
    LET V == {a \in Workable : stage[a] \in {"unresolved", "proved"}} IN
    {C \in SUBSET V : /\ Cardinality(C) = Least(Capacity, Cardinality(V))
                      /\ \A a \in C, b \in V \ C :
                            stage[b] = "unresolved" => stage[a] = "unresolved"}

(* A pass starts a pool of as many workers as there are assets, if any.    *)
(* A worker that cannot create its transport ends at once.                 *)
StartPass ==
    /\ pc = "plan"
    /\ passes' = passes + 1
    /\ progress' = {} /\ failedNow' = FALSE
    /\ \E C \in Selections :
          /\ queue' = C \union {a \in Workable : stage[a] \notin {"unresolved", "proved"}}
          /\ reserved' = {a \in C : stage[a] = "unresolved"}
    /\ pc' = IF queue' = {} THEN "ended" ELSE "pool"
    /\ \E S \in SUBSET Workers :
          /\ Cardinality(S) = Least(Cardinality(Workers), Cardinality(queue'))
          /\ \/ /\ at' = [w \in Workers |-> IF w \in S THEN "pop" ELSE "done"]
                /\ UNCHANGED <<failures, broken>>
             \/ /\ reserved' # {}
                /\ Failure
                /\ \E f \in S : at' = [w \in Workers |-> IF w \in S \ {f} THEN "pop"
                                                                         ELSE "done"]
                /\ broken' = TRUE
    /\ UNCHANGED <<permits, stage, deferred, attempted, job, step, moved>>

(* rolling_lifecycle_should_continue.  Whether a failure also changed the  *)
(* order or the members of the active set is left open.                    *)
Continues ==
    \/ failedNow
    \/ /\ progress # {}
       /\ Capacity > 0 \/ progress \intersect {"verify", "upload", "mirror"} # {}

(* The pool is joined.  After an error the scan ends and its manifest is   *)
(* dropped.                                                                *)
JoinPool ==
    /\ pc = "pool"
    /\ \A w \in Workers : at[w] = "done"
    /\ \/ pc' = "plan" /\ ~broken /\ Continues /\ passes < MaxPasses
       \/ pc' = "ended" /\ (broken \/ failedNow \/ ~Continues \/ passes = MaxPasses)
    /\ UNCHANGED <<permits, assetVars, passes, progress, failures, failedNow, broken,
                   workerVars>>

-----------------------------------------------------------------------------
(* A worker takes the next asset; the queue is empty when it is done.       *)
Pop(w) ==
    /\ pc = "pool"
    /\ at[w] = "pop"
    /\ \/ \E a \in queue, s \in Steps :
             /\ stage[a] = Before[s]
             /\ queue' = queue \ {a}
             /\ job' = [job EXCEPT ![w] = a]
             /\ step' = [step EXCEPT ![w] = s]
             /\ moved' = [moved EXCEPT ![w] = FALSE]
             /\ at' = [at EXCEPT ![w] = "begin"]
       \/ /\ queue = {}
          /\ at' = [at EXCEPT ![w] = "done"]
          /\ UNCHANGED <<queue, job, step, moved>>
    /\ UNCHANGED <<permits, stage, deferred, reserved, attempted, passVars>>

(* The worker is done with its asset, which is deferred for the rest of    *)
(* the scan if nothing about it has changed.                               *)
LeaveAsset(w, change) ==
    /\ deferred' = IF moved[w] \/ change THEN deferred ELSE deferred \union {job[w]}
    /\ job' = [job EXCEPT ![w] = NoAsset]
    /\ step' = [step EXCEPT ![w] = "none"]
    /\ moved' = [moved EXCEPT ![w] = FALSE]
    /\ at' = [at EXCEPT ![w] = "pop"]

(* The top of the loop over the steps: stop at a failed asset or after the *)
(* last step, otherwise acquire the slots of the step.                     *)
BeginStep(w) ==
    /\ at[w] = "begin"
    /\ \/ /\ step[w] = "none" \/ stage[job[w]] = "failed"
          /\ reserved' = IF step[w] = "resolve" THEN reserved \ {job[w]} ELSE reserved
          /\ LeaveAsset(w, FALSE)
          /\ UNCHANGED permits
       \/ /\ step[w] # "none"
          /\ stage[job[w]] # "failed"
          /\ at' = [at EXCEPT ![w] = "step"]
          /\ IF LaneOf[step[w]] = "none" THEN UNCHANGED permits
                                         ELSE Acquire(w, LaneOf[step[w]])
          /\ UNCHANGED <<reserved, deferred, job, step, moved>>
    /\ UNCHANGED <<stage, queue, attempted, passVars>>

WakeUp(w) ==
    /\ at[w] = "step"
    /\ Recheck(w)
    /\ UNCHANGED <<assetVars, passVars, workerVars>>

Spurious(w) ==
    /\ at[w] = "step"
    /\ SpuriousWakeup(w)
    /\ UNCHANGED <<assetVars, passVars, workerVars>>

Admitted(w) == at[w] = "step" /\ (LaneOf[step[w]] = "none" \/ phase[w] = "in")
ReleaseSlots(w) == IF phase[w] = "in" THEN Release(w) ELSE UNCHANGED permits

(* A step that finds nothing to do is skipped and stops the sequence: the  *)
(* asset is not in the state it works on, or there is no reservation for   *)
(* its resolution.  A reservation the asset still holds is given back.     *)
Skip(w) ==
    /\ Admitted(w)
    /\ \/ stage[job[w]] # Before[step[w]]
       \/ step[w] = "resolve" /\ job[w] \notin reserved
    /\ reserved' = IF step[w] \in {"resolve", "convert"} THEN reserved \ {job[w]}
                                                         ELSE reserved
    /\ ReleaseSlots(w)
    /\ LeaveAsset(w, FALSE)
    /\ UNCHANGED <<stage, queue, attempted, passVars>>

(* The work of a step other than a conversion starts.                      *)
StartWork(w) ==
    /\ Admitted(w)
    /\ stage[job[w]] = Before[step[w]]
    /\ step[w] # "convert"
    /\ step[w] = "resolve" => job[w] \in reserved
    /\ at' = [at EXCEPT ![w] = "work"]
    /\ UNCHANGED <<permits, assetVars, passVars, job, step, moved>>

(* claim_conversion_attempt turns the claim of an asset down. *)
Refused(a) ==
    IF a \in reserved THEN attempted >= MaxConversions
    ELSE attempted + Cardinality(reserved) >= MaxConversions

Converts(w) == Admitted(w) /\ step[w] = "convert" /\ stage[job[w]] = "proved"

(* A refused claim skips the asset, or ends the worker with an error if    *)
(* the conversion had been reserved.                                       *)
GiveUpConversion(w) ==
    /\ ReleaseSlots(w)
    /\ UNCHANGED attempted
    /\ IF job[w] \in reserved
         THEN /\ broken' = TRUE
              /\ at' = [at EXCEPT ![w] = "done"]
              /\ job' = [job EXCEPT ![w] = NoAsset]
              /\ UNCHANGED <<deferred, step, moved>>
         ELSE LeaveAsset(w, FALSE) /\ UNCHANGED broken

(* Mutant: the reservation outlives the claim. *)
ClaimConversion_KeepsReservation(w) ==
    /\ Converts(w)
    /\ IF Refused(job[w])
         THEN GiveUpConversion(w)
         ELSE /\ attempted' = attempted + 1
              /\ at' = [at EXCEPT ![w] = "work"]
              /\ UNCHANGED <<permits, deferred, broken, job, step, moved>>
    /\ UNCHANGED <<stage, queue, reserved, pc, passes, progress, failures, failedNow>>

(* A conversion starts: its claim uses up the reservation, if there is one. *)
ClaimConversion(w) ==
    /\ Converts(w)
    /\ reserved' = reserved \ {job[w]}
    /\ IF Refused(job[w])
         THEN GiveUpConversion(w)
         ELSE /\ attempted' = attempted + 1
              /\ at' = [at EXCEPT ![w] = "work"]
              /\ UNCHANGED <<permits, deferred, broken, job, step, moved>>
    /\ UNCHANGED <<stage, queue, pc, passes, progress, failures, failedNow>>

(* The step succeeds and its result is stored; a resolution keeps its      *)
(* reservation for the conversion.                                         *)
Complete(w) ==
    /\ at[w] = "work"
    /\ stage' = [stage EXCEPT ![job[w]] = After[step[w]]]
    /\ progress' = progress \union {step[w]}
    /\ step' = [step EXCEPT ![w] = Succ[step[w]]]
    /\ moved' = [moved EXCEPT ![w] = TRUE]
    /\ at' = [at EXCEPT ![w] = "begin"]
    /\ ReleaseSlots(w)
    /\ UNCHANGED <<queue, deferred, reserved, attempted, job, pc, passes, failures,
                   failedNow, broken>>

(* Mutant: a failed resolution keeps its reservation. *)
Fail_KeepsReservation(w) ==
    /\ at[w] = "work"
    /\ Failure
    /\ \E s \in FailsTo[step[w]] :
          /\ stage' = [stage EXCEPT ![job[w]] = s]
          /\ IF step[w] \in ChangedByFailure
               THEN /\ step' = [step EXCEPT ![w] = Succ[step[w]]]
                    /\ moved' = [moved EXCEPT ![w] = @ \/ s # stage[job[w]]]
                    /\ at' = [at EXCEPT ![w] = "begin"]
                    /\ UNCHANGED <<deferred, job>>
               ELSE LeaveAsset(w, s # stage[job[w]])
    /\ failedNow' = TRUE
    /\ ReleaseSlots(w)
    /\ UNCHANGED <<queue, reserved, attempted, pc, passes, progress, broken>>

(* The step fails and the failure is stored; the reservation of a failed   *)
(* resolution is given back.                                               *)
Fail(w) ==
    /\ at[w] = "work"
    /\ Failure
    /\ \E s \in FailsTo[step[w]] :
          /\ stage' = [stage EXCEPT ![job[w]] = s]
          /\ IF step[w] \in ChangedByFailure
               THEN /\ step' = [step EXCEPT ![w] = Succ[step[w]]]
                    /\ moved' = [moved EXCEPT ![w] = @ \/ s # stage[job[w]]]
                    /\ at' = [at EXCEPT ![w] = "begin"]
                    /\ UNCHANGED <<deferred, job>>
               ELSE LeaveAsset(w, s # stage[job[w]])
    /\ failedNow' = TRUE
    /\ reserved' = IF step[w] = "resolve" THEN reserved \ {job[w]} ELSE reserved
    /\ ReleaseSlots(w)
    /\ UNCHANGED <<queue, attempted, pc, passes, progress, broken>>

(* The record was resolved by somebody else and its durable form, which is *)
(* at least as far, is adopted: the sequence stops.                        *)
AdoptDurable(w) ==
    /\ at[w] = "work"
    /\ step[w] = "resolve"
    /\ Failure
    /\ \E s \in {"proved", "converted", "verified", "uploaded", "mirrored"} :
          stage' = [stage EXCEPT ![job[w]] = s]
    /\ reserved' = reserved \ {job[w]}
    /\ LeaveAsset(w, TRUE)
    /\ UNCHANGED <<permits, queue, attempted, pc, passes, progress, failedNow, broken>>

(* Mutant: a worker that fails keeps its slots. *)
StoreFails_KeepsSlots(w) ==
    /\ at[w] = "work"
    /\ Failure
    /\ broken' = TRUE
    /\ reserved' = IF step[w] = "resolve" THEN reserved \ {job[w]} ELSE reserved
    /\ at' = [at EXCEPT ![w] = "done"]
    /\ job' = [job EXCEPT ![w] = NoAsset]
    /\ UNCHANGED <<permits, stage, queue, deferred, attempted, pc, passes, progress,
                   failedNow, step, moved>>

(* Any other error, in the first place of the store, ends the worker; the  *)
(* guards give back its slots and the reservation of a resolution.         *)
StoreFails(w) ==
    /\ at[w] = "work"
    /\ Failure
    /\ broken' = TRUE
    /\ reserved' = IF step[w] = "resolve" THEN reserved \ {job[w]} ELSE reserved
    /\ at' = [at EXCEPT ![w] = "done"]
    /\ job' = [job EXCEPT ![w] = NoAsset]
    /\ ReleaseSlots(w)
    /\ UNCHANGED <<stage, queue, deferred, attempted, pc, passes, progress,
                   failedNow, step, moved>>

-----------------------------------------------------------------------------
Init ==
    /\ PermitsInit
    /\ pc = "plan" /\ passes = 0
    /\ stage \in [Assets -> {"unresolved", "proved", "converted"}]
    /\ queue = {} /\ deferred = {} /\ reserved = {}
    /\ attempted = 0
    /\ progress = {} /\ failures = 0 /\ failedNow = FALSE /\ broken = FALSE
    /\ at = [w \in Workers |-> "done"]
    /\ job = [w \in Workers |-> NoAsset]
    /\ step = [w \in Workers |-> "none"]
    /\ moved = [w \in Workers |-> FALSE]

Worker(w) ==
    \/ Pop(w) \/ BeginStep(w) \/ WakeUp(w) \/ Skip(w) \/ StartWork(w)
    \/ ClaimConversion(w)
    \/ Complete(w) \/ Fail(w) \/ AdoptDurable(w) \/ StoreFails(w)

Terminated == pc = "ended" /\ UNCHANGED vars

Next == \/ StartPass \/ JoinPool
        \/ \E w \in Workers : Worker(w) \/ Spurious(w)
        \/ Terminated

Spec == Init /\ [][Next]_vars

(* Every thread is scheduled and gets the lock, and every step ends: the   *)
(* programs it runs and the requests it makes have timeouts.               *)
FairSpec == /\ Spec
            /\ WF_vars(StartPass) /\ WF_vars(JoinPool)
            /\ \A w \in Workers : WF_vars(Worker(w))

-----------------------------------------------------------------------------
(* Conversions that were started and conversions that are reserved never   *)
(* exceed the cap of the scan together.                                    *)
ConversionBudget == attempted + Cardinality(reserved) <= MaxConversions

(* An asset that was selected with a conversion ahead of it gets that      *)
(* conversion, whatever the others do: neither a reserved claim, which     *)
(* would end the scan, nor an unreserved one, which would defer the asset, *)
(* is ever refused.                                                        *)
ClaimsSucceed == \A w \in Workers : Converts(w) => ~Refused(job[w])

(* A reservation belongs to an asset some worker has yet to convert.       *)
NoStaleReservation ==
    pc = "pool" => \A a \in reserved : \/ a \in queue
                                       \/ \E w \in Workers : job[w] = a

(* The slots are used as StagePermits describes. *)
ImplementsStagePermits == PermitsSpec

(* A scan ends: no worker sleeps for ever, also not when another one fails. *)
ScanEnds == <>(pc = "ended")
=============================================================================
