---------------------------- MODULE RollingScan ----------------------------
(***************************************************************************)
(* The rolling lifecycle of a scan over several assets (monitor.rs): the   *)
(* active set and the slots it reserves for conversions, the passes with   *)
(* their delete batches and worker pool, and the resolution of originals   *)
(* in batches that apply as a whole or not at all (reconciliation.rs).     *)
(*                                                                         *)
(* The pool is one step here (WorkerPool has its inside), and so is a      *)
(* delete batch (DeletePipeline).  RAWs are of one size and their ids in   *)
(* the order of their captures, so that this is how ties are broken;       *)
(* captures are equal or farther apart than the window of a batch.         *)
(***************************************************************************)
EXTENDS Naturals, FiniteSets, Sequences, SequencesExt

CONSTANTS
    N,                  \* the assets are 1 .. N, in the order of their ids
    Captured,           \* when each was captured
    Absent,             \* iCloud has no candidate for a RAW
    Unclear,            \* it has one of another size or hash, or several
    Limit,              \* max_lifecycle_per_scan
    MaxConversions,     \* max_conversions_per_scan
    ConvertSlots,       \* rolling_convert_stage_count
    ResolverWindow,     \* rolling_original_resolve_active_window_multiplier
    ResolverBatches,    \* jobs times rolling_original_resolve_batch_multiplier
    Blockable,          \* the assets whose deletion may be impossible to validate
    WithHeic,           \* the assets with a HEIC beside their RAW
    Older,              \* those that may have failed in an older version's resolver
    MaxFaults           \* how often something goes wrong

Assets == 1 .. N

(* The photos of iCloud: those with a RAW go by the first asset whose RAW it *)
(* is, the others have only a HEIC.                                          *)
Photos == 1 .. 2 * N

ASSUME RollingAssumption ==
    /\ N \in Nat /\ Limit \in Nat /\ MaxConversions \in Nat
    /\ ConvertSlots \in Nat /\ ResolverWindow \in Nat /\ ResolverBatches \in Nat
    /\ MaxFaults \in Nat /\ Blockable \subseteq Assets
    /\ WithHeic \subseteq Assets /\ Older \subseteq Assets
    /\ Captured \in [Assets -> Nat]
    /\ \A a, b \in Assets : a <= b => Captured[a] <= Captured[b]
    /\ Absent \notin Photos /\ Unclear \notin Photos /\ Absent # Unclear

VARIABLES
    db,         \* the records
    remote,     \* what iCloud has for each RAW
    blocked,    \* assets every validation of whose deletion fails
    pc,         \* where the scan is
    active,     \* active_lifecycle_asset_ids
    admitted,   \* admitted_delete_asset_ids
    deferred,   \* deferred_worker_asset_ids
    todo,       \* resolution batches that are still to be applied
    counts,     \* of the scan: passes, conversions; of the pass: what moved
    requests,   \* history: how often the scan tried to delete each asset
    faults

scanVars == <<pc, active, admitted, deferred, todo, counts, requests>>
vars == <<db, remote, blocked, scanVars, faults>>

States == {"nas", "converted", "verified", "ready", "approved", "deleted",
           "failed", "no action", "review", "unmatched", "retried"}

(* "ready" is UploadVerified with a current mirror.  "unmatched" has failed   *)
(* in the resolver, as only older versions let a record fail, and is "nas"    *)
(* again when "retried".  original says that the record has an original_asset *)
(* proof, and kept which photos the resolution names with which an operator   *)
(* closed it: a replacement, with the original beside it or without.          *)
Records == [state : States, original : BOOLEAN, kept : SUBSET Photos]

Record(s, o) == [state |-> s, original |-> o, kept |-> {}]

Zero == [pass |-> 0, conversions |-> 0, progress |-> FALSE, moved |-> FALSE,
         failure |-> FALSE]

Has(a, S) == db[a].state \in S

(* Records of earlier runs, and what they resolved. *)
Init ==
    /\ remote \in [Assets -> Assets \union {Absent, Unclear}]
    /\ \A a \in Assets :
          remote[a] \in Assets => /\ remote[a] <= a /\ remote[remote[a]] = remote[a]
                                 /\ Captured[remote[a]] = Captured[a]
    /\ blocked \in SUBSET Blockable
    /\ db \in [Assets -> {Record("nas", FALSE), Record("verified", FALSE),
                          Record("ready", TRUE), Record("unmatched", FALSE)}]
    /\ \A a \in Assets : /\ db[a].original => remote[a] \in Assets
                         /\ Has(a, {"unmatched"}) => a \in Older
    /\ \A a, b \in Assets :
          db[a].original /\ db[b].original /\ remote[a] = remote[b] => a = b
    /\ pc = "idle"
    /\ active = <<>>
    /\ admitted = {} /\ deferred = {} /\ todo = <<>>
    /\ counts = Zero
    /\ requests = [a \in Assets |-> 0]
    /\ faults = 0

Fault == faults < MaxFaults /\ faults' = faults + 1

-----------------------------------------------------------------------------
(* The active set. *)

AtMost(n, s) == SubSeq(s, 1, IF n < Len(s) THEN n ELSE Len(s))

Least(x, y) == IF x < y THEN x ELSE y

(* S in the order of the ids, and its first members. *)
Listed(S) == SelectSeq([a \in Assets |-> a], LAMBDA a : a \in S)

Smallest(n, S) == AtMost(n, Listed(S))

(* lifecycle_continuation_priority; "approved" stands for DeleteEligible too. *)
Priority(a) ==
    CASE Has(a, {"approved"})                    -> 0
      [] Has(a, {"ready"})                       -> 1
      [] Has(a, {"verified"}) /\ db[a].original  -> 2
      [] Has(a, {"nas"})                         -> 3
      [] Has(a, {"converted"})                   -> 4
      [] OTHER                                   -> 5

ByPriority(S) ==
    LET Those(p) == Listed({a \in S : Priority(a) = p})
    IN Those(0) \o Those(1) \o Those(2) \o Those(3) \o Those(4) \o Those(5)

(* The first n of S by their ranks, and by their ids where those are equal.  *)
Foremost(n, S, rank) ==
    LET Sooner(a, b) == rank[a] < rank[b] \/ (rank[a] = rank[b] /\ a < b)
    IN {a \in S : Cardinality({b \in S : Sooner(b, a)}) < n}

Unresolved ==
    {a \in Assets : Has(a, {"nas", "retried", "converted", "verified"}) /\ ~db[a].original}

ConversionReady == {a \in Assets : Has(a, {"nas"}) /\ db[a].original}

Continuation ==
    ConversionReady \union
    {a \in Assets : Has(a, {"converted", "verified", "ready", "approved"})}

(* densest_original_asset_resolution_windows: the window with the most       *)
(* candidates, of those the earliest, until the slots are full.              *)
Densest[n \in 0 .. N, S \in SUBSET Assets] ==
    IF n = 0 \/ S = {} THEN <<>>
    ELSE LET At(t) == {a \in S : Captured[a] = t}
             Size(t) == Least(n, Cardinality(At(t)))
             t == CHOOSE t \in {Captured[a] : a \in S} :
                     \A u \in {Captured[a] : a \in S} :
                        Size(u) < Size(t) \/ (Size(u) = Size(t) /\ t <= u)
         IN Smallest(n, At(t)) \o Densest[n - Size(t), S \ At(t)]

Candidates(s) ==
    {a \in Assets : Has(a, {"nas", "retried", "verified"}) /\ ~db[a].original} \ ToSet(s)

Filled(n, s) ==
    IF n <= Len(s) THEN s ELSE s \o Densest[Least(N, n - Len(s)), Candidates(s)]

(* rolling_lifecycle_active_conversion_reserve *)
Reserve == Least(Limit \div 2, IF ConvertSlots = 0 THEN 1 ELSE 2 * ConvertSlots)

ActiveSet ==
    LET reserved == Smallest(Reserve, ConversionReady) IN
    Filled(Limit, AtMost(Limit - Len(reserved), ByPriority(Continuation \ ToSet(reserved)))
                      \o reserved)

-----------------------------------------------------------------------------
(* What the stages of a pass select. *)

(* delete_lifecycle_asset_ids; what has no approval yet comes first. *)
Unapproved == [a \in Assets |-> IF Has(a, {"ready"}) THEN 0 ELSE 1]

DeleteCandidates ==
    Foremost(Limit, {a \in Assets : a \in ToSet(active) /\ Has(a, {"ready", "approved"})},
             Unapproved)

(* Mutant: each batch may admit as many as the first. *)
Admit_PerBatch ==
    Foremost(Limit, DeleteCandidates \ admitted, Unapproved)

(* admit_rolling_lifecycle_delete_asset_ids *)
Admit ==
    Foremost(Limit - Cardinality(admitted), DeleteCandidates \ admitted, Unapproved)

Runnable ==
    {a \in Assets \ deferred : a \in ToSet(active) /\
        \/ a \in ConversionReady
        \/ Has(a, {"converted"})
        \/ Has(a, {"verified"}) /\ db[a].original}

(* rolling_lifecycle_worker_asset_ids: conversions as far as the scan still  *)
(* may, everything else.                                                     *)
Queue ==
    LET rank == [a \in Assets |-> Priority(a)]
        converting == Foremost(MaxConversions - counts.conversions,
                               Runnable \intersect ConversionReady, rank)
    IN Foremost(Limit, (Runnable \ ConversionReady) \union converting, rank)

(* Mutant: the workers wait for the resolution of whatever is unresolved. *)
ResolveFirst_Always == ToSet(active) \intersect Unresolved # {}

ResolveFirst == Queue = {} /\ ToSet(active) \intersect Unresolved # {}

(* The active set and more, in windows of one capture, and not all at once. *)
ResolverIds ==
    ToSet(Filled(IF ResolverWindow = 0 THEN Limit ELSE Limit * ResolverWindow, active))

Batches ==
    LET targets == ToSet(Smallest(Limit, ResolverIds \intersect Unresolved))
        At(a) == {b \in targets : Captured[b] = Captured[a]}
        first == Listed({a \in targets : \A b \in At(a) : a <= b})
        most == Least(ResolverBatches, Cardinality(ResolverIds))
    IN AtMost(IF most = 0 THEN 1 ELSE most, [i \in DOMAIN first |-> At(first[i])])

-----------------------------------------------------------------------------
(* The scan. *)

(* Its variables go with it; what was stored stays. *)
EndScan ==
    /\ pc' = "idle"
    /\ active' = <<>> /\ admitted' = {} /\ deferred' = {} /\ todo' = <<>>
    /\ counts' = Zero
    /\ requests' = [a \in Assets |-> 0]

(* Admission at the start of a scan: a failed asset is tried again, left as *)
(* it is, or given up for review, and an interrupted retry of the resolver  *)
(* has failed again.  RetryAdmission says when.                             *)
Admissions(a) ==
    IF Has(a, {"failed"}) THEN {"failed", "nas", "converted", "verified", "review"}
    ELSE IF Has(a, {"unmatched", "retried"}) THEN {"unmatched", "retried"}
    ELSE {db[a].state}

StartScan ==
    /\ pc = "idle"
    /\ \E next \in [{a \in Assets : Has(a, {"failed", "unmatched", "retried"})} -> States] :
          /\ \A a \in DOMAIN next : next[a] \in Admissions(a)
          /\ db' = [a \in Assets |-> IF a \in DOMAIN next
                                     THEN [db[a] EXCEPT !.state = next[a]] ELSE db[a]]
    /\ pc' = "admitted"
    /\ UNCHANGED <<active, admitted, deferred, todo, counts, requests>>
    /\ UNCHANGED <<remote, blocked, faults>>

Activate ==
    /\ pc = "admitted"
    /\ active' = ActiveSet
    /\ pc' = IF active' = <<>> THEN "idle" ELSE "delete"
    /\ UNCHANGED <<db, remote, blocked, admitted, deferred, todo, counts, requests, faults>>

(* run_rolling_lifecycle_delete_batch.  What is not deleted stays a candidate, *)
(* possibly approved already.                                                  *)
DeleteBatch ==
    /\ pc \in {"delete", "delete again"}
    /\ \E tried \in {Admit} : \E gone \in SUBSET (tried \ blocked) :
          LET left == (tried \ blocked) \ gone IN
          /\ IF left = {} THEN UNCHANGED faults ELSE Fault
          /\ \E approved \in SUBSET left :
                db' = [a \in Assets |->
                          IF a \in gone THEN [db[a] EXCEPT !.state = "deleted"]
                          ELSE IF a \in approved THEN [db[a] EXCEPT !.state = "approved"]
                          ELSE db[a]]
          /\ counts' = [counts EXCEPT !.progress = @ \/ gone # {}, !.moved = @ \/ gone # {},
                                      !.failure = @ \/ gone # tried]
          /\ admitted' = admitted \union tried
          /\ requests' = [a \in Assets |-> IF a \in tried THEN requests[a] + 1 ELSE requests[a]]
    /\ pc' = IF pc = "delete" THEN "deleted" ELSE "deleted again"
    /\ UNCHANGED <<remote, blocked, active, deferred, todo>>

(* Originals are resolved after the workers, and before them if those would  *)
(* have nothing to do.                                                       *)
StartResolving ==
    /\ pc \in {"deleted", "deleted again"}
    /\ IF pc = "deleted" /\ ~ResolveFirst
       THEN pc' = "pool" /\ UNCHANGED todo
       ELSE /\ pc' = IF pc = "deleted" THEN "resolve" ELSE "resolve again"
            /\ todo' = Batches
    /\ UNCHANGED <<db, remote, blocked, active, admitted, deferred, counts, requests, faults>>

(* How far the stages of a worker may take an asset before one fails, with   *)
(* or without a record of it.                                                *)
FailsAs(a) ==
    {"failed", db[a].state} \union
    (CASE Has(a, {"nas"}) -> {"converted", "verified"}
       [] Has(a, {"converted"}) -> {"verified"}
       [] OTHER -> {})

(* A resolved asset is taken to the last stage, or one of them fails. *)
Worked(queue, stopped, as) ==
    [a \in Assets |->
        IF a \notin queue THEN db[a]
        ELSE [db[a] EXCEPT !.state = IF a \in stopped THEN as[a]
                                     ELSE IF db[a].original THEN "ready"
                                     ELSE "verified"]]

(* The worker pool. *)
Pool ==
    /\ pc = "pool"
    /\ \E queue \in {Queue} : \E stopped \in SUBSET queue :
       \E as \in [stopped -> States] :
          /\ IF stopped = {} THEN UNCHANGED faults ELSE Fault
          /\ Cardinality(stopped) <= 1 /\ \A a \in stopped : as[a] \in FailsAs(a)
          /\ db' = Worked(queue, stopped, as)
          /\ deferred' = deferred \union {a \in stopped : as[a] = db[a].state}
          /\ LET done == {a \in queue : a \in stopped => as[a] \notin {"failed", db[a].state}} IN
             counts' = [counts EXCEPT
                 !.conversions = @ + Cardinality(queue \intersect ConversionReady),
                 !.progress = @ \/ done # {},
                 !.moved = @ \/ \E a \in done : a \in stopped => as[a] = "verified",
                 !.failure = @ \/ stopped # {}]
    /\ pc' = "delete again"
    /\ UNCHANGED <<remote, blocked, active, admitted, todo, requests>>

(* reconciliation_exact_state_is_consistent: a record that was bound to its   *)
(* original and is under review is malformed.  One such record, or a second   *)
(* record for an original, refuses the batch and ends the scan.               *)
ExactIsConsistent(a) == ~Has(a, {"review"})

Malformed == \E a \in Assets : db[a].original /\ ~ExactIsConsistent(a)

(* The photos that the proofs of a record name. *)
Names(r, a) == r.kept \union (IF r.original THEN {remote[a]} ELSE {})

(* Mutant: what an operator closed owns nothing. *)
Owned_Originals == {remote[a] : a \in {b \in Assets : db[b].original}}

(* existing_original_record_names *)
Owned == UNION {Names(db[a], a) : a \in Assets}

(* For which targets a HEIC lies beside the RAW, and which photo has it.  The *)
(* monitor does not look (cloudkit_original_asset_resolve_target).            *)
NoHeic(B) == [a \in B |-> Absent]

(* Targets that are alike cannot be told apart, nor can photos. *)
Ambiguous(B, heic, a) ==
    \/ heic[a] = Unclear
    \/ \E b \in B \ {a} : \/ remote[b] = remote[a] /\ remote[a] \in Assets
                          \/ heic[b] = heic[a] /\ heic[a] \in Photos

Closed(photos) == [state |-> "no action", original |-> FALSE, kept |-> photos]

(* With a HEIC: Coexistence, or ReplacementPresent.  The state is the one     *)
(* that the proofs support.                                                   *)
Resolution(B, heic, a) ==
    IF Ambiguous(B, heic, a) THEN Record("review", FALSE)
    ELSE IF heic[a] \in Photos
    THEN Closed({heic[a]} \union ({remote[a]} \intersect Assets))
    ELSE CASE remote[a] = Unclear -> Record("review", FALSE)
           [] remote[a] = Absent  -> Closed({})
           [] OTHER -> Record(IF Has(a, {"retried", "unmatched"}) THEN "nas"
                                                                  ELSE db[a].state, TRUE)

Exact(B, heic) == {a \in B : Resolution(B, heic, a).original}

Named(B, heic, a) == Names(Resolution(B, heic, a), a)

Clash(B, heic) ==
    \E a, b \in B : a # b /\ Named(B, heic, a) \intersect Named(B, heic, b) # {}

(* A photo has one record. *)
Refused(B, heic) ==
    \/ Malformed \/ Clash(B, heic)
    \/ \E a \in B : Named(B, heic, a) \intersect Owned # {}

(* apply_original_asset_resolution_batch: all records, or none and an error.  *)
Applied(B, heic) == [a \in Assets |-> IF a \in B THEN Resolution(B, heic, a) ELSE db[a]]

ResolveBatch ==
    /\ pc \in {"resolve", "resolve again"} /\ todo # <<>>
    /\ LET B == Head(todo) IN
       IF Refused(B, NoHeic(B))
       THEN EndScan /\ UNCHANGED db
       ELSE /\ db' = Applied(B, NoHeic(B))
            /\ \E found \in {Exact(B, NoHeic(B)) # {}} :
                  counts' = [counts EXCEPT !.progress = @ \/ found, !.moved = @ \/ found]
            /\ todo' = Tail(todo)
            /\ UNCHANGED <<pc, active, admitted, deferred, requests>>
    /\ UNCHANGED <<remote, blocked, faults>>

(* The query fails, or is incomplete for some target: then all are deferred. *)
DeferBatch ==
    /\ pc \in {"resolve", "resolve again"} /\ todo # <<>>
    /\ Fault
    /\ todo' = Tail(todo)
    /\ \E failed \in BOOLEAN : counts' = [counts EXCEPT !.failure = @ \/ failed]
    /\ UNCHANGED <<db, remote, blocked, pc, active, admitted, deferred, requests>>

Resolved ==
    /\ pc \in {"resolve", "resolve again"} /\ todo = <<>>
    /\ pc' = IF pc = "resolve again" THEN "pass done" ELSE "pool"
    /\ UNCHANGED <<db, remote, blocked, active, admitted, deferred, todo, counts, requests, faults>>

(* rolling_lifecycle_should_continue *)
Continue ==
    \/ counts.failure /\ ActiveSet # active
    \/ counts.progress /\ (counts.conversions < MaxConversions \/ counts.moved)

Passes == IF Limit + MaxConversions = 0 THEN 1 ELSE Limit + MaxConversions

PassDone ==
    /\ pc = "pass done"
    /\ IF Continue /\ ActiveSet # <<>> /\ counts.pass + 1 < Passes
       THEN /\ active' = ActiveSet
            /\ counts' = [Zero EXCEPT !.pass = counts.pass + 1,
                                      !.conversions = counts.conversions]
            /\ pc' = "delete"
            /\ UNCHANGED <<admitted, deferred, todo, requests>>
       ELSE EndScan
    /\ UNCHANGED <<db, remote, blocked, faults>>

(* An error that ends the scan, or the death of the process. *)
ScanFails ==
    /\ pc # "idle"
    /\ EndScan /\ Fault
    /\ UNCHANGED <<db, remote, blocked>>

Step ==
    \/ Activate \/ DeleteBatch \/ StartResolving \/ Pool
    \/ ResolveBatch \/ Resolved \/ PassDone

(* original_assets_audit_targets: those of a library whose RAW can be read.   *)
Audited == SUBSET (Unresolved \union {a \in Assets : Has(a, {"unmatched"})}) \ {{}}

(* What an audit may find for the HEIC beside a RAW: a photo taken then, with *)
(* a RAW or without.  Unclear: several have the HEIC, or the RAW.             *)
Heics(a) ==
    LET then == {b \in WithHeic : Captured[b] = Captured[a]} IN
    IF a \notin WithHeic THEN {Absent}
    ELSE {Absent, Unclear} \union {N + b : b \in {b \in then : b <= a}}
             \union ({remote[b] : b \in {b \in Assets : Captured[b] = Captured[a]}}
                        \intersect Assets)

(* monitor original-assets-reconcile --apply, an operator's command between   *)
(* two scans: the targets of a whole library in one batch.  A result that is  *)
(* incomplete, or not the one the operator has reviewed, is refused.          *)
Reconcile ==
    /\ pc = "idle"
    /\ \E B \in Audited : \E heic \in [B -> UNION {Heics(a) : a \in B}] :
          /\ \A a \in B : heic[a] \in Heics(a)
          /\ ~Refused(B, heic) /\ db' = Applied(B, heic)
    /\ UNCHANGED <<remote, blocked, scanVars, faults>>

Next == StartScan \/ Step \/ DeferBatch \/ ScanFails \/ Reconcile

Spec == Init /\ [][Next]_vars

(* A monitor scans again and again, and a scan goes on. *)
FairSpec == Spec /\ WF_vars(StartScan) /\ WF_vars(Step)

-----------------------------------------------------------------------------
TypeOK ==
    /\ db \in [Assets -> Records]
    /\ remote \in [Assets -> Assets \union {Absent, Unclear}]
    /\ blocked \subseteq Assets
    /\ pc \in {"idle", "admitted", "delete", "deleted", "resolve", "pool",
               "delete again", "deleted again", "resolve again", "pass done"}
    /\ active \in Seq(Assets) /\ Len(active) <= Limit /\ IsInjective(active)
    /\ admitted \subseteq Assets /\ deferred \subseteq Assets
    /\ todo \in Seq(SUBSET Assets)
    /\ counts \in [pass : Nat, conversions : 0 .. MaxConversions,
                   progress : BOOLEAN, moved : BOOLEAN, failure : BOOLEAN]
    /\ requests \in [Assets -> Nat]
    /\ faults \in 0 .. MaxFaults

(* No photo of iCloud is named by two records, as the original of a RAW or as *)
(* the replacement beside it: none is deleted for a RAW whose copy was        *)
(* converted, or that an operator closed because its photo is to be kept.     *)
(* Across batches, scans, crashes and commands (existing_original_record_     *)
(* names).                                                                    *)
OriginalHasOneRaw ==
    \A a, b \in Assets : a # b => Names(db[a], a) \intersect Names(db[b], b) = {}

(* README.md:383: max_lifecycle_per_scan caps the delete candidates admitted  *)
(* in all passes of a scan, and none is tried twice.                          *)
DeletesFitInScan ==
    /\ \A a \in Assets : requests[a] <= 1
    /\ Cardinality({a \in Assets : requests[a] > 0}) <= Limit

(* Assets that wait for a deletion that cannot be done fill the active set. *)
Crowded ==
    Cardinality({a \in blocked : Has(a, {"ready", "approved"})}) >= Limit

(* Every batch is refused: the resolution of originals has come to a stop. *)
Poisoned ==
    Malformed \/ \E a \in Unresolved : remote[a] \in Owned

Decided(a) ==
    Has(a, {"deleted", "no action", "review", "failed", "unmatched"})

(* Every asset is decided, or waits for an operator: itself blocked, crowded  *)
(* out by blocked ones, or not resolved while a record poisons the manifest.  *)
AssetsAreDecided ==
    \A a \in Assets :
        <>[](Decided(a) \/ a \in blocked \/ Crowded \/ (Poisoned /\ ~db[a].original))
=============================================================================
