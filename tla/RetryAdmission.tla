--------------------------- MODULE RetryAdmission ---------------------------
(***************************************************************************)
(* Which failed assets a scan takes up again (src/monitor.rs,              *)
(* admit_scan_retry_policies), and the scans around it.                    *)
(*                                                                         *)
(* At its start a scan admits, under one lifecycle budget and in this      *)
(* order, retries of typed failures, replacements of sources without a     *)
(* usable preview, and new attempts to match an original; what has no      *)
(* attempt left goes to review.  Proofs in the record carry the attempts   *)
(* over restarts.  The admissions are stored before any work on them.      *)
(* Then the scan selects its active assets, works on them (staged mode),   *)
(* looks for new RAW files unless it is full, and works on.                *)
(*                                                                         *)
(* Full-lifecycle mode with auto_delete.  In rolling mode each step of     *)
(* work stores its record; in staged mode the results of a stage stay in   *)
(* memory until the next checkpoint.  Failures are represented by their    *)
(* number and the last of them: the list is append-only, so the digests    *)
(* over its prefix that the proofs carry always agree.                     *)
(***************************************************************************)
EXTENDS Integers, FiniteSets

CONSTANTS Assets,            \* asset ids
          Modes,             \* config.rolling_lifecycle may be any of these
          MaxLifecycle,      \* config.max_lifecycle_per_scan
          MaxConversions,    \* config.max_conversions_per_scan
          ConversionReserve, \* rolling_lifecycle_active_conversion_reserve
          MaxAdmissions,     \* config.max_failed_retry_admissions_per_scan
          MaxResolverRetries, \* config.max_original_resolver_retries_per_scan
          RetryMinAge,       \* config.failed_retry_min_age_seconds, in ticks
          AdjustedMinAge,    \* ADJUSTED_SOURCE_RESOLVE_RETRY_MIN_AGE_SECONDS
          ResolverMinAge,    \* config.original_resolver_retry_min_age_seconds
          Occurring,         \* bound: the kinds of failures that happen
          SideEffects,       \* assets an older program uploaded or deleted for
          Initial,           \* bound: records found when the monitor first starts
          MaxFails,          \* bound: failures after which matching succeeds
          MaxLost,           \* bound: converted files that disappear
          MaxFaults          \* bound: crashes, store errors, transient errors

ASSUME RetryAssumption ==
    /\ IsFiniteSet(Assets)
    /\ Modes \subseteq BOOLEAN /\ Modes # {}
    /\ SideEffects \subseteq Assets
    /\ MaxLifecycle \in Nat /\ MaxConversions \in Nat
    /\ ConversionReserve \in Nat /\ 2 * ConversionReserve <= MaxLifecycle
    /\ MaxAdmissions \in Nat /\ MaxResolverRetries \in Nat
    /\ RetryMinAge \in Nat /\ AdjustedMinAge \in Nat /\ ResolverMinAge \in Nat
    /\ MaxFails \in Nat /\ MaxLost \in Nat /\ MaxFaults \in Nat

VARIABLES
    db,        \* the committed records
    manifest,  \* the records in memory of the scan
    age,       \* time since the last failure of each asset
    lost,      \* assets whose converted file is gone or cannot be read
    rolling,   \* config.rolling_lifecycle of this scan
    pc,        \* where the scan is
    active,    \* active_lifecycle_ids
    todo,      \* the active assets the scan has yet to lead on
    conversions, \* conversions the scan may still start
    faults     \* faults so far

vars == <<db, manifest, age, lost, rolling, pc, active, todo, conversions, faults>>

-----------------------------------------------------------------------------
(* Records.                                                                *)

(* new stands for no record and Discovered, uploaded for UploadVerified up *)
(* to DeleteApproved, closed for Deleted and NoAction, review for          *)
(* NeedsReview.                                                            *)
States == {"new", "nas", "converted", "verified", "uploaded", "closed",
           "failed", "review"}
Running == {"nas", "converted", "verified", "uploaded"}

(* One kind stands for those with the same policy.  visual: HeicVisualMatch; *)
(* metadata: orientation and dimensions; content: HeicVisualContent; output: *)
(* ConversionOutputUnreadable, ConversionMetadataFailed; timeout: time-outs, *)
(* a missing tool, files in the way; preview: EmbeddedPreviewUnavailable;    *)
(* adjusted: AdjustedSourceResolveFailed; resolve: the stage                 *)
(* original_asset_resolve; other: no kind at all; untyped: no kind, with the  *)
(* message of an older program that found no preview.                        *)
Kinds == {"visual", "metadata", "content", "output", "timeout", "preview",
          "adjusted", "resolve", "other", "untyped"}

(* failed_retry_policy. *)
MaxAttempts == [visual |-> 1, metadata |-> 1, output |-> 1, timeout |-> 3]
RetryState == [visual |-> "converted", metadata |-> "converted",
               output |-> "nas", timeout |-> "nas"]
Retryable == DOMAIN MaxAttempts

MaxCumulative == 3    \* FAILED_RETRY_MAX_CUMULATIVE_ATTEMPTS
MaxAdjusted == 3      \* ADJUSTED_SOURCE_RESOLVE_MAX_ATTEMPTS

(* The retry proof: version 3 is failure_retry_v3, version 2 the proof an   *)
(* older program left behind, version 0 none.                               *)
NoRetry == [version |-> 0, kind |-> "none", category |-> 0, cumulative |-> 0,
            start |-> 0, at |-> 0]
NoMarker == [attempt |-> 0, at |-> 0]

Records ==
    [state : States,
     kind : Kinds \union {"none"},     \* of the last failure
     fails : Nat,                      \* failures.len()
     reached : {"nas", "conversion", "heic"}, \* the furthest proof
     original : BOOLEAN,               \* original_asset
     adjusted : BOOLEAN,               \* adjusted_source
     retry : [version : {0, 2, 3}, kind : Retryable \union {"none"},
              category : 0 .. MaxCumulative, cumulative : 0 .. MaxCumulative,
              start : Nat, at : Nat],
     marker : [attempt : 0 .. MaxAdjusted, at : Nat]] \* adjusted_source_required

Least(m, n) == IF m < n THEN m ELSE n
Most(m, n) == IF m > n THEN m ELSE n
MaxAge == Most(RetryMinAge, Most(AdjustedMinAge, ResolverMinAge))

Fail(r, k) == [r EXCEPT !.state = "failed", !.kind = k, !.fails = @ + 1]
Reviewed(r) == [r EXCEPT !.state = "review"]
Replaced(m, new) == [a \in Assets |-> IF a \in DOMAIN new THEN new[a] ELSE m[a]]
ReviewedIn(m, S) == Replaced(m, [a \in S |-> Reviewed(m[a])])

(* adjusted_source_required_proof: the marker waits for its resolver.        *)
MarkerUsable(r) ==
    /\ r.state = "failed" /\ r.marker.attempt > 0
    /\ r.original /\ ~r.adjusted /\ r.reached = "nas"
Current(r) == MarkerUsable(r) /\ r.fails = r.marker.at

(* validate_adjusted_source_required_retry: the resolver failed since.       *)
ResolverFailed(r) ==
    MarkerUsable(r) /\ r.fails = r.marker.at + 1 /\ r.kind = "adjusted"

(* LifecycleAdmissionBudget::for_scan. *)
Occupies(r) == r.state \in Running \/ Current(r) \/ ResolverFailed(r)
Occupied(m) == Cardinality({a \in Assets : Occupies(m[a])})

(* The sets of n assets, or all there are, that come first in S by rank. *)
FirstOf(S, n, rank) ==
    {T \in SUBSET S : /\ Cardinality(T) = Least(n, Cardinality(S))
                      /\ \A a \in T, b \in S \ T : rank[a] <= rank[b]}
Some(S, n) == FirstOf(S, n, [a \in S |-> 0])
Oldest(S, n) == FirstOf(S, n, [a \in S |-> MaxAge - age[a]])

-----------------------------------------------------------------------------
(* The admissions: each takes a manifest with its budget to the next.        *)

Remaining(p) == IF p.occupied < MaxLifecycle THEN MaxLifecycle - p.occupied ELSE 0

(* failed_retry_attempt. *)
Readable(r) ==
    \/ r.retry.version = 0
    \/ /\ r.retry.version # 0
       /\ r.retry.at > 0
       /\ r.fails = r.retry.at + 1
       /\ r.retry.version = 3 => r.retry.at - r.retry.start + 1 = r.retry.cumulative

OldCategory(r) == r.retry.version = 2 /\ r.retry.kind # r.kind

Category(r) == IF r.retry.kind = r.kind THEN r.retry.category ELSE 0

(* Mutant: a retry of another kind starts a new lineage. *)
Lineage_Restarts(r) == IF r.retry.kind = r.kind THEN r.retry.start ELSE r.fails

Lineage(r) ==
    CASE r.retry.version = 0 -> r.fails
      [] r.retry.version = 2 -> r.fails - r.retry.cumulative
      [] r.retry.version = 3 -> r.retry.start

(* Mutant: an asset that waits for an adjusted source is retried as well. *)
Considered_Marked(m) ==
    {a \in Assets : /\ m[a].state = "failed"
                    /\ m[a].reached # "heic"
                    /\ m[a].kind \in Retryable
                    /\ m[a].original
                    /\ Readable(m[a])}

Considered(m) ==
    {a \in Assets : /\ m[a].state = "failed"
                    /\ m[a].reached # "heic"
                    /\ m[a].kind \in Retryable
                    /\ m[a].marker = NoMarker
                    /\ m[a].original
                    /\ Readable(m[a])}

Exhausted(r) ==
    \/ Category(r) >= MaxAttempts[r.kind]
    \/ r.retry.cumulative >= MaxCumulative

(* Mutant: the attempts of another kind of failure are not counted. *)
Retried_CategoryOnly(r) ==
    [r EXCEPT !.state = RetryState[r.kind],
              !.retry = [version |-> 3, kind |-> r.kind,
                         category |-> Category(r) + 1,
                         cumulative |-> Category(r) + 1,
                         start |-> Lineage(r), at |-> r.fails]]

(* admit_failed_retry. *)
Retried(r) ==
    [r EXCEPT !.state = RetryState[r.kind],
              !.retry = [version |-> 3, kind |-> r.kind,
                         category |-> Category(r) + 1,
                         cumulative |-> r.retry.cumulative + 1,
                         start |-> Lineage(r), at |-> r.fails]]

(* Failures of the content go to review, and so does what is exhausted.      *)
Content(m) == {a \in Assets : m[a].state = "failed" /\ m[a].kind = "content"}
Spent(m) == {a \in Considered(m) : OldCategory(m[a]) \/ Exhausted(m[a])}
RetryReady(m) ==
    {a \in Considered(m) \ Spent(m) :
        /\ m[a].kind = "visual" => a \notin lost
        /\ age[a] >= RetryMinAge}
WithRetries(m, S) ==
    Replaced(m, [a \in Spent(m) \union S |->
                    IF a \in S THEN Retried(m[a]) ELSE Reviewed(m[a])])

(* admit_failed_retryable_assets_with_budget. *)
FailedRetries(p) ==
    LET m == ReviewedIn(p.m, Content(p.m)) IN
    {[m |-> WithRetries(m, S), occupied |-> p.occupied + Cardinality(S)]
        : S \in Oldest(RetryReady(m), Least(Remaining(p), MaxAdmissions))}

(* build_adjusted_source_required_proof. *)
Marked(r) == [r EXCEPT !.marker = [attempt |-> @.attempt + 1, at |-> r.fails]]

FirstMarks(m) ==
    {a \in Assets : /\ m[a].state = "failed" /\ m[a].marker = NoMarker
                    /\ m[a].kind = "preview"
                    /\ m[a].original /\ ~m[a].adjusted /\ m[a].reached = "nas"}
NextMarks(m) ==
    {a \in Assets : /\ ResolverFailed(m[a])
                    /\ m[a].marker.attempt < MaxAdjusted
                    /\ age[a] >= AdjustedMinAge}
MarkedIn(m, S) == Replaced(m, [a \in S |-> Marked(m[a])])

(* Mutant: a first requirement does not take a slot. *)
AdjustedSources_NoSlot(p) ==
    {[m |-> MarkedIn(p.m, S), occupied |-> p.occupied]
        : S \in Oldest(FirstMarks(p.m) \union NextMarks(p.m), MaxAdmissions)}

(* admit_adjusted_source_required_assets_with_budget: only a first          *)
(* requirement takes a slot, a repeated one has it already.                 *)
AdjustedSources(p) ==
    UNION {UNION {
      {[m |-> MarkedIn(p.m, S), occupied |-> p.occupied + Cardinality(S \intersect F)]
          : S \in Oldest(F \union R, MaxAdmissions)}
      : R \in Oldest(NextMarks(p.m), MaxAdmissions)}
      : F \in Oldest(FirstMarks(p.m), Least(MaxAdmissions, Remaining(p)))}

Released(p, n) == IF p.occupied > n THEN p.occupied - n ELSE 0

(* Mutant: the last attempt does not count as exhausted. *)
ExhaustedMarkers_OffByOne(p) ==
    LET S == {a \in Assets : /\ ResolverFailed(p.m[a])
                             /\ p.m[a].marker.attempt > MaxAdjusted}
    IN [m |-> ReviewedIn(p.m, S), occupied |-> Released(p, Cardinality(S))]

(* terminalize_exhausted_adjusted_source_required_assets. *)
ExhaustedMarkers(p) ==
    LET S == {a \in Assets : /\ ResolverFailed(p.m[a])
                             /\ p.m[a].marker.attempt >= MaxAdjusted}
    IN [m |-> ReviewedIn(p.m, S), occupied |-> Released(p, Cardinality(S))]

Requeued(r) == [r EXCEPT !.state = "failed"]
Recovered(r) ==
    [r EXCEPT !.state = CASE r.reached = "heic" -> "verified"
                          [] r.reached = "conversion" -> "converted"
                          [] r.reached = "nas" -> "nas"]

InterruptedIn(m) ==
    {a \in Assets : /\ m[a].state \in {"nas", "converted", "verified"}
                    /\ m[a].kind = "resolve" /\ ~m[a].original}
RequeuedIn(m, S) == Replaced(m, [a \in S |-> Requeued(m[a])])
ResolverReady(m) ==
    {a \in Assets : /\ m[a].state = "failed" /\ m[a].kind = "resolve"
                    /\ ~m[a].original
                    /\ age[a] >= ResolverMinAge}
RecoveredIn(m, S) == Replaced(m, [a \in S |-> Recovered(m[a])])

(* recover_original_asset_resolver_retries_with_budget: attempts that were  *)
(* interrupted are queued again, then the oldest are recovered.             *)
ResolverRetries(p) ==
    LET S == InterruptedIn(p.m)
        q == [m |-> RequeuedIn(p.m, S), occupied |-> Released(p, Cardinality(S))]
    IN {[m |-> RecoveredIn(q.m, T), occupied |-> q.occupied + Cardinality(T)]
           : T \in Oldest(ResolverReady(q.m), Least(Remaining(q), MaxResolverRetries))}

(* admit_scan_retry_policies. *)
Admissions(m) ==
    UNION {ResolverRetries(ExhaustedMarkers(p)) :
           p \in UNION {AdjustedSources(q) :
                        q \in FailedRetries([m |-> m, occupied |-> Occupied(m)])}}

-----------------------------------------------------------------------------
(* The active assets of a scan.                                             *)

Unmatched(r) == r.state \in {"nas", "converted", "verified"} /\ ~r.original
ConversionReady(r) == r.state = "nas" /\ r.original

(* Mutant: every record with a marker stays active. *)
Continues_AnyMarker(r) ==
    \/ r.state = "failed" /\ r.marker # NoMarker
    \/ r.state \in {"converted", "verified", "uploaded"}
    \/ ConversionReady(r)

(* is_lifecycle_continuation_candidate. *)
Continues(r) ==
    \/ Current(r)
    \/ r.state \in {"converted", "verified", "uploaded"}
    \/ ConversionReady(r)

(* lifecycle_continuation_priority. *)
Priority(r) ==
    CASE r.state = "uploaded" -> 3
      [] r.state = "verified" -> IF r.original THEN 4 ELSE 8
      [] r.state = "failed" -> 5
      [] r.state = "nas" -> 6
      [] r.state = "converted" -> IF r.original THEN 7 ELSE 9
      [] OTHER -> 10

(* Whether S can be active_lifecycle_asset_ids_for_config: the conversion    *)
(* reserve, continuations, then assets whose original is to be matched.      *)
Selected(m, S) ==
    LET ready == {a \in Assets : ConversionReady(m[a])}
        continuing == {a \in Assets : Continues(m[a])}
        unmatched == {a \in Assets : m[a].state \in {"nas", "verified"} /\ ~m[a].original}
        rank == [a \in Assets |-> Priority(m[a])]
        slots(T) == MaxLifecycle - Cardinality(T)
    IN \E C \in Some(ready, IF rolling THEN ConversionReserve ELSE 0) :
       \E T \in FirstOf(continuing \ C, slots(C), rank) :
       \E U \in Some(unmatched \ (C \union T), slots(C \union T)) :
          S = C \union T \union U

-----------------------------------------------------------------------------
(* A scan.                                                                   *)

Fresh == [state |-> "new", kind |-> "none", fails |-> 0, reached |-> "nas",
          original |-> FALSE, adjusted |-> FALSE,
          retry |-> NoRetry, marker |-> NoMarker]

(* What an older program or a conversion-only monitor left behind.           *)
ConvertedOnly == [Fresh EXCEPT !.state = "converted", !.reached = "conversion"]
OldRetry(k) ==
    [Fresh EXCEPT !.state = "failed", !.kind = k, !.fails = 2, !.original = TRUE,
                  !.retry = [version |-> 2, kind |-> "timeout", category |-> 1,
                             cumulative |-> 1, start |-> 0, at |-> 1]]

OldPreview ==
    [Fresh EXCEPT !.state = "failed", !.kind = "untyped", !.fails = 1, !.original = TRUE]

InitialRecords ==
    {Fresh, ConvertedOnly, OldRetry("timeout"), OldRetry("output"), OldPreview}

ASSUME InitialAssumption == Initial \subseteq InitialRecords

Init ==
    /\ db \in [Assets -> Initial]
    /\ manifest = db
    /\ age = [a \in Assets |-> MaxAge]
    /\ lost = {}
    /\ rolling \in Modes
    /\ pc = "idle" /\ active = {} /\ todo = {} /\ conversions = 0
    /\ faults = 0

Fault == faults < MaxFaults /\ faults' = faults + 1

(* run_monitor_once: load_or_import, admit_scan_retry_policies.  The service *)
(* may have been started again with another configuration.                  *)
StartScan ==
    /\ pc = "idle"
    /\ rolling' \in Modes
    /\ \E p \in Admissions(db) :
          /\ manifest' = p.m
          /\ pc' = IF p.m # db THEN "checkpoint" ELSE "select"
    /\ conversions' = MaxConversions
    /\ UNCHANGED <<db, age, lost, active, todo, faults>>

(* checkpoint_manifest_state, of the admissions and of what was discovered. *)
Checkpoint ==
    /\ pc \in {"checkpoint", "discovered"}
    /\ db' = manifest
    /\ pc' = IF pc = "checkpoint" THEN "select" ELSE "refresh"
    /\ UNCHANGED <<rolling, manifest, age, lost, active, todo, conversions, faults>>

(* The records or, after they are stored, the export to JSON. *)
CheckpointFails ==
    /\ pc \in {"checkpoint", "discovered"}
    /\ Fault
    /\ db' \in {db, manifest}
    /\ manifest' = db'
    /\ pc' = "idle" /\ active' = {} /\ todo' = {} /\ conversions' = 0
    /\ UNCHANGED <<rolling, age, lost>>

(* The active assets; staged mode leads them one step before it discovers. *)
Select ==
    /\ pc = "select"
    /\ \E S \in SUBSET Assets :
          /\ Selected(manifest, S)
          /\ active' = S
          /\ todo' = IF rolling THEN {} ELSE S
    /\ pc' = IF rolling THEN "discover" ELSE "work"
    /\ UNCHANGED <<rolling, db, manifest, age, lost, conversions, faults>>

StagesDone ==
    /\ pc = "work" /\ todo = {}
    /\ pc' = "discover"
    /\ UNCHANGED <<rolling, db, manifest, age, lost, active, todo, conversions, faults>>

(* new_monitor_work_skip_reason. *)
SkipsNewWork ==
    \/ ~rolling /\ active # {}
    \/ rolling /\ MaxLifecycle > 0 /\ Cardinality(active) >= MaxLifecycle

SkipDiscovery ==
    /\ pc = "discover" /\ SkipsNewWork
    /\ pc' = "refresh"
    /\ UNCHANGED <<rolling, db, manifest, age, lost, active, todo, conversions, faults>>

(* Files appear when they like; some are not ready. *)
Discover ==
    /\ pc = "discover" /\ ~SkipsNewWork
    /\ \E S \in SUBSET {a \in Assets : manifest[a].state = "new"} :
          /\ S = {} \/ Cardinality(S) + Cardinality({a \in Assets : ConversionReady(manifest[a])})
                          <= MaxConversions
          /\ manifest' = [a \in Assets |-> IF a \in S THEN [manifest[a] EXCEPT !.state = "nas"]
                                           ELSE manifest[a]]
    /\ pc' = "discovered"
    /\ UNCHANGED <<rolling, db, age, lost, active, todo, conversions, faults>>

(* refresh_active_lifecycle_ids_after_discovery. *)
Refresh ==
    /\ pc = "refresh"
    /\ IF rolling \/ active = {}
       THEN \E S \in SUBSET Assets : Selected(manifest, S) /\ active' = S /\ todo' = S
       ELSE UNCHANGED active /\ todo' = active
    /\ pc' = "finish"
    /\ UNCHANGED <<rolling, db, manifest, age, lost, conversions, faults>>

(* run_rolling_lifecycle_passes: another pass after one that changed something. *)
NextPass ==
    /\ pc = "progress" /\ todo = {} /\ rolling
    /\ \E S \in SUBSET Assets : Selected(manifest, S) /\ active' = S /\ todo' = S
    /\ pc' = "finish"
    /\ UNCHANGED <<rolling, db, manifest, age, lost, conversions, faults>>

(* The last checkpoint of a scan. *)
EndScan ==
    /\ pc \in {"finish", "progress"} /\ todo = {}
    /\ db' = manifest
    /\ pc' = "idle" /\ active' = {} /\ conversions' = 0
    /\ UNCHANGED <<rolling, manifest, age, lost, todo, faults>>

(* A crash, an error that ends the scan, or assets left alone by an error   *)
(* that may pass; what was not stored is gone.                              *)
Interrupt ==
    /\ pc # "idle"
    /\ Fault
    /\ manifest' = db
    /\ pc' = "idle" /\ active' = {} /\ todo' = {} /\ conversions' = 0
    /\ UNCHANGED <<rolling, db, age, lost>>

-----------------------------------------------------------------------------
(* The work of a scan.                                                      *)

Working == pc \in {"work", "finish", "progress"}

(* A worker leads an asset on, or comes to another one first.  In staged     *)
(* mode the checkpoint of a chunk stores all the results so far, if there is *)
(* one: a chunk of failures alone has none (verify_converted_heics).         *)
Store(a, r) ==
    /\ manifest' = [manifest EXCEPT ![a] = r]
    /\ IF rolling THEN db' = [db EXCEPT ![a] = r] ELSE db' \in {db, manifest'}
    /\ age' = IF r.fails > manifest[a].fails THEN [age EXCEPT ![a] = 0] ELSE age
    /\ todo' \in {todo, todo \ {a}}
    /\ pc' = IF pc = "work" THEN "work" ELSE "progress"
    /\ UNCHANGED <<rolling, lost, active, faults>>

Fails(a, K) == \E k \in K \intersect Occurring : Store(a, Fail(manifest[a], k))

(* resolve_original_assets; the rolling resolver looks beyond the active set. *)
Resolve(a) ==
    LET r == manifest[a] IN
    /\ Working
    /\ a \in todo \/ (rolling /\ r.state \in {"nas", "verified"})
    /\ Unmatched(r)
    /\ UNCHANGED conversions
    /\ \/ Store(a, [r EXCEPT !.original = TRUE])
       \/ r.fails < MaxFails /\ Fails(a, {"resolve"})
       \/ \E s \in {"review", "closed"} : Store(a, [r EXCEPT !.state = s])

(* execute_monitor_conversions; only the source itself can lack a preview. *)
Convert(a) ==
    LET r == manifest[a] IN
    /\ pc \in {"finish", "progress"} /\ a \in todo
    /\ ConversionReady(r)
    /\ conversions > 0 /\ conversions' = conversions - 1
    /\ \/ Store(a, [r EXCEPT !.state = "converted", !.reached = "conversion"])
       \/ Fails(a, {"output", "timeout", "other"})
       \/ ~r.adjusted /\ Fails(a, {"preview"})

(* verify_converted_heics. *)
Verify(a) ==
    LET r == manifest[a] IN
    /\ Working /\ a \in todo
    /\ r.state = "converted" /\ a \notin lost
    /\ UNCHANGED conversions
    /\ \/ Store(a, [r EXCEPT !.state = "verified", !.reached = "heic"])
       \/ Fails(a, {"visual", "metadata", "content", "other"})

(* upload_verified_heics. *)
Upload(a) ==
    LET r == manifest[a] IN
    /\ Working /\ a \in todo
    /\ r.state = "verified" /\ r.original
    /\ UNCHANGED conversions
    /\ Store(a, [r EXCEPT !.state = "uploaded"]) \/ Fails(a, {"other"})

(* record_local_mirrors, delete_original_assets. *)
Finish(a) ==
    LET r == manifest[a] IN
    /\ Working /\ a \in todo
    /\ r.state = "uploaded"
    /\ UNCHANGED conversions
    /\ Store(a, [r EXCEPT !.state = "closed"])

(* Mutant: the record goes back to work before the proof is stored. *)
ResolveAdjusted_NoProof(a) ==
    LET r == manifest[a] IN
    /\ rolling
    /\ Working /\ a \in todo
    /\ Current(r)
    /\ conversions > 0 /\ UNCHANGED conversions
    /\ \/ Store(a, [r EXCEPT !.state = "nas"])
       \/ Fails(a, {"adjusted"})

(* run_rolling_adjusted_source_resolution. *)
ResolveAdjusted(a) ==
    LET r == manifest[a] IN
    /\ rolling
    /\ Working /\ a \in todo
    /\ Current(r)
    /\ conversions > 0 /\ UNCHANGED conversions
    /\ \/ Store(a, [r EXCEPT !.state = "nas", !.adjusted = TRUE])
       \/ Fails(a, {"adjusted"})

Work(a) ==
    \/ Resolve(a) \/ Convert(a) \/ Verify(a) \/ Upload(a) \/ Finish(a)
    \/ ResolveAdjusted(a)

(* Nothing can be done for an active asset: its step belongs to a later      *)
(* stage, no conversion is left, it is in a state no stage takes up, or its  *)
(* converted file is gone, an error that leaves the record as it is.         *)
Blocked(a) ==
    LET r == manifest[a]
        needsConversion == ConversionReady(r) \/ Current(r)
    IN \/ r.state \in {"new", "closed", "review"}
       \/ r.state = "failed" /\ (~rolling \/ ~Current(r))
       \/ r.state = "converted" /\ a \in lost
       \/ needsConversion /\ (pc = "work" \/ conversions = 0)

Pass(a) ==
    /\ Working /\ a \in todo
    /\ Blocked(a)
    /\ todo' = todo \ {a}
    /\ UNCHANGED <<rolling, db, manifest, age, lost, pc, active, conversions, faults>>

-----------------------------------------------------------------------------
(* The commands of an operator.  Their guard keeps the scans out, and what   *)
(* they change is one exact compare-and-swap of the whole batch.  The dry    *)
(* run before them changes nothing; had a record changed since, the          *)
(* fingerprint would differ and the command would be refused.                *)

(* monitor failed-assets-quarantine: the failed assets for which the         *)
(* evidence file shows uploads or deletions go to review.                    *)
Tainted(m) == {a \in SideEffects : m[a].state = "failed"}
QuarantineFailed ==
    /\ pc = "idle"
    /\ Tainted(db) # {}
    /\ db' = ReviewedIn(db, Tainted(db))
    /\ manifest' = db'
    /\ UNCHANGED <<rolling, age, lost, pc, active, todo, conversions, faults>>

(* classify_legacy_embedded_preview_migration. *)
Classifiable(m) ==
    {a \in Assets : /\ m[a].state = "failed" /\ m[a].kind = "untyped"
                    /\ m[a].marker = NoMarker
                    /\ ~m[a].adjusted /\ m[a].reached = "nas"}

(* monitor legacy-failures-classify: every candidate gets its kind. *)
ClassifyFailures ==
    /\ pc = "idle"
    /\ Classifiable(db) # {}
    /\ db' = Replaced(db, [a \in Classifiable(db) |-> [db[a] EXCEPT !.kind = "preview"]])
    /\ manifest' = db'
    /\ UNCHANGED <<rolling, age, lost, pc, active, todo, conversions, faults>>

-----------------------------------------------------------------------------
(* The environment.                                                         *)

Tick ==
    /\ \E a \in Assets : age[a] < MaxAge
    /\ age' = [a \in Assets |-> Least(age[a] + 1, MaxAge)]
    /\ UNCHANGED <<rolling, db, manifest, lost, pc, active, todo, conversions, faults>>

(* A converted file disappears. *)
OutputLost(a) ==
    /\ db[a].reached = "conversion" /\ db[a].state \in {"converted", "failed"}
    /\ a \notin lost /\ Cardinality(lost) < MaxLost
    /\ lost' = lost \union {a}
    /\ UNCHANGED <<rolling, db, manifest, age, pc, active, todo, conversions, faults>>

Monitor ==
    \/ StartScan \/ Checkpoint \/ Select \/ StagesDone \/ SkipDiscovery \/ Discover
    \/ Refresh \/ NextPass \/ EndScan
    \/ \E a \in Assets : Work(a) \/ Pass(a)

Next ==
    \/ Monitor
    \/ CheckpointFails \/ Interrupt \/ Tick
    \/ QuarantineFailed \/ ClassifyFailures
    \/ \E a \in Assets : OutputLost(a)

Spec == Init /\ [][Next]_vars

(* The monitor process keeps scanning and time goes on. *)
FairSpec == Spec /\ WF_vars(Monitor) /\ WF_vars(Tick)

-----------------------------------------------------------------------------
(* Properties.                                                              *)

TypeOK ==
    /\ db \in [Assets -> Records] /\ manifest \in [Assets -> Records]
    /\ age \in [Assets -> 0 .. MaxAge]
    /\ lost \subseteq Assets
    /\ rolling \in Modes
    /\ pc \in {"idle", "checkpoint", "select", "work", "discover", "discovered",
               "refresh", "finish", "progress"}
    /\ active \subseteq Assets /\ todo \subseteq Assets
    /\ conversions \in 0 .. MaxConversions
    /\ faults \in 0 .. MaxFaults

(* README.md:389-399: together the admissions of a scan never exceed        *)
(* max_lifecycle_per_scan, although three policies spend and two of them    *)
(* give slots back (admit_scan_retry_policies).  Work found before may have *)
(* exceeded it already.                                                     *)
AdmissionFitsBudget ==
    [][StartScan => Occupied(manifest') <= Most(MaxLifecycle, Occupied(db))]_vars

(* The proofs an admission leaves behind fit the failure that follows: what *)
(* failed_retry_attempt calls malformed, and would leave failed for ever    *)
(* without review, the program itself never writes, whatever it was         *)
(* interrupted at.                                                          *)
LineageIsReadable ==
    \A a \in Assets :
        LET r == db[a] IN
        r.state = "failed" /\ r.kind \in Retryable /\ r.original /\ r.marker = NoMarker
            => Readable(r)

(* README.md:401-411: an asset whose source had no preview gets past its    *)
(* failure only with an adjusted source, never with the source that failed. *)
MarkedNeedsAdjusted ==
    \A a \in Assets :
        db[a].marker # NoMarker /\ db[a].state \notin {"failed", "review"}
            => db[a].adjusted

(* The durable attempts are those of BoundedRetries: README.md:413-417,     *)
(* restarting does not reset the retry budget.                              *)
Tries(r) ==
    IF r.marker.attempt > 0 /\ r.fails = r.marker.at /\ ~r.adjusted
    THEN r.marker.attempt - 1 ELSE r.marker.attempt

Phase(r) ==
    CASE r.state \in Running \union {"new"} -> "working"
      [] r.state = "failed" -> "failed"
      [] r.state \in {"closed", "review"} -> "over"

Promise(r) ==
    [state |-> Phase(r),
     matched |-> r.original,
     replaced |-> r.adjusted,
     paid |-> r.retry.cumulative,
     tries |-> Tries(r)]

Bounded == INSTANCE BoundedRetries WITH
    asset <- [a \in Assets |-> Promise(db[a])],
    MaxPaid <- MaxCumulative, MaxTries <- MaxAdjusted

ImplementsBoundedRetries == Bounded!Spec

(* The failures for which neither a retry nor a review is foreseen: no kind  *)
(* (an operator may still give it one),                                      *)
(* an original that was never matched, a replaced source that failed as      *)
(* well, a converted file that is gone (README.md:396-399).                  *)
Undecided(a) ==
    LET r == db[a] IN
    \/ r.kind \in {"other", "untyped"}
    \/ ~r.original /\ r.kind \notin {"resolve", "content"}
    \/ r.adjusted
    \/ r.kind = "visual" /\ a \in lost

(* Every other failure is taken up again or reviewed, in rolling mode. *)
FailuresAreDecided ==
    \A a \in Assets : db[a].state = "failed" ~> (db[a].state # "failed" \/ Undecided(a))

(* README.md:350: the monitor polls the download folder.  Retries and        *)
(* replacements do not keep it from doing so for ever.                       *)
DiscoveryGoesOn == []<>(pc = "discovered")
=============================================================================
