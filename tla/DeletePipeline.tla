--------------------------- MODULE DeletePipeline ---------------------------
(***************************************************************************)
(* The delete stage of a monitor scan (src/monitor.rs,                     *)
(* delete_original_assets_with_client) against the CloudKit service, the   *)
(* RAW files on the NAS and the clock.                                     *)
(*                                                                         *)
(* A scan selects the active assets and works through them in windows.  In *)
(* a window, the assets whose approval is already stored are looked up     *)
(* first, because an earlier scan may have deleted them and died before it *)
(* recorded that; the others are approved, prevalidated against the live   *)
(* RAW and submitted, one atomic request per library zone.  A request may  *)
(* be applied or not, answered or not, or arrive after the program gave it *)
(* up.  Any error of the store ends the scan, and the process may die      *)
(* between any two steps: the next scan starts from the database.          *)
(*                                                                         *)
(* Selection is that of a scan without --rolling-lifecycle.  The stored    *)
(* proofs of an asset do not change here; the database is the table that   *)
(* StateStore models, whose batches are all or nothing.                    *)
(***************************************************************************)
EXTENDS Integers, FiniteSets

CONSTANTS Assets,      \* asset ids
          Zones,       \* library destinations
          ZoneOf,      \* the destination of each asset's original
          MaxPerScan,  \* config.max_lifecycle_per_scan
          WindowSize,  \* config.jobs, clamped to CloudKit's 200 operations
          MaxAge,      \* DELETE_LIVE_RAW_MAX_AGE, in clock ticks
          MaxFaults,   \* bound: failures of the network, the store, the process
          MaxEdits     \* bound: edits and deletions by other clients

ASSUME ConstantsAssumption ==
    /\ IsFiniteSet(Assets)
    /\ ZoneOf \in [Assets -> Zones]
    /\ MaxPerScan \in Nat \ {0}
    /\ WindowSize \in Nat \ {0}
    /\ MaxAge \in Nat
    /\ MaxFaults \in Nat
    /\ MaxEdits \in Nat

VARIABLES
    db,         \* the committed state of each asset
    remote,     \* its original: present, edited since it was proved, deleted
    late,       \* requests the service may still apply although given up
    rawAge,     \* time since the RAW file stopped matching its proof
    pc,         \* where the scan is
    manifest,   \* the Manifest of the scan
    queue,      \* assets of later windows
    todo,       \* assets of this window that the current phase still has to do
    remaining,  \* assets of this window that go on to preparation
    prepared,   \* assets with a PrevalidatedDelete not submitted yet
    group,      \* the assets of the request being submitted
    confirmed,  \* assets whose deletion CloudKit confirmed, not recorded yet
    tokenAge,   \* age of each asset's PrevalidatedDelete
    faults,     \* failures so far
    edits       \* steps of other clients so far

world == <<remote, late, rawAge, edits>>
scan == <<pc, manifest, queue, todo, remaining, prepared, group, confirmed, tokenAge>>
vars == <<db, world, scan, faults>>

-----------------------------------------------------------------------------
States == {"UploadVerified", "DeleteEligible", "DeleteApproved", "Deleted"}
Steps == {"idle", "window", "lookup", "prepare", "submit", "send",
          "ambiguous", "confirmed"}
Intact == -1
Ages == 0 .. MaxAge + 1

TypeOK ==
    /\ db \in [Assets -> States]
    /\ remote \in [Assets -> {"present", "edited", "deleted"}]
    /\ late \in SUBSET SUBSET Assets
    /\ rawAge \in [Assets -> {Intact} \union Ages]
    /\ pc \in Steps
    /\ manifest \in [Assets -> States]
    /\ queue \in SUBSET Assets
    /\ todo \in SUBSET Assets
    /\ remaining \in SUBSET Assets
    /\ prepared \in SUBSET Assets
    /\ group \in SUBSET Assets
    /\ confirmed \in SUBSET Assets
    /\ tokenAge \in [Assets -> Ages]
    /\ faults \in 0 .. MaxFaults
    /\ edits \in 0 .. MaxEdits

Least(m, n) == IF m < n THEN m ELSE n
In(f, s) == {a \in Assets : f[a] = s}
Set(f, S, s) == [a \in Assets |-> IF a \in S THEN s ELSE f[a]]
OfZone(S, z) == {a \in S : ZoneOf[a] = z}

Fault == faults < MaxFaults /\ faults' = faults + 1

-----------------------------------------------------------------------------
(* Selection of the assets of a scan and of a window.                      *)

(* lifecycle_continuation_priority of the states the delete stage handles. *)
Priority(s) == CASE s = "DeleteApproved" -> 0
                 [] s = "DeleteEligible" -> 1
                 [] s = "UploadVerified" -> 2

(* Mutant: the active set ignores how far an asset is. *)
Selections_AnyState(table) ==
    LET C == {a \in Assets : table[a] # "Deleted"}
    IN {S \in SUBSET C : Cardinality(S) = Least(MaxPerScan, Cardinality(C))}

(* The active sets of a table: the first MaxPerScan assets by priority.    *)
(* Ties are broken by RAW size and asset id, here in any way.              *)
Selections(table) ==
    LET C == {a \in Assets : table[a] # "Deleted"}
    IN {S \in SUBSET C : /\ Cardinality(S) = Least(MaxPerScan, Cardinality(C))
                         /\ \A a \in S, b \in C \ S :
                               Priority(table[a]) <= Priority(table[b])}

(* delete_lifecycle_asset_ids lists upload-verified assets before the       *)
(* others, and the windows are consecutive chunks of that list.             *)
Windows ==
    {W \in SUBSET queue : /\ Cardinality(W) = Least(WindowSize, Cardinality(queue))
                          /\ \A a \in queue \ W, b \in W :
                                manifest[a] = "UploadVerified"
                                   => manifest[b] = "UploadVerified"}

-----------------------------------------------------------------------------
(* The CloudKit service.                                                   *)

(* Mutant: the operation is sent without the change tag of the proof. *)
Applicable_NoChangeTag(S) == \A a \in S : remote[a] # "deleted"

(* records/modify is atomic in a zone and each operation names the change  *)
(* tag of the proof: one record that is edited or gone rejects them all.   *)
Applicable(S) == \A a \in S : remote[a] = "present"

(* records/lookup of a group fails as a whole when a record is not deleted *)
(* and carries another change tag than its proof.                          *)
LookupAnswers(S) == \A a \in S : remote[a] # "edited"

(* A request that was given up reaches the service after all. *)
LateRequest(S) ==
    /\ late' = late \ {S}
    /\ remote' = IF Applicable(S) THEN Set(remote, S, "deleted") ELSE remote
    /\ UNCHANGED <<db, rawAge, edits, scan, faults>>

(* Another client edits an original, or deletes it. *)
OtherClient(a) ==
    /\ edits < MaxEdits
    /\ edits' = edits + 1
    /\ remote[a] # "deleted"
    /\ \E r \in {"edited", "deleted"} : remote' = [remote EXCEPT ![a] = r]
    /\ UNCHANGED <<db, late, rawAge, scan, faults>>

(* The RAW on the NAS is modified, replaced or removed. *)
RawChanges(a) ==
    /\ rawAge[a] = Intact
    /\ rawAge' = [rawAge EXCEPT ![a] = 0]
    /\ UNCHANGED <<db, remote, late, edits, scan, faults>>

Aged(n) == Least(n + 1, MaxAge + 1)

(* Ages are what matters of the clock, and only up to MaxAge + 1.  *)
Tick ==
    /\ tokenAge' = [a \in Assets |->
                       IF a \in prepared \union group THEN Aged(tokenAge[a]) ELSE 0]
    /\ rawAge' = [a \in Assets |->
                     IF rawAge[a] = Intact THEN Intact ELSE Aged(rawAge[a])]
    /\ UNCHANGED <<db, remote, late, edits, faults, pc, manifest, queue, todo,
                   remaining, prepared, group, confirmed>>

-----------------------------------------------------------------------------
Forgotten ==
    /\ queue' = {} /\ todo' = {} /\ remaining' = {} /\ prepared' = {}
    /\ group' = {} /\ confirmed' = {}
    /\ tokenAge' = [a \in Assets |-> 0]

(* The scan ends: it finished, a store call failed, or the process died.   *)
EndScan ==
    /\ pc' = "idle"
    /\ manifest' = db
    /\ Forgotten
    /\ UNCHANGED <<db, world>>

Crash == pc # "idle" /\ Fault /\ EndScan

(* persist_records_atomic_trusted for the assets S, which then take state s *)
(* in the manifest too.  An error leaves both alone and ends the scan.      *)
Persist(S, s) ==
    /\ db' = Set(db, S, s)
    /\ manifest' = Set(manifest, S, s)
    /\ UNCHANGED world

PersistFails(S) == S # {} /\ Fault /\ EndScan

(* The stage handles the assets of the active set that are ready for it:   *)
(* the approved ones, and those of the others that have come as far as a   *)
(* current mirror proof.  A scan runs the stage twice over one active set; *)
(* both times what is left of it is part of a selection.                   *)
StartScan ==
    /\ pc = "idle"
    /\ manifest' = db
    /\ \E S \in Selections(db) :
          queue' \in {Q \in SUBSET S : S \intersect In(db, "DeleteApproved") \subseteq Q}
    /\ pc' = IF queue' = {} THEN "idle" ELSE "window"
    /\ UNCHANGED <<db, world, todo, remaining, prepared, group, confirmed,
                   tokenAge, faults>>

(* Mutant: stored approvals are prepared again without a lookup. *)
NextWindow_NoReconciliation ==
    /\ pc = "window"
    /\ queue # {}
    /\ \E W \in Windows :
          /\ queue' = queue \ W
          /\ todo' = {}
          /\ remaining' = W
    /\ pc' = "lookup"
    /\ UNCHANGED <<db, world, manifest, prepared, group, confirmed, tokenAge, faults>>

(* A window starts with the reconciliation of what is already approved. *)
NextWindow ==
    /\ pc = "window"
    /\ queue # {}
    /\ \E W \in Windows :
          /\ queue' = queue \ W
          /\ todo' = {a \in W : manifest[a] = "DeleteApproved"}
          /\ remaining' = W \ todo'
    /\ pc' = "lookup"
    /\ UNCHANGED <<db, world, manifest, prepared, group, confirmed, tokenAge, faults>>

(* reconcile_delete_window, one destination: what is gone is confirmed, and *)
(* the rest, or everything when the lookup fails, goes on to preparation.   *)
LookupApproved(z) ==
    LET S == OfZone(todo, z) IN
    /\ pc = "lookup"
    /\ S # {}
    /\ todo' = todo \ S
    /\ \/ /\ LookupAnswers(S)
          /\ confirmed' = confirmed \union (S \intersect In(remote, "deleted"))
          /\ remaining' = remaining \union (S \ In(remote, "deleted"))
          /\ UNCHANGED faults
       \/ /\ IF LookupAnswers(S) THEN Fault ELSE UNCHANGED faults
          /\ remaining' = remaining \union S
          /\ UNCHANGED confirmed
    /\ UNCHANGED <<db, world, pc, manifest, queue, prepared, group, tokenAge>>

CommitReconciled ==
    /\ pc = "lookup"
    /\ todo = {}
    /\ \/ /\ Persist(confirmed, "Deleted")
          /\ pc' = "prepare"
          /\ todo' = remaining
          /\ remaining' = {} /\ confirmed' = {}
          /\ UNCHANGED <<queue, prepared, group, tokenAge, faults>>
       \/ PersistFails(confirmed)

(* A worker makes the asset eligible, approves it and proves the live RAW  *)
(* again; after any error the snapshot it worked on is dropped.            *)
PrepareItem(a) ==
    LET provable == manifest[a] # "Deleted" /\ rawAge[a] = Intact IN
    /\ pc = "prepare"
    /\ a \in todo
    /\ todo' = todo \ {a}
    /\ \/ /\ provable
          /\ prepared' = prepared \union {a}
          /\ tokenAge' = [tokenAge EXCEPT ![a] = 0]
          /\ UNCHANGED faults
       \/ /\ IF provable THEN Fault ELSE UNCHANGED faults
          /\ UNCHANGED <<prepared, tokenAge>>
    /\ UNCHANGED <<db, world, pc, manifest, queue, remaining, group, confirmed>>

(* Mutant: approvals are submitted before they are stored. *)
PersistApprovals_MemoryOnly ==
    /\ pc = "prepare"
    /\ todo = {}
    /\ manifest' = Set(manifest, prepared, "DeleteApproved")
    /\ pc' = "submit"
    /\ UNCHANGED <<db, world, queue, todo, remaining, prepared, group, confirmed,
                   tokenAge, faults>>

(* process_delete_preparation_window stores the new approvals of a window  *)
(* before anything of it is submitted.                                     *)
PersistApprovals ==
    LET changed == {a \in prepared : manifest[a] # "DeleteApproved"} IN
    /\ pc = "prepare"
    /\ todo = {}
    /\ \/ /\ Persist(changed, "DeleteApproved")
          /\ pc' = "submit"
          /\ UNCHANGED <<queue, todo, remaining, prepared, group, confirmed,
                         tokenAge, faults>>
       \/ PersistFails(changed)

-----------------------------------------------------------------------------
(* submit_prepared_delete_group, one destination at a time.                *)

(* Mutant: the age of a token is not checked. *)
Fresh_Unchecked(S) == TRUE

Fresh(S) == \A a \in S : tokenAge[a] <= MaxAge

(* validate_live_raw for every item: one stale item drops the whole group. *)
(* A token is made while the RAW is intact, so its fingerprint still       *)
(* matches if and only if the RAW is intact.                               *)
LiveCheck(z) ==
    LET S == OfZone(prepared, z) IN
    /\ pc = "submit"
    /\ S # {}
    /\ prepared' = prepared \ S
    /\ IF Fresh(S) /\ \A a \in S : rawAge[a] = Intact
         THEN pc' = "send" /\ group' = S
         ELSE UNCHANGED <<pc, group>>
    /\ UNCHANGED <<db, world, manifest, queue, todo, remaining, confirmed,
                   tokenAge, faults>>

(* The preflight at the moment of the request, after which time may pass   *)
(* and the process may be suspended.                                       *)
PreflightFails ==
    /\ pc = "send"
    /\ ~Fresh(group)
    /\ pc' = "submit"
    /\ group' = {}
    /\ UNCHANGED <<db, world, manifest, queue, todo, remaining, prepared,
                   confirmed, tokenAge, faults>>

SendAnswered ==
    /\ pc = "send"
    /\ Fresh(group)
    /\ Applicable(group)
    /\ remote' = Set(remote, group, "deleted")
    /\ confirmed' = group
    /\ pc' = "confirmed"
    /\ UNCHANGED <<db, late, rawAge, edits, manifest, queue, todo, remaining,
                   prepared, group, tokenAge, faults>>

(* The service rejects the request, or no usable answer comes back: it was *)
(* applied, it never arrived, or it is still on its way.                   *)
SendAmbiguous ==
    /\ pc = "send"
    /\ Fresh(group)
    /\ \/ /\ ~Applicable(group)
          /\ UNCHANGED <<remote, late, faults>>
       \/ /\ Fault
          /\ \/ Applicable(group) /\ remote' = Set(remote, group, "deleted")
                                  /\ UNCHANGED late
             \/ late' \in {late, late \union {group}} /\ UNCHANGED remote
    /\ pc' = "ambiguous"
    /\ UNCHANGED <<db, rawAge, edits, manifest, queue, todo, remaining, prepared,
                   group, confirmed, tokenAge>>

(* After an ambiguous answer only what a lookup shows deleted is confirmed. *)
LookupAfterSend ==
    /\ pc = "ambiguous"
    /\ \/ /\ LookupAnswers(group)
          /\ confirmed' = group \intersect In(remote, "deleted")
          /\ UNCHANGED faults
       \/ /\ IF LookupAnswers(group) THEN Fault ELSE UNCHANGED faults
          /\ confirmed' = {}
    /\ pc' = "confirmed"
    /\ UNCHANGED <<db, world, manifest, queue, todo, remaining, prepared, group,
                   tokenAge>>

(* Mutant: the manifest is updated although the commit failed. *)
CommitConfirmed_KeepsGoing ==
    /\ pc = "confirmed"
    /\ \/ Persist(confirmed, "Deleted") /\ UNCHANGED faults
       \/ Fault /\ manifest' = Set(manifest, confirmed, "Deleted")
                /\ UNCHANGED <<db, world>>
    /\ pc' = "submit"
    /\ group' = {} /\ confirmed' = {}
    /\ UNCHANGED <<queue, todo, remaining, prepared, tokenAge>>

CommitConfirmed ==
    /\ pc = "confirmed"
    /\ \/ /\ Persist(confirmed, "Deleted")
          /\ pc' = "submit"
          /\ group' = {} /\ confirmed' = {}
          /\ UNCHANGED <<queue, todo, remaining, prepared, tokenAge, faults>>
       \/ PersistFails(confirmed)

WindowDone ==
    /\ pc = "submit"
    /\ prepared = {}
    /\ pc' = "window"
    /\ UNCHANGED <<db, world, manifest, queue, todo, remaining, prepared, group,
                   confirmed, tokenAge, faults>>

(* export_json at the end; whether it succeeds does not matter here. *)
Export ==
    /\ pc = "window"
    /\ queue = {}
    /\ EndScan
    /\ UNCHANGED faults

-----------------------------------------------------------------------------
Init ==
    /\ db \in [Assets -> {"UploadVerified", "DeleteEligible"}]
    /\ remote = [a \in Assets |-> "present"]
    /\ late = {}
    /\ rawAge = [a \in Assets |-> Intact]
    /\ pc = "idle"
    /\ manifest = db
    /\ queue = {} /\ todo = {} /\ remaining = {} /\ prepared = {}
    /\ group = {} /\ confirmed = {}
    /\ tokenAge = [a \in Assets |-> 0]
    /\ faults = 0
    /\ edits = 0

Monitor ==
    \/ StartScan \/ NextWindow \/ CommitReconciled \/ PersistApprovals
    \/ PreflightFails \/ SendAnswered \/ SendAmbiguous \/ LookupAfterSend
    \/ CommitConfirmed \/ WindowDone \/ Export
    \/ \E z \in Zones : LookupApproved(z) \/ LiveCheck(z)
    \/ \E a \in Assets : PrepareItem(a)

Environment ==
    \/ Tick \/ Crash
    \/ \E S \in late : LateRequest(S)
    \/ \E a \in Assets : OtherClient(a) \/ RawChanges(a)

Next == Monitor \/ Environment

Spec == Init /\ [][Next]_vars

(* The monitor loop is restarted for ever and every call it makes returns, *)
(* with an answer or an error; failures stop at the bound MaxFaults.       *)
FairSpec == Spec /\ WF_vars(Monitor)

-----------------------------------------------------------------------------
(* The manifest a scan works on says what the database says, whatever      *)
(* failed: it is updated after the commit of each batch and never instead. *)
MemoryMatchesStore == pc # "idle" => manifest = db

(* The assets with a stored approval always fit in one scan, so none of    *)
(* them can be kept from reconciliation by the others: a scan admits new   *)
(* assets only after all approved ones.                                    *)
ApprovedFitInOneScan == Cardinality(In(db, "DeleteApproved")) <= MaxPerScan

(* At the moment a delete request leaves, the RAW of each of its assets    *)
(* was still the proved one at most MaxAge ago: the live check, the two    *)
(* freshness checks and the passing of time between them add up.           *)
RawSeenRecently ==
    [][pc = "send" /\ pc' \in {"confirmed", "ambiguous"}
          => \A a \in group : rawAge[a] <= MaxAge]_vars

(* Originals leave iCloud only under a durable approval and unedited, and   *)
(* are recorded as deleted only when they are gone, in spite of crashes,   *)
(* late requests, ambiguous answers and other clients.                     *)
Abstract == INSTANCE SafeDeletion
ImplementsSafeDeletion == Abstract!Spec

(* An approved original that is gone is recorded as deleted in the end,    *)
(* even if its RAW is gone too, unless another original of its zone was    *)
(* edited in iCloud and makes every lookup of the zone fail.               *)
RemoteDeletionIsRecorded ==
    \A a \in Assets :
       db[a] = "DeleteApproved" /\ remote[a] = "deleted"
          ~> \/ db[a] = "Deleted"
             \/ \E b \in Assets : ZoneOf[b] = ZoneOf[a] /\ remote[b] = "edited"
=============================================================================
