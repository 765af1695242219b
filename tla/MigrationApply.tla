--------------------------- MODULE MigrationApply ---------------------------
(***************************************************************************)
(* The apply command of the legacy upload migration                        *)
(* (src/legacy_upload_migration/apply.rs and evidence.rs).                 *)
(*                                                                         *)
(* A cohort of two records was uploaded with a wrong rendition.  The       *)
(* command deletes both replacements in iCloud, moves the files they came  *)
(* from to a quarantine directory, forgets the old proofs, converts and    *)
(* uploads again, and fills the local mirror.  Each phase loads the        *)
(* records, checks the disk, has its effect, and stores both records with  *)
(* one compare-and-swap; then it exports the JSON checkpoint.  The process *)
(* may stop anywhere; the operator runs it again and it goes on from the   *)
(* phase in the journals.                                                  *)
(*                                                                         *)
(* After a reboot the volumes may have other device numbers than the ones  *)
(* sealed in the evidence: the operator then has a recovery receipt made   *)
(* and passes it to the run.  The manifest lock admits one run at a time.  *)
(***************************************************************************)
EXTENDS MigrationJournal, FiniteSets

CONSTANTS References,  \* reference previews of the cohort (REFERENCE_ASSET_INDICES)
          Layouts,     \* whether the HEIC output directory is the old one: any of these
          MaxFaults,   \* bound: crashes, lost answers, late requests, failed steps
          MaxMounts    \* bound: changes of the device numbers

(* RETIRED_REPLACEMENT_COUNT records, worked on in this order. *)
Assets == {1, 2}

ASSUME MigrationAssumption ==
    /\ IsFiniteSet(References) /\ References \cap (Assets \X {"final", "mirror"}) = {}
    /\ Layouts \subseteq BOOLEAN /\ Layouts # {}
    /\ MaxFaults \in Nat /\ MaxMounts \in Nat

VARIABLES
    records,    \* the records in the database
    checkpoint, \* the records in the exported JSON
    live,       \* assets whose retired replacement is active in iCloud
    uploads,    \* how many new replacements of each asset iCloud holds
    pending,    \* requests given up by the client the service may still apply
    late,       \* how many of those it did apply
    source,     \* what is at the sealed path of each member
    moved,      \* members in the quarantine directory
    temp,       \* the temporary copy of each reference
    output,     \* the new HEIC of each asset
    mirror,     \* the new file of each asset in the local mirror
    cohort,     \* the quarantine directories of the cohort exist
    inPlace,    \* the new HEIC goes where the old one was
    mount,      \* device numbers of the volumes; the evidence was sealed at 0
    receipt,    \* device numbers the recovery receipt was made for, or NoReceipt
    pc,         \* where the run is
    recover,    \* the run was given the recovery receipt
    todo,       \* assets the phase has yet to work on
    faults      \* faults so far

stored == <<records, checkpoint>>
cloud == <<live, uploads, pending, late>>
disk == <<source, moved, temp, output, mirror, cohort, inPlace>>
device == <<mount, receipt>>
vars == <<stored, cloud, disk, device, pc, recover, todo, faults>>

-----------------------------------------------------------------------------
NoReceipt == -1

(* The sealed members: both old HEICs, both old mirror files, references. *)
Final(a) == <<a, "final">>
OldMirror(a) == <<a, "mirror">>
Finals == {Final(a) : a \in Assets}
OldMirrors == {OldMirror(a) : a \in Assets}
Members == Finals \union OldMirrors \union References

(* The order of quarantine_target_specs. *)
Rank(m) == CASE m = Final(1) -> 1 [] m = OldMirror(1) -> 2
             [] m = Final(2) -> 3 [] m = OldMirror(2) -> 4 [] OTHER -> 5

(* created is empty and copied complete; partial is a copy cut off.        *)
TempStates == {"none", "created", "partial", "copied", "normal"}
(* partial: a staged RAW, an intermediate or an unfinished output.         *)
OutputStates == {"none", "partial", "made"}
(* torn: a copy without an atomic install was cut off.                     *)
MirrorStates == {"none", "torn", "full"}

Requests == {"delete", "upload"} \X Assets

(* Both journals are at phase p. *)
Cohort(p) == \A a \in Assets : records[a].phase = p
Since(p) == \A a \in Assets : records[a].phase >= p

Made(a) == output[a] = "made"
(* The new HEIC of a is where its old one was sealed.                      *)
Replaced(m) == \E a \in Assets : m = Final(a) /\ inPlace /\ Made(a)
AtSource(m) == source[m] = "sealed" /\ m \notin moved
AtDestination(m) == source[m] = "none" /\ m \in moved
NormalAt(r) == r \in References /\ source[r] = "normal" /\ r \in moved

(* A final may be gone only while the new HEIC, verified, is at another path. *)
FinalElsewhere(m) ==
    \A a \in Assets : m = Final(a) /\ Since(Converted) => Made(a) /\ ~inPlace

-----------------------------------------------------------------------------
(* Init: the evidence was sealed while all files were in place; either     *)
(* replacement may have been deleted by then, and an older program may     *)
(* have left the directories of the cohort behind.                         *)
Init ==
    /\ records = [a \in Assets |-> LegacyRecord] /\ checkpoint = records
    /\ live \in SUBSET Assets /\ uploads = [a \in Assets |-> 0]
    /\ pending = {} /\ late = 0
    /\ source = [m \in Members |-> "sealed"] /\ moved = {}
    /\ temp = [r \in References |-> "none"]
    /\ output = [a \in Assets |-> "none"] /\ mirror = [a \in Assets |-> "none"]
    /\ cohort \in BOOLEAN /\ inPlace \in Layouts
    /\ mount = 0 /\ receipt = NoReceipt
    /\ pc = "idle" /\ recover = FALSE /\ todo = {} /\ faults = 0

(* The layout a recovery receipt is made for and used with.                *)
RecoverableLayout ==
    /\ cohort
    /\ \A m \in Members :
           \/ AtSource(m) /\ ~Since(Quarantined)
           \/ AtDestination(m) /\ (m \in Finals => Since(Reset) /\ FinalElsewhere(m))
           \/ NormalAt(m)
           \/ m \in moved /\ Since(Converted) /\ Replaced(m)

EvidenceLoads_NeedsCheckpoint(rec) ==
    /\ checkpoint = records
    /\ IF rec
       THEN Since(DeleteConfirmed) /\ receipt = mount /\ RecoverableLayout
       ELSE ~Since(Quarantined) => mount = 0 /\ \A r \in References : AtSource(r)

(* The references are opened at their sealed paths until they are moved.   *)
EvidenceLoads(rec) ==
    IF rec
    THEN Since(DeleteConfirmed) /\ receipt = mount /\ RecoverableLayout
    ELSE ~Since(Quarantined) => mount = 0 /\ \A r \in References : AtSource(r)

MembersPlaced ==
    /\ recover \/ mount = 0
    /\ Cohort(NoPhase) => ~cohort
    /\ Since(DeleteConfirmed) => cohort
    /\ Since(Quarantined) => moved = Members
    /\ \A m \in Members :
           \/ AtSource(m) /\ ~Since(Quarantined)
           \/ AtDestination(m) /\ (m \in Finals => FinalElsewhere(m))
           \/ NormalAt(m) /\ Since(DeleteConfirmed)
           \/ m \in moved /\ Since(Converted) /\ Replaced(m)

(* Until the quarantine is done the cohort directories must be empty,      *)
(* except when a recovery receipt vouches for what is in them.             *)
PreflightPasses ==
    /\ MembersPlaced
    /\ ~Since(Quarantined) /\ ~(Since(DeleteConfirmed) /\ recover) => moved = {}
    /\ ~Since(DeleteConfirmed) => \A r \in References : temp[r] = "none"

(* What the work of a phase refuses to start on.                           *)

(* A copy of a reference that was cut off is no stage of a normalisation.  *)
CopiesWhole == \A r \in References : temp[r] # "partial"
(* A conversion does not write over files of an earlier one.               *)
OutputsFree == \A a \in Assets : output[a] = "none"
(* The receipts of the later phases are made from the new HEICs.           *)
OutputsStand == \A a \in Assets : Made(a)
(* The search of the library for a new HEIC finds none or one.             *)
Unambiguous == \A a \in Assets : uploads[a] <= 1
(* A mirror file with other contents stays.                                *)
MirrorsFree == \A a \in Assets : mirror[a] # "torn"
(* The last receipt needs the HEIC and its copy.                           *)
MirrorsStand == \A a \in Assets : mirror[a] = "full"

WorkAccepts ==
    /\ Cohort(DeleteConfirmed) => CopiesWhole
    /\ Cohort(Reset) => OutputsFree
    /\ Since(Converted) /\ ~Since(Complete) => OutputsStand
    /\ Cohort(UploadPrepared) => Unambiguous
    /\ Cohort(UploadVerified) => MirrorsFree
    /\ Cohort(Mirrored) => MirrorsStand

Working == {DeleteConfirmed, Prepared, Reset, UploadPrepared, UploadVerified}

Pending_UploadsAgain ==
    IF Cohort(Prepared) THEN live
    ELSE IF Cohort(UploadVerified) THEN {a \in Assets : mirror[a] = "none"}
    ELSE IF Cohort(Reset) \/ Cohort(UploadPrepared) THEN Assets
    ELSE {}

(* The assets a phase works on; resolved for all before the first request. *)
Pending ==
    IF Cohort(Prepared) THEN live
    ELSE IF Cohort(UploadPrepared) THEN {a \in Assets : uploads[a] = 0}
    ELSE IF Cohort(UploadVerified) THEN {a \in Assets : mirror[a] = "none"}
    ELSE IF Cohort(Reset) THEN Assets
    ELSE {}

First(a) == a \in todo /\ \A b \in todo : a <= b
At(step) == pc = step /\ UNCHANGED recover
Exit == pc' = "idle" /\ todo' = {}
Fault == faults < MaxFaults /\ faults' = faults + 1

-----------------------------------------------------------------------------
(* Runs.                                                                   *)

Start_CompleteIsDone(rec) ==
    /\ pc \in {"idle", "done"} /\ EvidenceLoads(rec)
    /\ recover' = rec /\ todo' = {}
    /\ pc' = IF Cohort(Complete) THEN "done" ELSE "preflight"
    /\ UNCHANGED <<stored, cloud, disk, device, faults>>

(* A completed cohort only has its checkpoint exported again.              *)
Start(rec) ==
    /\ pc \in {"idle", "done"} /\ EvidenceLoads(rec)
    /\ recover' = rec /\ todo' = {}
    /\ pc' = IF Cohort(Complete) THEN "export" ELSE "preflight"
    /\ UNCHANGED <<stored, cloud, disk, device, faults>>

(* At Prepared the preflight also makes the quarantine directories.        *)
Preflight ==
    /\ At("preflight")
    /\ IF PreflightPasses
       THEN /\ cohort' = (cohort \/ Cohort(Prepared))
            /\ IF WorkAccepts
               THEN /\ todo' = Pending
                    /\ pc' = IF \E p \in Working : Cohort(p) THEN "work" ELSE "persist"
               ELSE Exit
       ELSE Exit /\ UNCHANGED cohort
    /\ UNCHANGED <<stored, cloud, source, moved, temp, output, mirror, inPlace, device, faults>>

(* Why they cannot be made: QuarantineRoots.                               *)
DirectoriesRefused ==
    /\ At("preflight") /\ Cohort(Prepared) /\ Exit
    /\ UNCHANGED <<stored, cloud, disk, device, faults>>

(* A fault among the directories that the run survives.                    *)
Slip ==
    /\ Fault
    /\ UNCHANGED <<stored, cloud, disk, device, pc, recover, todo>>

(* The process dies, or a step fails for a reason that leaves no trace.    *)
Crash ==
    /\ pc \notin {"idle", "done"} /\ Fault /\ Exit
    /\ UNCHANGED <<stored, cloud, disk, device, recover>>

(* The work of the phase is done.                                          *)
WorkDone ==
    /\ At("work") /\ todo = {}
    /\ Cohort(DeleteConfirmed) =>
           \A m \in Members : (AtDestination(m) /\ m \notin References) \/ NormalAt(m)
    /\ pc' = "persist"
    /\ UNCHANGED <<stored, cloud, disk, device, todo, faults>>

Persist_OneRecord ==
    /\ At("persist")
    /\ \A a \in Assets : ValidUpdate(records[a], Candidate(records[a]))
    /\ \E b \in Assets : records' = [records EXCEPT ![b] = Candidate(@)]
    /\ pc' = "export"
    /\ UNCHANGED <<checkpoint, cloud, disk, device, todo, faults>>

(* Both journals get their next entry in one transaction.                  *)
Persist ==
    /\ At("persist")
    /\ \A a \in Assets : ValidUpdate(records[a], Candidate(records[a]))
    /\ records' = [a \in Assets |-> Candidate(records[a])]
    /\ pc' = "export"
    /\ UNCHANGED <<checkpoint, cloud, disk, device, todo, faults>>

(* A stale checkpoint is exported; then the next phase, or success.        *)
Export ==
    /\ At("export")
    /\ checkpoint' = records
    /\ pc' = IF Cohort(Complete) THEN "done" ELSE "preflight"
    /\ UNCHANGED <<records, cloud, disk, device, todo, faults>>

-----------------------------------------------------------------------------
(* Prepared: the retired replacements are deleted.                         *)

(* The request is answered, or the lookup after an error finds it applied; *)
(* after an error nothing more is deleted in this run.                     *)
DeleteReplacement(a) ==
    /\ At("work") /\ Cohort(Prepared) /\ First(a)
    /\ live' = live \ {a}
    /\ \/ todo' = todo \ {a} /\ UNCHANGED <<pc, faults>>
       \/ /\ Fault
          /\ IF todo = {a} THEN todo' = {} /\ UNCHANGED pc ELSE Exit
    /\ UNCHANGED <<stored, uploads, pending, late, disk, device>>

(* The lookup still finds it active; the service may apply it later.       *)
DeleteUnanswered(a) ==
    /\ At("work") /\ Cohort(Prepared) /\ First(a) /\ a \in live
    /\ Fault /\ Exit
    /\ pending' \in {pending, pending \union {<<"delete", a>>}}
    /\ UNCHANGED <<stored, live, uploads, late, disk, device>>

-----------------------------------------------------------------------------
(* DeleteConfirmed: the files go to the quarantine.                        *)

(* The outcome of a rename is read off the two paths, not off the answer:  *)
(* renamed, or renamed while the run could not see it and stopped.         *)
Quarantine(m) ==
    /\ At("work") /\ Cohort(DeleteConfirmed) /\ AtSource(m)
    /\ \A n \in Members : AtSource(n) => Rank(m) <= Rank(n)
    /\ moved' = moved \union {m} /\ source' = [source EXCEPT ![m] = "none"]
    /\ \/ UNCHANGED <<pc, todo, faults>>
       \/ Fault /\ Exit
    /\ UNCHANGED <<stored, cloud, temp, output, mirror, cohort, inPlace, device>>

AllMoved == \A m \in Members : ~AtSource(m)

NextTemp == [none |-> "created", created |-> "partial", partial |-> "copied",
             copied |-> "normal"]

(* A normalised copy takes the place of the reference in steps that a      *)
(* later run recognises, except for a copy cut off.                        *)
Normalize(r) ==
    /\ At("work") /\ Cohort(DeleteConfirmed) /\ AllMoved /\ AtDestination(r)
    /\ temp[r] \in DOMAIN NextTemp
    /\ temp' = [temp EXCEPT ![r] = NextTemp[@]]
    /\ UNCHANGED <<stored, cloud, source, moved, output, mirror, cohort, inPlace,
                   device, pc, todo, faults>>

InstallReference(r) ==
    /\ At("work") /\ Cohort(DeleteConfirmed) /\ AllMoved /\ AtDestination(r)
    /\ temp[r] = "normal"
    /\ source' = [source EXCEPT ![r] = "normal"]
    /\ temp' = [temp EXCEPT ![r] = "none"]
    /\ UNCHANGED <<stored, cloud, moved, output, mirror, cohort, inPlace, device,
                   pc, todo, faults>>

-----------------------------------------------------------------------------
(* Reset: both RAWs are converted, side by side, and verified.             *)

Convert_CountsStarted(a) ==
    /\ At("work") /\ Cohort(Reset) /\ a \in todo
    /\ output' = [output EXCEPT ![a] = "partial"]
    /\ todo' = todo \ {a}
    /\ UNCHANGED <<stored, cloud, source, moved, temp, mirror, cohort, inPlace,
                   device, pc, faults>>

Convert(a) ==
    /\ At("work") /\ Cohort(Reset) /\ a \in todo
    /\ \/ output[a] = "none" /\ output' = [output EXCEPT ![a] = "partial"] /\ UNCHANGED todo
       \/ /\ output[a] = "partial" /\ output' = [output EXCEPT ![a] = "made"]
          /\ todo' = todo \ {a}
    /\ UNCHANGED <<stored, cloud, source, moved, temp, mirror, cohort, inPlace,
                   device, pc, faults>>

(* A failed conversion takes the files of the batch away again; a failed   *)
(* verification of the result leaves them.                                 *)
ConvertFails ==
    /\ At("work") /\ Cohort(Reset) /\ todo # {} /\ Fault /\ Exit
    /\ output' = [a \in Assets |-> "none"]
    /\ UNCHANGED <<stored, cloud, source, moved, temp, mirror, cohort, inPlace, device>>

-----------------------------------------------------------------------------
(* UploadPrepared: an asset without a replacement in iCloud gets one, and  *)
(* the library is searched again: it must be the only one.                 *)

OnlyReplacement(a) == uploads[a] = 1

Upload(a) ==
    /\ At("work") /\ Cohort(UploadPrepared) /\ First(a)
    /\ uploads' = [uploads EXCEPT ![a] = @ + 1]
    /\ \/ OnlyReplacement(a)' /\ todo' = todo \ {a} /\ UNCHANGED <<pc, faults>>
       \/ ~OnlyReplacement(a)' /\ Exit /\ UNCHANGED faults
       \/ Fault /\ Exit
    /\ UNCHANGED <<stored, live, pending, late, disk, device>>

UploadUnanswered(a) ==
    /\ At("work") /\ Cohort(UploadPrepared) /\ First(a)
    /\ Fault /\ Exit
    /\ pending' \in {pending, pending \union {<<"upload", a>>}}
    /\ UNCHANGED <<stored, live, uploads, late, disk, device>>

-----------------------------------------------------------------------------
(* UploadVerified: the local mirror.  Without an atomic install the file   *)
(* is created under its name and copied to.                                *)

FillMirror(a) ==
    /\ At("work") /\ Cohort(UploadVerified) /\ First(a)
    /\ \/ /\ mirror' = [mirror EXCEPT ![a] = "full"] /\ todo' = todo \ {a}
       \/ /\ mirror[a] = "none" /\ mirror' = [mirror EXCEPT ![a] = "torn"]
          /\ UNCHANGED todo
    /\ UNCHANGED <<stored, cloud, source, moved, temp, output, cohort, inPlace,
                   device, pc, faults>>

(* An error during the copy removes the file.                              *)
MirrorFails(a) ==
    /\ At("work") /\ Cohort(UploadVerified) /\ First(a) /\ Fault /\ Exit
    /\ mirror' = [mirror EXCEPT ![a] = "none"]
    /\ UNCHANGED <<stored, cloud, source, moved, temp, output, cohort, inPlace, device>>

-----------------------------------------------------------------------------
(* Around the run.                                                         *)

(* A request given up by the client reaches the service.                   *)
LateRequest(q) ==
    /\ q \in pending /\ pending' = pending \ {q}
    /\ LET a == q[2] IN
       \/ q[1] = "delete" /\ live' = live \ {a} /\ UNCHANGED <<uploads, late>>
       \/ /\ q[1] = "upload" /\ uploads' = [uploads EXCEPT ![a] = @ + 1]
          /\ late' = late + 1 /\ UNCHANGED live
    /\ UNCHANGED <<stored, disk, device, pc, recover, todo, faults>>

(* The computer restarts and the volumes get other device numbers.         *)
Reboot ==
    /\ pc \in {"idle", "done"} /\ mount < MaxMounts
    /\ mount' = mount + 1
    /\ UNCHANGED <<stored, cloud, disk, receipt, pc, recover, todo, faults>>

(* Residual directories are removed before a migration begins.             *)
RemoveResiduals ==
    /\ pc = "idle" /\ Cohort(NoPhase) /\ cohort
    /\ cohort' = FALSE
    /\ UNCHANGED <<stored, cloud, source, moved, temp, output, mirror, inPlace, device,
                   pc, recover, todo, faults>>

(* A receipt is made at DeleteConfirmed only; partial is the operator's    *)
(* word that files may have been moved.                                    *)
MakeReceipt(partial) ==
    /\ pc \in {"idle", "done"} /\ Cohort(DeleteConfirmed) /\ mount # 0 /\ receipt # mount
    /\ checkpoint = records
    /\ RecoverableLayout /\ (~partial => \A m \in Members : AtSource(m))
    /\ receipt' = mount
    /\ UNCHANGED <<stored, cloud, disk, mount, pc, recover, todo, faults>>

(* A new signer needs a new receipt for the same devices; the stale        *)
(* checkpoint is exported on the way.                                      *)
RotateReceipt ==
    /\ pc \in {"idle", "done"} /\ Since(DeleteConfirmed) /\ receipt = mount
    /\ RecoverableLayout /\ checkpoint # records
    /\ checkpoint' = records
    /\ UNCHANGED <<records, cloud, disk, device, pc, recover, todo, faults>>

-----------------------------------------------------------------------------
AssetStep(a) ==
    \/ DeleteReplacement(a) \/ DeleteUnanswered(a)
    \/ Convert(a) \/ Upload(a) \/ UploadUnanswered(a)
    \/ FillMirror(a) \/ MirrorFails(a)

RunStep ==
    \/ Preflight \/ WorkDone \/ Persist \/ Export \/ ConvertFails
    \/ \E a \in Assets : AssetStep(a)
    \/ \E m \in Members : Quarantine(m)
    \/ \E r \in References : Normalize(r) \/ InstallReference(r)

Operator ==
    \/ \E rec \in BOOLEAN : Start(rec)
    \/ \E partial \in BOOLEAN : MakeReceipt(partial)
    \/ RotateReceipt \/ RemoveResiduals

Next ==
    \/ RunStep \/ DirectoriesRefused \/ Slip \/ Operator \/ Crash \/ Reboot
    \/ \E q \in Requests : LateRequest(q)

Spec == Init /\ [][Next]_vars

-----------------------------------------------------------------------------
(* Properties.                                                             *)

(* The variables have the types the code gives them.                       *)
TypeOK ==
    /\ records \in [Assets -> Records] /\ checkpoint \in [Assets -> Records]
    /\ live \subseteq Assets /\ uploads \in [Assets -> Nat]
    /\ pending \subseteq Requests /\ late \in Nat
    /\ source \in [Members -> {"sealed", "none", "normal"}] /\ moved \subseteq Members
    /\ temp \in [References -> TempStates]
    /\ output \in [Assets -> OutputStates] /\ mirror \in [Assets -> MirrorStates]
    /\ cohort \in BOOLEAN /\ inPlace \in BOOLEAN
    /\ mount \in Nat /\ receipt \in Nat \union {NoReceipt}
    /\ pc \in {"idle", "preflight", "work", "persist", "export", "done"}
    /\ recover \in BOOLEAN /\ todo \subseteq Assets /\ faults \in Nat

(* Whatever a proof in a record names exists: the old HEIC and the old     *)
(* mirror file at their place or in the quarantine until the lineage is    *)
(* reset, which happens only once both replacements are gone and all files *)
(* are out of the way; the new HEIC, upload and mirror file ever after.    *)
(* Nothing new is put over a sealed file.                                  *)
ProofsAreBacked ==
    /\ \A m \in Members : source[m] = "sealed" <=> m \notin moved
    /\ \A a \in Assets :
           /\ output[a] # "none" => records[a].phase >= Reset
           /\ records[a].conversion # "old" =>
                  live = {} /\ moved = Members /\ \A r \in References : NormalAt(r)
           /\ records[a].conversion = "new" => Made(a)
           /\ records[a].upload = "new" => uploads[a] > 0
           /\ records[a].mirror = "new" => mirror[a] = "full"

(* No asset gets a second replacement, except by a request that was still  *)
(* under way when the library was searched for the first one.              *)
UploadedOnce == \A a \in Assets : uploads[a] <= 1 + late

(* Success is reported for a cohort that is complete, in iCloud, on disk,  *)
(* in the database and in the exported checkpoint.                         *)
SuccessMeansDone ==
    pc = "done" =>
        /\ Cohort(Complete) /\ checkpoint = records
        /\ live = {} /\ moved = Members
        /\ \A a \in Assets : Made(a) /\ uploads[a] > 0 /\ mirror[a] = "full"

Abstract == INSTANCE CohortMigration WITH
    stage <- [a \in Assets |-> records[a].phase],
    normal <- {r \in References : source[r] = "normal"},
    made <- {a \in Assets : Made(a)},
    mirrored <- {a \in Assets : mirror[a] = "full"}

(* The journals of the cohort advance together, and every irreversible     *)
(* effect happens in its phase, whatever fails and whenever the run stops. *)
ImplementsCohortMigration == Abstract!ASpec

(* The states a run cannot go on from, however often it is repeated: the   *)
(* devices changed when no receipt can be made, or one made refuses        *)
(* quarantined HEICs; a quarantine was interrupted after its first rename; *)
(* a conversion left files; iCloud holds two replacements; the mirror file *)
(* is torn.                                                                *)
Unresumable ==
    \/ mount # 0 /\ ~Since(DeleteConfirmed)
    \/ Cohort(DeleteConfirmed) /\ moved # {}
    \/ Cohort(DeleteConfirmed) /\ mount \notin {0, receipt} /\ checkpoint # records
    \/ mount # 0 /\ Since(Quarantined) /\ ~Since(Complete)
       /\ (receipt # mount \/ Cohort(Quarantined))
    \/ Cohort(Reset) /\ \E a \in Assets : output[a] # "none"
    \/ Cohort(UploadPrepared) /\ \E a \in Assets : uploads[a] > 1
    \/ Cohort(UploadVerified) /\ \E a \in Assets : mirror[a] = "torn"

(* A run was stopped in one of them. *)
Interrupted == pc = "idle" /\ Unresumable
=============================================================================
