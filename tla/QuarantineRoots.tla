-------------------------- MODULE QuarantineRoots ---------------------------
(***************************************************************************)
(* The quarantine directories of a legacy upload migration, one for each   *)
(* root (src/legacy_upload_migration/apply.rs), beside MigrationApply.     *)
(*                                                                         *)
(* An older program may have left them behind empty: two commands audit    *)
(* and remove them before a migration begins.  The preflight of the first  *)
(* phase makes them, and undoes that when it fails.  Both write progress   *)
(* files ahead of what they do and after it, each bound by a digest to the *)
(* one before, and after an interruption go on from what these and the     *)
(* directories say.  A file cut off by the death of the process is not     *)
(* written again.                                                          *)
(***************************************************************************)
EXTENDS MigrationApply, Sequences

CONSTANTS RootCount,    \* roots of the plan, worked on in this order
          Identities,   \* bound: what a directory is told by; may come back
          Absent,       \* no directory
          MaxAttempts,  \* MAX_QUARANTINE_MATERIALIZATION_ATTEMPTS
          Residues      \* bound: directories an older program left behind

Roots == 1 .. RootCount

ASSUME RootsAssumption ==
    /\ RootCount \in Nat \ {0} /\ MaxAttempts \in Nat
    /\ Identities # {} /\ Absent \notin Identities /\ Residues \subseteq [Roots -> Identities \union {Absent}]

VARIABLES
    directory,  \* the directory of the cohort in each root, or Absent
    attempts,   \* progress files of each root, by attempt
    authority,  \* the file that binds them to the evidence
    audit,      \* the document that names the residual directories, or NoAudit
    removal,    \* progress files of their removal
    claim,      \* the file that binds those to the audit
    task,       \* what is being done about directories
    root,       \* and in which root
    failed      \* the attempt is undone because of an error

files == <<attempts, authority, audit, removal, claim>>
control == <<task, root, failed>>
rootVars == <<directory, files, control>>
allVars == <<vars, rootVars>>

-----------------------------------------------------------------------------
NoAudit == [r \in Roots |-> Absent]

FileStates == {"none", "torn", "whole"}

(* An attempt by its last progress file: the intent to create, created,    *)
(* committed, the intent to remove, and removed; of is the directory the   *)
(* last of them names.                                                     *)
Stages == {"intent", "created", "committed", "removing", "removed", "torn"}
Attempts == [stage : Stages, of : Identities \union {Absent}]
At0 == [stage |-> "removed", of |-> Absent]

Latest(r) == IF attempts[r] = <<>> THEN At0 ELSE attempts[r][Len(attempts[r])]
Over(r) == Latest(r).stage = "removed"
Stands(r) == Latest(r).stage = "committed" /\ Latest(r).of = directory[r]

(* Another directory than the one its progress files name. *)
Misnamed(r) ==
    /\ Latest(r).stage \in {"created", "committed", "removing"}
    /\ directory[r] \notin {Latest(r).of, Absent}

Mismatch(r) ==
    \/ Latest(r).stage = "torn" \/ Misnamed(r)
    \/ Over(r) /\ (directory[r] # Absent \/ Len(attempts[r]) >= MaxAttempts)

Entry(stage, r) == [stage |-> stage, of |-> directory[r]]

Putting(r, a) ==
    attempts' = [attempts EXCEPT ![r] =
        IF Over(r) THEN Append(@, a) ELSE [@ EXCEPT ![Len(@)] = a]]

-----------------------------------------------------------------------------
RInit ==
    /\ Init
    /\ directory \in Residues
    /\ cohort = (\E r \in Roots : directory[r] # Absent)
    /\ attempts = [r \in Roots |-> <<>>] /\ authority = "none"
    /\ audit = NoAudit /\ removal = [r \in Roots |-> "none"] /\ claim = "none"
    /\ task = "none" /\ root = 0 /\ failed = FALSE

(* The run ends, and with it what it was doing. *)
Leave == DirectoriesRefused /\ task' = "none" /\ root' = 0 /\ failed' = FALSE

(* The roots before n are undone, then the run ends. *)
Undoing(n) ==
    IF n = 0 THEN Leave
    ELSE task' = "undo" /\ root' = n /\ failed' = FALSE /\ UNCHANGED vars

Proceed(r) ==
    /\ UNCHANGED vars
    /\ IF r = RootCount THEN task' = "ready" /\ root' = 0 ELSE task' = "make" /\ root' = r + 1
    /\ failed' = FALSE

Goes == UNCHANGED <<vars, control>>

-----------------------------------------------------------------------------
(* materialize_prepared_quarantine_roots.                                  *)

(* Progress is bound to one evidence; directories that are already there   *)
(* without it are somebody else's.                                         *)
MayBegin ==
    task = "none" /\ pc = "preflight" /\ Cohort(Prepared) /\ PreflightPasses

Unbound == authority = "none" /\ \A r \in Roots : directory[r] = Absent

BeginMaking ==
    /\ MayBegin
    /\ IF authority = "whole" \/ Unbound
       THEN /\ authority' = "whole" /\ task' = "make" /\ root' = 1
            /\ UNCHANGED <<vars, failed>>
       ELSE Leave /\ UNCHANGED authority
    /\ UNCHANGED <<directory, attempts, audit, removal, claim>>

Making(r) == task = "make" /\ root = r /\ ~Mismatch(r)

(* What the progress files of this root do not explain ends the run.       *)
Refuse(r) ==
    /\ task = "make" /\ root = r /\ Mismatch(r)
    /\ Undoing(r - 1)
    /\ UNCHANGED <<directory, files>>

Intend(r) ==
    /\ Making(r) /\ Over(r)
    /\ Putting(r, Entry("intent", r))
    /\ Goes
    /\ UNCHANGED <<directory, authority, audit, removal, claim>>

MakeDirectory(r) ==
    /\ Making(r) /\ Latest(r).stage = "intent" /\ directory[r] = Absent
    /\ \E d \in Identities : directory' = [directory EXCEPT ![r] = d]
    /\ Goes
    /\ UNCHANGED files

(* All roots are undone then. *)
MakeDirectoryFails(r) ==
    /\ Making(r) /\ Latest(r).stage = "intent" /\ directory[r] = Absent
    /\ Slip /\ task' = "undo" /\ root' = RootCount /\ failed' = FALSE
    /\ UNCHANGED <<directory, files>>

(* An empty directory found after the intent is the one intended.          *)
RecordMade(r) ==
    /\ Making(r) /\ Latest(r).stage = "intent" /\ directory[r] # Absent
    /\ Putting(r, Entry("created", r))
    /\ Goes
    /\ UNCHANGED <<directory, authority, audit, removal, claim>>

Commit(r) ==
    /\ Making(r) /\ Latest(r).stage = "created" /\ directory[r] # Absent
    /\ Putting(r, Entry("committed", r))
    /\ Proceed(r)
    /\ UNCHANGED <<directory, authority, audit, removal, claim>>

Committed(r) ==
    /\ Making(r) /\ Stands(r) /\ directory[r] # Absent
    /\ Proceed(r)
    /\ UNCHANGED <<directory, files>>

(* The root could not be synced: this attempt is undone and then all, or   *)
(* all from the last root on if the directory was found.                   *)
SyncFails(r) ==
    /\ Making(r) /\ Latest(r).stage = "created" /\ directory[r] # Absent
    /\ Slip
    /\ \/ failed' = TRUE /\ Putting(r, Entry("removing", r)) /\ UNCHANGED <<task, root>>
       \/ task' = "undo" /\ root' = RootCount /\ UNCHANGED <<failed, attempts>>
    /\ UNCHANGED <<directory, authority, audit, removal, claim>>

(* What was made but is there no more is recorded as removed; then the     *)
(* next attempt.                                                           *)
RecordGone(r) ==
    /\ Making(r) /\ Latest(r).stage \in {"created", "committed"} /\ directory[r] = Absent
    /\ Putting(r, Entry("removing", r))
    /\ Goes
    /\ UNCHANGED <<directory, authority, audit, removal, claim>>

(* The preflight finds that a file changed: all roots are undone.          *)
Invalidated ==
    /\ task = "ready" /\ pc = "preflight"
    /\ Slip /\ task' = "undo" /\ root' = RootCount /\ UNCHANGED failed
    /\ UNCHANGED <<directory, files>>

-----------------------------------------------------------------------------
(* rollback_materialization_attempt, of one root or of all in turn.        *)

Removing(r) ==
    /\ root = r /\ task \in {"make", "undo"}
    /\ Latest(r).stage = "removing" /\ ~Misnamed(r)

(* Mutant: the directory goes without the intent to remove it. *)
IntendRemoval_Unrecorded(r) ==
    /\ task = "undo" /\ root = r
    /\ Latest(r).stage \in {"intent", "created", "committed"}
    /\ ~Misnamed(r)
    /\ Putting(r, Entry("removed", r))
    /\ Goes
    /\ UNCHANGED <<directory, authority, audit, removal, claim>>

IntendRemoval(r) ==
    /\ task = "undo" /\ root = r
    /\ Latest(r).stage \in {"intent", "created", "committed"}
    /\ ~Misnamed(r)
    /\ Putting(r, Entry("removing", r))
    /\ Goes
    /\ UNCHANGED <<directory, authority, audit, removal, claim>>

RemoveDirectory(r) ==
    /\ Removing(r) /\ directory[r] # Absent
    /\ directory' = [directory EXCEPT ![r] = Absent]
    /\ Goes
    /\ UNCHANGED files

(* It cannot be removed, or the root cannot be synced afterwards, which is *)
(* recorded as removed all the same: this root is left to the next run.    *)
RemoveFails(r) ==
    /\ Removing(r) /\ directory[r] # Absent
    /\ Slip /\ failed' = FALSE
    /\ IF task = "make" /\ r > 1 THEN task' = "undo" /\ root' = r - 1
                                 ELSE task' = "leave" /\ root' = 0
    /\ \/ UNCHANGED <<directory, attempts>>
       \/ /\ directory' = [directory EXCEPT ![r] = Absent]
          /\ Putting(r, [stage |-> "removed", of |-> Latest(r).of])
    /\ UNCHANGED <<authority, audit, removal, claim>>

RecordRemoved(r) ==
    /\ Removing(r) /\ directory[r] = Absent
    /\ Putting(r, [stage |-> "removed", of |-> Latest(r).of])
    /\ IF failed THEN UNCHANGED vars /\ task' = "undo" /\ root' = RootCount /\ failed' = FALSE
                 ELSE Goes
    /\ UNCHANGED <<directory, authority, audit, removal, claim>>

(* The next root before this one; torn progress ends the run.              *)
Undone(r) ==
    /\ task = "undo" /\ root = r
    /\ \/ Over(r) /\ Undoing(r - 1)
       \/ (Latest(r).stage = "torn" \/ Misnamed(r)) /\ Leave
    /\ UNCHANGED <<directory, files>>

Left ==
    /\ task = "leave"
    /\ Leave
    /\ UNCHANGED <<directory, files>>

-----------------------------------------------------------------------------
(* Writing a progress file.                                                *)

(* Whether the next step about r begins with one. *)
Writes(r) ==
    \/ /\ Making(r)
       /\ \/ Over(r) \/ Latest(r).stage = "created"
          \/ Latest(r).stage = "intent" /\ directory[r] # Absent
          \/ Latest(r).stage = "committed" /\ directory[r] = Absent
    \/ task = "undo" /\ root = r /\ Latest(r).stage \in {"intent", "created", "committed"}
    \/ Removing(r) /\ directory[r] = Absent

(* An error takes the file away again. *)
WriteFails(r) ==
    /\ Writes(r)
    /\ Slip /\ failed' = FALSE
    /\ IF task = "make" /\ r > 1 THEN task' = "undo" /\ root' = r - 1
                                 ELSE task' = "leave" /\ root' = 0
    /\ UNCHANGED <<directory, files>>

(* The process dies, and cuts off the file it was writing or not. *)
RCrash ==
    /\ Crash
    /\ task' = "none" /\ root' = 0 /\ failed' = FALSE
    /\ \/ UNCHANGED <<attempts, authority>>
       \/ \E r \in Roots : /\ Writes(r)
                           /\ Putting(r, Entry("torn", r))
                           /\ UNCHANGED authority
       \/ MayBegin /\ Unbound /\ authority' = "torn" /\ UNCHANGED attempts
    /\ UNCHANGED <<directory, audit, removal, claim>>

-----------------------------------------------------------------------------
(* The commands for residual directories.  A migration has not begun.      *)

Between == pc = "idle" /\ task = "none"

(* audit_legacy_upload_quarantine_residuals: every root must have one.     *)
AuditResiduals ==
    /\ Between /\ Cohort(NoPhase) /\ mount = 0 /\ checkpoint = records
    /\ audit # directory
    /\ \A r \in Roots : directory[r] # Absent
    /\ audit' = directory
    /\ UNCHANGED <<vars, directory, attempts, authority, removal, claim, control>>

(* validate_initial_residual_progress_chain: they went in order, each with *)
(* its files.                                                              *)
ChainHolds ==
    \A r \in Roots :
        LET later == \E s \in Roots : s > r /\ directory[s] = Absent IN
        IF directory[r] = Absent
        THEN removal[r] = "done" \/ (removal[r] = "intent" /\ ~later)
        ELSE removal[r] \in {"none", "intent"} /\ ~later

(* recover_residual_directories_with_progress. *)
MayRecover ==
    /\ Between /\ Cohort(NoPhase) /\ mount = 0 /\ checkpoint = records
    /\ audit # NoAudit
    /\ \A r \in Roots : directory[r] \in {audit[r], Absent}
    /\ \E r \in Roots : removal[r] # "done"
    /\ claim # "torn"
    /\ (\E r \in Roots : directory[r] = Absent) => claim = "whole" /\ ChainHolds

BeginRecovery ==
    /\ MayRecover
    /\ claim' = "whole"
    /\ task' = "recover" /\ root' = 1 /\ UNCHANGED failed
    /\ UNCHANGED <<vars, directory, attempts, authority, audit, removal>>

Recovering(r) == task = "recover" /\ root = r

IntendRecovery(r) ==
    /\ Recovering(r) /\ directory[r] # Absent /\ removal[r] = "none"
    /\ removal' = [removal EXCEPT ![r] = "intent"]
    /\ Goes
    /\ UNCHANGED <<directory, attempts, authority, audit, claim>>

RecoverDirectory(r) ==
    /\ Recovering(r) /\ directory[r] # Absent /\ removal[r] = "intent"
    /\ directory' = [directory EXCEPT ![r] = Absent]
    /\ IF \A s \in Roots : directory'[s] = Absent THEN RemoveResiduals ELSE UNCHANGED vars
    /\ UNCHANGED <<files, control>>

NextRecovery(r) ==
    /\ IF r = RootCount THEN task' = "none" /\ root' = 0 ELSE task' = "recover" /\ root' = r + 1
    /\ UNCHANGED failed

RecordRecovered(r) ==
    /\ Recovering(r) /\ directory[r] = Absent /\ removal[r] \in {"intent", "done"}
    /\ removal' = [removal EXCEPT ![r] = "done"]
    /\ NextRecovery(r)
    /\ UNCHANGED <<vars, directory, attempts, authority, audit, claim>>

RecoveryWrites(r) ==
    /\ Recovering(r)
    /\ removal[r] = IF directory[r] = Absent THEN "intent" ELSE "none"

(* An error, or the death of the process that may cut off a file.          *)
RecoveryFails ==
    /\ Slip
    /\ \/ task = "recover" /\ UNCHANGED <<removal, claim>>
       \/ /\ \E r \in Roots : RecoveryWrites(r) /\ removal' = [removal EXCEPT ![r] = "torn"]
          /\ UNCHANGED claim
       \/ MayRecover /\ claim = "none" /\ claim' = "torn" /\ UNCHANGED removal
    /\ task' = "none" /\ root' = 0 /\ UNCHANGED failed
    /\ UNCHANGED <<directory, attempts, authority, audit>>

RecoveryRefused(r) ==
    /\ Recovering(r) /\ removal[r] = "torn"
    /\ task' = "none" /\ root' = 0 /\ UNCHANGED failed
    /\ UNCHANGED <<vars, directory, files>>

(* Somebody takes away an empty directory between two runs.                *)
TakenAway(r) ==
    /\ Between /\ Cohort(Prepared) /\ directory[r] # Absent
    /\ Slip
    /\ directory' = [directory EXCEPT ![r] = Absent]
    /\ UNCHANGED <<files, control>>

-----------------------------------------------------------------------------
MakeStep(r) ==
    \/ Refuse(r) \/ Intend(r) \/ MakeDirectory(r) \/ MakeDirectoryFails(r)
    \/ RecordMade(r) \/ Commit(r) \/ Committed(r) \/ SyncFails(r) \/ RecordGone(r)

UndoStep(r) ==
    \/ IntendRemoval(r) \/ RemoveDirectory(r) \/ RemoveFails(r) \/ RecordRemoved(r)
    \/ Undone(r) \/ WriteFails(r)

RecoverStep(r) ==
    \/ IntendRecovery(r) \/ RecoverDirectory(r) \/ RecordRecovered(r)
    \/ RecoveryRefused(r)

RootStep ==
    \/ BeginMaking \/ Invalidated \/ Left
    \/ \E r \in Roots : MakeStep(r) \/ UndoStep(r) \/ RecoverStep(r)

(* The migration goes on when the directories are made. *)
Onward ==
    /\ \/ task = "none" /\ ~MayBegin
       \/ task = "ready"
    /\ RunStep
    /\ task' = "none"
    /\ UNCHANGED <<directory, files, root, failed>>

Waiting == task = "none" /\ UNCHANGED rootVars

RNext ==
    \/ RootStep \/ Onward \/ RCrash
    \/ AuditResiduals \/ BeginRecovery \/ RecoveryFails
    \/ \E r \in Roots : TakenAway(r)
    \/ /\ \E rec \in BOOLEAN : Start(rec)
       /\ Waiting
    \/ /\ \E partial \in BOOLEAN : MakeReceipt(partial)
       /\ Waiting
    \/ (RotateReceipt \/ Reboot) /\ Waiting
    \/ (\E q \in Requests : LateRequest(q)) /\ UNCHANGED rootVars

RSpec == RInit /\ [][RNext]_allVars

(* The threads of a run get to run; the operator starts the commands again *)
(* after they stopped and has a receipt made when one can be made.         *)
Fairness ==
    /\ WF_allVars(RootStep \/ Onward)
    /\ \A rec \in BOOLEAN : SF_allVars(Start(rec) /\ Waiting)
    /\ SF_allVars(MakeReceipt(TRUE) /\ Waiting)
    /\ SF_allVars(AuditResiduals) /\ SF_allVars(BeginRecovery)

FairSpec == RSpec /\ Fairness

-----------------------------------------------------------------------------
RootsTypeOK ==
    /\ directory \in [Roots -> Identities \union {Absent}]
    /\ attempts \in [Roots -> Seq(Attempts)]
    /\ authority \in FileStates /\ claim \in FileStates
    /\ audit \in [Roots -> Identities \union {Absent}]
    /\ removal \in [Roots -> {"none", "intent", "done", "torn"}]
    /\ task \in {"none", "make", "ready", "undo", "leave", "recover"}
    /\ root \in 0 .. RootCount /\ failed \in BOOLEAN

(* After whatever interruption the progress files explain the directories: *)
(* one that is there was intended and is the one they name, one recorded   *)
(* as removed is gone, a finished attempt is not taken up again; and the   *)
(* migration goes on only with directories that are all committed.         *)
ProgressExplainsDirectories ==
    /\ \A r \in Roots : \A i \in 1 .. Len(attempts[r]) - 1 : attempts[r][i].stage = "removed"
    /\ ~Cohort(NoPhase) =>
           \A r \in Roots : directory[r] # Absent =>
               /\ ~Over(r)
               /\ Latest(r).stage \in {"created", "committed", "removing"} =>
                      Latest(r).of = directory[r]
    /\ Cohort(NoPhase) =>
           \A r \in Roots : removal[r] = "done" => directory[r] = Absent
    /\ task = "ready" \/ Since(DeleteConfirmed) =>
           \A r \in Roots : Stands(r) /\ directory[r] # Absent

(* The states the directories cannot be made from any more: a progress     *)
(* file was cut off, the attempts are used up, or an older program left    *)
(* directories in some roots only.                                         *)
Blocked ==
    /\ Between
    /\ \/ Cohort(Prepared) /\ authority = "torn"
       \/ \E r \in Roots : Latest(r).stage = "torn"
       \/ \E r \in Roots : Cohort(Prepared) /\ Over(r) /\ Len(attempts[r]) = MaxAttempts
       \/ Cohort(NoPhase) /\ (claim = "torn" \/ \E r \in Roots : removal[r] = "torn")
       \/ Cohort(NoPhase) /\ audit = NoAudit /\ cohort /\ \E r \in Roots : directory[r] = Absent

(* Every migration the operator keeps running completes, unless it was     *)
(* interrupted in one of the places above: no other crash, lost answer or  *)
(* failed step stops it.                                                   *)
CompletesUnlessInterrupted == <>(Interrupted \/ Blocked \/ pc = "done")
=============================================================================
