-------------------------- MODULE MigrationJournal --------------------------
(***************************************************************************)
(* The journal a record of a legacy cohort carries through the migration   *)
(* (src/legacy_upload_migration.rs): the phases, the state each of them    *)
(* requires, what a step to the next phase may change in the record, and   *)
(* when the pair of updates of a cohort is accepted.                       *)
(*                                                                         *)
(* A record is reduced to the last phase of its journal, its state and     *)
(* which generation of each proof it holds: the one from before the        *)
(* migration, none, or the one the migration installed.  conversion stands *)
(* for the conversion, performance and HEIC proofs, which always go        *)
(* together.  Digests and witnesses are left out: the journal is           *)
(* append-only and every entry is checked against the one before it.       *)
(***************************************************************************)
EXTENDS Integers

(* LegacyUploadMigrationPhase; NoPhase stands for no journal. *)
NoPhase == 0
Prepared == 1
DeleteConfirmed == 2
Quarantined == 3
Reset == 4
Converted == 5
UploadPrepared == 6
UploadVerified == 7
Mirrored == 8
Complete == 9
Phases == NoPhase .. Complete

Generations == {"old", "none", "new"}
Records == [phase : Phases, state : {"nas", "converted", "uploaded"},
            conversion : Generations, upload : Generations, mirror : Generations]

LegacyRecord == [phase |-> NoPhase, state |-> "uploaded", conversion |-> "old",
                 upload |-> "old", mirror |-> "old"]

RequiredState(p) ==
    CASE p = Reset -> "nas"
      [] p \in {Converted, UploadPrepared} -> "converted"
      [] OTHER -> "uploaded"

JournalOnly(old, new) ==
    /\ new.state = old.state /\ new.conversion = old.conversion
    /\ new.upload = old.upload /\ new.mirror = old.mirror

(* The proofs the migration replaces are removed together. *)
ResetLegacyLineage(old, new) ==
    /\ "none" \notin {old.conversion, old.upload, old.mirror}
    /\ {new.conversion, new.upload, new.mirror} = {"none"}

InstallVerifiedConversion(old, new) ==
    /\ old.conversion = "none" /\ new.conversion = "new"
    /\ new.upload = old.upload /\ new.mirror = old.mirror

InstallVerifiedUpload(old, new) ==
    /\ old.upload = "none" /\ new.upload = "new"
    /\ new.conversion = old.conversion /\ new.mirror = old.mirror

InstallVerifiedMirror(old, new) ==
    /\ old.mirror = "none" /\ new.mirror = "new"
    /\ new.conversion = old.conversion /\ new.upload = old.upload

TransitionDelta(old, new) ==
    CASE new.phase = Reset -> ResetLegacyLineage(old, new)
      [] new.phase = Converted -> InstallVerifiedConversion(old, new)
      [] new.phase = UploadVerified -> InstallVerifiedUpload(old, new)
      [] new.phase = Mirrored -> InstallVerifiedMirror(old, new)
      [] OTHER -> JournalOnly(old, new)

(* The state of a record is the one its last entry was made for. *)
JournalStands(r) == r.state = RequiredState(r.phase)

(* validate_record_update: exactly one entry is appended. *)
ValidUpdate(old, new) ==
    /\ new.phase = old.phase + 1
    /\ JournalStands(old) /\ JournalStands(new)
    /\ TransitionDelta(old, new)

-----------------------------------------------------------------------------
(* What a phase puts into the record once its effects are in place.        *)
ResetCandidate(r) ==
    [r EXCEPT !.state = "nas", !.conversion = "none", !.upload = "none", !.mirror = "none"]
ConvertedCandidate(r) == [r EXCEPT !.state = "converted", !.conversion = "new"]
UploadCandidate(r) == [r EXCEPT !.state = "uploaded", !.upload = "new"]
MirrorCandidate(r) == [r EXCEPT !.mirror = "new"]

(* The journal gets the next entry. *)
Journalled(r) == [r EXCEPT !.phase = @ + 1]

Candidate(r) ==
    Journalled(CASE r.phase = Quarantined -> ResetCandidate(r)
                 [] r.phase = Reset -> ConvertedCandidate(r)
                 [] r.phase = UploadPrepared -> UploadCandidate(r)
                 [] r.phase = UploadVerified -> MirrorCandidate(r)
                 [] OTHER -> r)
=============================================================================
