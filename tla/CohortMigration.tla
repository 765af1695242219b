-------------------------- MODULE CohortMigration --------------------------
(***************************************************************************)
(* What the migration of a legacy cohort promises: the journals of its     *)
(* records advance together, one phase at a time, and each irreversible    *)
(* effect happens in the one phase that allows it, after everything the    *)
(* phases before it stand for is in place.  Crashes, restarts and repeated *)
(* runs are stuttering steps.                                              *)
(***************************************************************************)
EXTENDS MigrationJournal, FiniteSets

CONSTANTS Assets,     \* the records of the cohort
          Members,    \* the files the cohort quarantines
          References  \* those of them that get a normalised copy

VARIABLES
    stage,    \* the last phase in each record's journal
    live,     \* assets whose retired replacement is active in iCloud
    moved,    \* quarantined files
    normal,   \* references with a normalised copy at the old place
    made,     \* assets with a new HEIC
    uploads,  \* how many new replacements of each asset iCloud holds
    mirrored  \* assets with a new file in the local mirror

avars == <<stage, live, moved, normal, made, uploads, mirrored>>

AllAt(p) == stage = [a \in Assets |-> p]

(* What must be in place before the cohort leaves phase p. *)
Ready(p) ==
    /\ p = Prepared => live = {}
    /\ p = DeleteConfirmed => moved = Members /\ normal = References
    /\ p = Reset => made = Assets
    /\ p = UploadPrepared => \A a \in Assets : uploads[a] > 0
    /\ p = UploadVerified => mirrored = Assets

-----------------------------------------------------------------------------
AInit ==
    /\ AllAt(NoPhase)
    /\ live \subseteq Assets
    /\ moved = {} /\ normal = {} /\ made = {} /\ mirrored = {}
    /\ uploads = [a \in Assets |-> 0]

Advance ==
    /\ \E p \in Phases \ {Complete} :
           /\ AllAt(p) /\ Ready(p)
           /\ stage' = [a \in Assets |-> p + 1]
    /\ UNCHANGED <<live, moved, normal, made, uploads, mirrored>>

(* No file is moved before both retired replacements are gone. *)
DeleteReplacement(a) ==
    /\ AllAt(Prepared) /\ a \in live /\ moved = {}
    /\ live' = live \ {a}
    /\ UNCHANGED <<stage, moved, normal, made, uploads, mirrored>>

Quarantine(m) ==
    /\ AllAt(DeleteConfirmed) /\ m \notin moved /\ normal = {}
    /\ moved' = moved \union {m}
    /\ UNCHANGED <<stage, live, normal, made, uploads, mirrored>>

Normalize(r) ==
    /\ AllAt(DeleteConfirmed) /\ moved = Members /\ r \notin normal
    /\ normal' = normal \union {r}
    /\ UNCHANGED <<stage, live, moved, made, uploads, mirrored>>

(* A conversion that fails takes its files away again. *)
Convert ==
    /\ AllAt(Reset)
    /\ made' \in SUBSET Assets
    /\ UNCHANGED <<stage, live, moved, normal, uploads, mirrored>>

(* An upload whose answer was lost may arrive in any later phase. *)
Upload(a) ==
    /\ \E p \in UploadPrepared .. Complete : AllAt(p)
    /\ made = Assets
    /\ uploads' = [uploads EXCEPT ![a] = @ + 1]
    /\ UNCHANGED <<stage, live, moved, normal, made, mirrored>>

Mirror(a) ==
    /\ AllAt(UploadVerified)
    /\ mirrored' = mirrored \union {a}
    /\ UNCHANGED <<stage, live, moved, normal, made, uploads>>

ANext ==
    \/ Advance
    \/ \E a \in Assets : DeleteReplacement(a) \/ Upload(a) \/ Mirror(a)
    \/ \E m \in Members : Quarantine(m)
    \/ \E r \in References : Normalize(r)
    \/ Convert

ASpec == AInit /\ [][ANext]_avars
=============================================================================
