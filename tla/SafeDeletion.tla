---------------------------- MODULE SafeDeletion ----------------------------
(***************************************************************************)
(* What the deletion of original RAW assets promises: an original leaves   *)
(* iCloud by the program's hand only after its approval is durable and     *)
(* while it still is the revision that was proved, and it is recorded as   *)
(* deleted only after it is gone.                                          *)
(*                                                                         *)
(* There are no scans, windows, tokens, lookups or failures here:          *)
(* DeletePipeline implements this specification.                           *)
(***************************************************************************)
CONSTANT Assets     \* asset ids

VARIABLES db,       \* the committed state of each asset
          remote    \* its original in the iCloud library

vars == <<db, remote>>

Undecided == {"UploadVerified", "DeleteEligible"}

Init ==
    /\ db \in [Assets -> Undecided]
    /\ remote = [a \in Assets |-> "present"]

Approve(S) ==
    /\ \A a \in S : db[a] \in Undecided
    /\ db' = [a \in Assets |-> IF a \in S THEN "DeleteApproved" ELSE db[a]]
    /\ UNCHANGED remote

(* The approved originals, unchanged since they were proved, leave together. *)
DeleteOriginals(S) ==
    /\ \A a \in S : db[a] = "DeleteApproved" /\ remote[a] = "present"
    /\ remote' = [a \in Assets |-> IF a \in S THEN "deleted" ELSE remote[a]]
    /\ UNCHANGED db

Record(S) ==
    /\ \A a \in S : db[a] = "DeleteApproved" /\ remote[a] = "deleted"
    /\ db' = [a \in Assets |-> IF a \in S THEN "Deleted" ELSE db[a]]
    /\ UNCHANGED remote

(* Another client of the library edits an original, or deletes it. *)
SomeoneElse(a) ==
    /\ remote[a] # "deleted"
    /\ remote' \in {[remote EXCEPT ![a] = r] : r \in {"edited", "deleted"}}
    /\ UNCHANGED db

Next ==
    \/ \E S \in SUBSET Assets : Approve(S) \/ DeleteOriginals(S) \/ Record(S)
    \/ \E a \in Assets : SomeoneElse(a)

Spec == Init /\ [][Next]_vars
=============================================================================
