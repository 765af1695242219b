---------------------------- MODULE FencedStore ----------------------------
(***************************************************************************)
(* What src/state_store.rs promises its callers: a table of asset rows     *)
(* owned by one writer epoch at a time, and a JSON checkpoint that is only *)
(* ever a copy of the table.                                               *)
(*                                                                         *)
(* The specification knows neither owners, clocks, leases, transactions    *)
(* nor caches: StateStore implements it.                                   *)
(***************************************************************************)
EXTENDS Naturals

CONSTANTS Assets,   \* asset ids
          Records,  \* values an AssetRecord can take
          Absent    \* an asset without a row

VARIABLES epoch,      \* the epoch that may write
          rows,       \* the committed table
          rowEpoch,   \* the epoch that wrote each row
          checkpoint  \* the manifest JSON on disk

vars == <<epoch, rows, rowEpoch, checkpoint>>

Tables == [Assets -> Records \union {Absent}]

TypeOK ==
    /\ epoch \in Nat
    /\ rows \in Tables
    /\ rowEpoch \in [Assets -> Nat]
    /\ checkpoint \in Tables

Init ==
    /\ epoch = 0
    /\ rows \in Tables
    /\ rowEpoch = [a \in Assets |-> 0]
    /\ checkpoint \in Tables

(* A new writer fences every earlier one. *)
TakeOver ==
    /\ epoch' = epoch + 1
    /\ UNCHANGED <<rows, rowEpoch, checkpoint>>

(* The current epoch, and no other, replaces the rows of a set of assets at once. *)
Write ==
    /\ \E S \in SUBSET Assets :
          /\ rows' \in Tables
          /\ \A a \in Assets \ S : rows'[a] = rows[a]
          /\ rowEpoch' = [a \in Assets |-> IF a \in S THEN epoch ELSE rowEpoch[a]]
    /\ UNCHANGED <<epoch, checkpoint>>

(* The checkpoint becomes a copy of the table as it is now. *)
Publish ==
    /\ checkpoint' = rows
    /\ UNCHANGED <<epoch, rows, rowEpoch>>

Next == TakeOver \/ Write \/ Publish

Spec == Init /\ [][Next]_vars
=============================================================================
