--------------------------- MODULE BoundedRetries ---------------------------
(***************************************************************************)
(* What the retry policies of a monitor promise of a failed asset: it goes *)
(* back to work only by paying one of a few attempts, which nothing gives  *)
(* back, or because its original in the library is not matched yet; a      *)
(* source that has been replaced is not replaced again; a record under     *)
(* review stays there.                                                     *)
(*                                                                         *)
(* There are no scans, budgets, ages, proofs or crashes here:              *)
(* RetryAdmission implements this specification.                           *)
(***************************************************************************)
EXTENDS Naturals

CONSTANTS Assets,    \* asset ids
          MaxPaid,   \* retries of typed failures
          MaxTries   \* attempts to replace an unusable source

VARIABLE asset       \* what is durable of each asset

Records == [state : {"working", "failed", "over"},
            matched : BOOLEAN,         \* its original is matched
            replaced : BOOLEAN,        \* its source was replaced
            paid : 0 .. MaxPaid,
            tries : 0 .. MaxTries]

Init ==
    /\ asset \in [Assets -> Records]
    /\ \A a \in Assets : asset[a].tries = 0 /\ ~asset[a].replaced

(* Work goes on, or fails, or is done with. *)
Progress(r, s) ==
    /\ r.state = "working"
    /\ \E st \in {"working", "failed", "over"}, m \in {r.matched, TRUE} :
          s = [r EXCEPT !.state = st, !.matched = m]

RetryFailure(r, s) ==
    /\ r.state = "failed"
    /\ r.matched /\ r.tries = 0
    /\ r.paid < MaxPaid
    /\ s = [r EXCEPT !.state = "working", !.paid = @ + 1]

ReplaceSource(r, s) ==
    /\ r.state = "failed"
    /\ r.matched /\ ~r.replaced
    /\ r.tries < MaxTries
    /\ \/ s = [r EXCEPT !.tries = @ + 1]
       \/ s = [r EXCEPT !.tries = @ + 1, !.state = "working", !.replaced = TRUE]

MatchAgain(r, s) ==
    /\ r.state = "failed"
    /\ ~r.matched
    /\ s = [r EXCEPT !.state = "working"]

Review(r, s) == r.state = "failed" /\ s = [r EXCEPT !.state = "over"]

Step(r, s) ==
    \/ Progress(r, s) \/ RetryFailure(r, s) \/ ReplaceSource(r, s)
    \/ MatchAgain(r, s) \/ Review(r, s)

(* A commit may take several assets further, each by one step. *)
Next ==
    /\ asset' \in [Assets -> Records]
    /\ \A a \in Assets : asset'[a] = asset[a] \/ Step(asset[a], asset'[a])

Spec == Init /\ [][Next]_asset
=============================================================================
