-------------------------- MODULE RollingScanProofs --------------------------
(* Proofs about RollingScan, for any assets, captures, limits and bounds.   *)
EXTENDS RollingScan, FiniteSetTheorems, TLAPS

(* The records and what iCloud has are well typed, and no photo is named by  *)
(* two records: what the other variables hold makes no difference.           *)
Bound ==
    /\ db \in [Assets -> Records]
    /\ remote \in [Assets -> Assets \union {Absent, Unclear}]
    /\ OriginalHasOneRaw

(* A step after which no record names another photo. *)
Unbinding ==
    /\ db' \in [Assets -> Records]
    /\ UNCHANGED remote
    /\ \A a \in Assets : db'[a].original = db[a].original /\ db'[a].kept = db[a].kept

LEMMA UnbindingKeeps ==
  ASSUME Bound, Unbinding
  PROVE  Bound'
BY DEF Bound, Unbinding, OriginalHasOneRaw, Names

LEMMA BoundInit == Init => Bound
<1> SUFFICES ASSUME Init PROVE Bound
  OBVIOUS
<1>1. {Record("nas", FALSE), Record("verified", FALSE), Record("ready", TRUE),
       Record("unmatched", FALSE)} \subseteq Records
  BY DEF Records, Record, States
<1>2. db \in [Assets -> Records]
  BY <1>1 DEF Init
<1>3. \A a \in Assets : db[a].kept = {}
  BY DEF Init, Record
<1>4. \A a \in Assets : Names(db[a], a) = IF db[a].original THEN {remote[a]} ELSE {}
  BY <1>3 DEF Names
<1>5. OriginalHasOneRaw
  BY <1>4 DEF Init, OriginalHasOneRaw
<1> QED
  BY <1>2, <1>5 DEF Init, Bound

(* A record whose state alone changes. *)
LEMMA StateChange ==
  ASSUME NEW r \in Records, NEW s \in States
  PROVE  /\ [r EXCEPT !.state = s] \in Records
         /\ [r EXCEPT !.state = s].original = r.original
         /\ [r EXCEPT !.state = s].kept = r.kept
BY DEF Records

(* What the admission at the start of a scan makes of the failed records. *)
LEMMA Admitted ==
  ASSUME Bound, StartScan
  PROVE  \E next \in [{a \in Assets : Has(a, {"failed", "unmatched", "retried"})} -> States] :
            /\ \A a \in DOMAIN next :
                  next[a] \in States \ {"ready", "approved", "deleted"}
            /\ db' = [a \in Assets |-> IF a \in DOMAIN next
                                       THEN [db[a] EXCEPT !.state = next[a]] ELSE db[a]]
<1>1. PICK next \in [{a \in Assets : Has(a, {"failed", "unmatched", "retried"})} -> States] :
            /\ \A a \in DOMAIN next : next[a] \in Admissions(a)
            /\ db' = [a \in Assets |-> IF a \in DOMAIN next
                                       THEN [db[a] EXCEPT !.state = next[a]] ELSE db[a]]
  BY DEF StartScan
<1>2. \A a \in DOMAIN next : next[a] \in States \ {"ready", "approved", "deleted"}
  BY <1>1 DEF Admissions, Has, States
<1> QED
  BY <1>1, <1>2

LEMMA BoundStartScan ==
  ASSUME Bound, StartScan
  PROVE  Bound'
<1>1. PICK next \in [{a \in Assets : Has(a, {"failed", "unmatched", "retried"})} -> States] :
          db' = [a \in Assets |-> IF a \in DOMAIN next THEN [db[a] EXCEPT !.state = next[a]]
                                                       ELSE db[a]]
  BY Admitted
<1>2. \A a \in Assets : a \in DOMAIN next => next[a] \in States
  OBVIOUS
<1>3. \A a \in Assets : /\ db'[a] \in Records
                        /\ db'[a].original = db[a].original /\ db'[a].kept = db[a].kept
  BY <1>1, <1>2, StateChange DEF Bound
<1>4. Unbinding
  BY <1>1, <1>3 DEF Unbinding, StartScan
<1> QED
  BY <1>4, UnbindingKeeps

LEMMA BoundDeleteBatch ==
  ASSUME Bound, DeleteBatch
  PROVE  Bound'
<1>1. PICK tried \in {Admit} : \E gone \in SUBSET (tried \ blocked) :
         \E approved \in SUBSET ((tried \ blocked) \ gone) :
          db' = [a \in Assets |->
                    IF a \in gone THEN [db[a] EXCEPT !.state = "deleted"]
                    ELSE IF a \in approved THEN [db[a] EXCEPT !.state = "approved"]
                    ELSE db[a]]
  BY DEF DeleteBatch
<1>2. PICK gone \in SUBSET (tried \ blocked), approved \in SUBSET (tried \ blocked) :
          db' = [a \in Assets |->
                    IF a \in gone THEN [db[a] EXCEPT !.state = "deleted"]
                    ELSE IF a \in approved THEN [db[a] EXCEPT !.state = "approved"]
                    ELSE db[a]]
  BY <1>1
<1>3. "deleted" \in States /\ "approved" \in States
  BY DEF States
<1>4. \A a \in Assets : /\ db'[a] \in Records
                        /\ db'[a].original = db[a].original /\ db'[a].kept = db[a].kept
  BY <1>2, <1>3, StateChange DEF Bound
<1>5. Unbinding
  BY <1>2, <1>4 DEF Unbinding, DeleteBatch
<1> QED
  BY <1>5, UnbindingKeeps

LEMMA BoundPool ==
  ASSUME Bound, Pool
  PROVE  Bound'
<1>1. PICK queue \in {Queue} : \E stopped \in SUBSET queue : \E as \in [stopped -> States] :
          db' = Worked(queue, stopped, as)
  BY DEF Pool
<1>2. PICK stopped \in SUBSET queue : \E as \in [stopped -> States] :
          db' = Worked(queue, stopped, as)
  BY <1>1
<1>3. PICK as \in [stopped -> States] : db' = Worked(queue, stopped, as)
  BY <1>2
<1> DEFINE s(a) == IF a \in stopped THEN as[a]
                   ELSE IF db[a].original THEN "ready" ELSE "verified"
<1>4. \A a \in Assets : s(a) \in States
  BY DEF States
<1>5. \A a \in Assets : db'[a] = IF a \notin queue THEN db[a] ELSE [db[a] EXCEPT !.state = s(a)]
  BY <1>3 DEF Worked
<1> HIDE DEF s
<1>6. \A a \in Assets : /\ db'[a] \in Records
                        /\ db'[a].original = db[a].original /\ db'[a].kept = db[a].kept
  <2> TAKE a \in Assets
  <2>1. s(a) \in States /\ db[a] \in Records
    BY <1>4 DEF Bound
  <2>2. CASE a \in queue
    <3>1. db'[a] = [db[a] EXCEPT !.state = s(a)]
      BY <2>2, <1>5
    <3> HIDE DEF Records
    <3> QED
      BY <2>1, <3>1, StateChange
  <2>3. CASE a \notin queue
    BY <2>1, <2>3, <1>5
  <2> QED
    BY <2>2, <2>3
<1>7. Unbinding
  BY <1>3, <1>6 DEF Unbinding, Pool, Worked
<1> QED
  BY <1>7, UnbindingKeeps

(* What a resolution makes of a record. *)
LEMMA ResolutionType ==
  ASSUME Bound, NEW B, NEW heic, NEW a \in Assets
  PROVE  Resolution(B, heic, a) \in Records
<1>1. {heic[a]} \union ({remote[a]} \intersect Assets) \subseteq Photos
      \/ heic[a] \notin Photos
  BY RollingAssumption DEF Assets, Photos
<1>2. \A photos \in SUBSET Photos : Closed(photos) \in Records
  BY DEF Closed, Records, States
<1>3. \A s \in States, o \in BOOLEAN : Record(s, o) \in Records
  BY DEF Record, Records
<1>4. db[a].state \in States /\ {"review", "nas"} \subseteq States
  BY DEF Bound, Records, States
<1> HIDE DEF States, Photos
<1> QED
  BY <1>1, <1>2, <1>3, <1>4 DEF Resolution

(* A batch that is applied: what its records name is named by no other       *)
(* record, of the batch (~Clash) or of the manifest (Owned).                 *)
LEMMA BoundApplied ==
  ASSUME Bound, NEW B, NEW heic, ~Refused(B, heic), db' = Applied(B, heic),
         UNCHANGED remote
  PROVE  Bound'
<1>1. \A a \in Assets : db'[a] = IF a \in B THEN Resolution(B, heic, a) ELSE db[a]
  BY DEF Applied
<1>2. db' \in [Assets -> Records]
  BY ResolutionType DEF Applied, Bound
<1>3. \A a \in Assets :
         Names(db[a], a)' = IF a \in B THEN Named(B, heic, a) ELSE Names(db[a], a)
  BY <1>1 DEF Names, Named
<1>4. \A a \in Assets : Names(db[a], a) \subseteq Owned
  BY DEF Owned
<1>5. /\ \A a \in B : Named(B, heic, a) \intersect Owned = {}
      /\ \A a, b \in B : a # b => Named(B, heic, a) \intersect Named(B, heic, b) = {}
  BY DEF Refused, Clash
<1>6. OriginalHasOneRaw
  BY DEF Bound
<1> HIDE DEF Names, Named, Owned, Resolution
<1>7. ASSUME NEW a \in Assets, NEW b \in Assets, a # b
      PROVE  Names(db[a], a)' \intersect Names(db[b], b)' = {}
  BY <1>3, <1>4, <1>5, <1>6, <1>7 DEF OriginalHasOneRaw
<1> QED
  BY <1>2, <1>7 DEF Bound, OriginalHasOneRaw

LEMMA BoundResolveBatch ==
  ASSUME Bound, ResolveBatch
  PROVE  Bound'
<1>1. CASE UNCHANGED <<db, remote>>
  BY <1>1 DEF Bound, OriginalHasOneRaw, Names
<1>2. CASE ~UNCHANGED <<db, remote>>
  BY <1>2, BoundApplied DEF ResolveBatch
<1> QED
  BY <1>1, <1>2

LEMMA BoundReconcile ==
  ASSUME Bound, Reconcile
  PROVE  Bound'
<1>1. PICK B \in Audited : \E heic : ~Refused(B, heic) /\ db' = Applied(B, heic)
  BY DEF Reconcile
<1>2. PICK heic : ~Refused(B, heic) /\ db' = Applied(B, heic)
  BY <1>1
<1>3. UNCHANGED remote
  BY DEF Reconcile
<1> QED
  BY <1>2, <1>3, BoundApplied

LEMMA BoundNext ==
  ASSUME Bound, [Next]_vars
  PROVE  Bound'
<1>1. CASE UNCHANGED <<db, remote>>
  BY <1>1 DEF Bound, OriginalHasOneRaw, Names
<1> QED
  BY <1>1, BoundStartScan, BoundDeleteBatch, BoundPool, BoundResolveBatch,
     BoundReconcile
     DEF Next, Step, Activate, StartResolving, Resolved, PassDone, DeferBatch, ScanFails, vars

(* No photo is named by two records, whatever fails, in whatever batches its  *)
(* RAWs are resolved and whatever an operator closes: the names in            *)
(* existing_original_record_names, and those of one batch.                    *)
THEOREM OneRaw == Spec => []OriginalHasOneRaw
<1>1. Bound => OriginalHasOneRaw
  BY DEF Bound
<1> QED
  BY <1>1, BoundInit, BoundNext, PTL DEF Spec
-----------------------------------------------------------------------------
(* What may be deleted. *)

(* A record is bound to an original only if iCloud has one of the size and   *)
(* the hash of its RAW, and only bound records are on their way to a         *)
(* deletion or deleted.                                                      *)
OnlyMatchedAreDeleted ==
    \A a \in Assets :
        /\ db[a].original => remote[a] \in Assets
        /\ Has(a, {"ready", "approved", "deleted"}) => db[a].original

Matched == Bound /\ OnlyMatchedAreDeleted

(* A step after which each record that is on its way to a deletion, or       *)
(* deleted, was on its way before or is bound.                               *)
Advancing ==
    /\ UNCHANGED remote
    /\ \A a \in Assets :
          /\ db'[a].original = db[a].original
          /\ db'[a].state \in {"ready", "approved", "deleted"} =>
                Has(a, {"ready", "approved", "deleted"}) \/ db[a].original

LEMMA AdvancingKeeps ==
  ASSUME Matched, Advancing
  PROVE  OnlyMatchedAreDeleted'
BY DEF Matched, Advancing, OnlyMatchedAreDeleted, Has

LEMMA MatchedStartScan ==
  ASSUME Matched, StartScan
  PROVE  OnlyMatchedAreDeleted'
<1>1. PICK next \in [{a \in Assets : Has(a, {"failed", "unmatched", "retried"})} -> States] :
          /\ \A a \in DOMAIN next : next[a] \in States \ {"ready", "approved", "deleted"}
          /\ db' = [a \in Assets |-> IF a \in DOMAIN next
                                     THEN [db[a] EXCEPT !.state = next[a]] ELSE db[a]]
  BY Admitted DEF Matched
<1>2. \A a \in Assets :
         /\ db[a] \in Records
         /\ a \in DOMAIN next => next[a] \notin {"ready", "approved", "deleted"}
  BY <1>1 DEF Matched, Bound
<1>3. \A a \in Assets :
         /\ db'[a].original = db[a].original
         /\ db'[a].state = IF a \in DOMAIN next THEN next[a] ELSE db[a].state
  BY <1>1, <1>2 DEF Records
<1>4. Advancing
  BY <1>2, <1>3 DEF Advancing, StartScan, Has
<1> QED
  BY <1>4, AdvancingKeeps

LEMMA MatchedDeleteBatch ==
  ASSUME Matched, DeleteBatch
  PROVE  OnlyMatchedAreDeleted'
<1>1. PICK tried \in {Admit} : \E gone \in SUBSET (tried \ blocked) :
         \E approved \in SUBSET ((tried \ blocked) \ gone) :
          db' = [a \in Assets |->
                    IF a \in gone THEN [db[a] EXCEPT !.state = "deleted"]
                    ELSE IF a \in approved THEN [db[a] EXCEPT !.state = "approved"]
                    ELSE db[a]]
  BY DEF DeleteBatch
<1>2. PICK gone \in SUBSET (tried \ blocked), approved \in SUBSET (tried \ blocked) :
          db' = [a \in Assets |->
                    IF a \in gone THEN [db[a] EXCEPT !.state = "deleted"]
                    ELSE IF a \in approved THEN [db[a] EXCEPT !.state = "approved"]
                    ELSE db[a]]
  BY <1>1
<1>3. \A a \in tried : Has(a, {"ready", "approved"})
  BY DEF Admit, DeleteCandidates, Foremost
<1>4. \A a \in Assets :
         /\ db'[a].original = db[a].original
         /\ a \notin tried => db'[a].state = db[a].state
  BY <1>2 DEF Matched, Bound, Records
<1>5. Advancing
  BY <1>3, <1>4 DEF Advancing, DeleteBatch, Has
<1> QED
  BY <1>5, AdvancingKeeps

LEMMA MatchedPool ==
  ASSUME Matched, Pool
  PROVE  OnlyMatchedAreDeleted'
<1>1. PICK stopped \in SUBSET Queue : \E as \in [stopped -> States] :
          /\ \A a \in stopped : as[a] \in FailsAs(a)
          /\ db' = Worked(Queue, stopped, as)
  <2>1. PICK queue \in {Queue} : \E stopped \in SUBSET queue : \E as \in [stopped -> States] :
          /\ \A a \in stopped : as[a] \in FailsAs(a)
          /\ db' = Worked(queue, stopped, as)
    BY DEF Pool
  <2>2. queue = Queue
    OBVIOUS
  <2> HIDE DEF Queue, Worked, FailsAs
  <2> QED
    BY <2>1, <2>2
<1>0. PICK as \in [stopped -> States] :
          /\ \A a \in stopped : as[a] \in FailsAs(a)
          /\ db' = Worked(Queue, stopped, as)
  BY <1>1
<1>2. \A a \in Assets :
         /\ db'[a].original = db[a].original
         /\ a \notin Queue => db'[a].state = db[a].state
         /\ a \in stopped => db'[a].state = as[a]
         /\ a \in Queue \ stopped => db'[a].state = IF db[a].original THEN "ready"
                                                                      ELSE "verified"
  BY <1>0 DEF Matched, Bound, Records, Worked
<1>3. \A a \in stopped :
         as[a] \in {"ready", "approved", "deleted"} => Has(a, {"ready", "approved", "deleted"})
  BY <1>0 DEF FailsAs, Has
<1>4. ASSUME NEW a \in Assets, db'[a].state \in {"ready", "approved", "deleted"}
      PROVE  Has(a, {"ready", "approved", "deleted"}) \/ db[a].original
  <2>1. CASE a \in stopped
    BY <1>2, <1>3, <1>4, <2>1
  <2>2. CASE a \in Queue \ stopped
    BY <1>2, <1>4, <2>2
  <2>3. CASE a \notin Queue
    BY <1>2, <1>4, <2>3 DEF Has
  <2> QED
    BY <1>0, <2>1, <2>2, <2>3
<1>5. Advancing
  BY <1>2, <1>4 DEF Advancing, Pool
<1> QED
  BY <1>5, AdvancingKeeps

LEMMA MatchedApplied ==
  ASSUME Matched, NEW B, NEW heic, ~Refused(B, heic), db' = Applied(B, heic),
         UNCHANGED remote
  PROVE  OnlyMatchedAreDeleted'
<1>1. \A a \in Assets : db'[a] = IF a \in B THEN Resolution(B, heic, a) ELSE db[a]
  BY DEF Applied
<1>2. \A a \in Assets :
         \/ /\ Resolution(B, heic, a).state \in {"review", "no action"}
            /\ Resolution(B, heic, a).original = FALSE
         \/ Resolution(B, heic, a).original = TRUE /\ remote[a] \in Assets
  BY DEF Matched, Bound, Resolution, Record, Closed
<1> SUFFICES ASSUME NEW a \in Assets
             PROVE  /\ db'[a].original => remote[a] \in Assets
                    /\ db'[a].state \in {"ready", "approved", "deleted"} => db'[a].original
  BY DEF OnlyMatchedAreDeleted, Has
<1>3. CASE a \notin B
  BY <1>1, <1>3 DEF Matched, OnlyMatchedAreDeleted, Has
<1>4. CASE a \in B
  <2>1. db'[a] = Resolution(B, heic, a)
    BY <1>1, <1>4
  <2> HIDE DEF Resolution
  <2> QED
    BY <1>2, <2>1
<1> QED
  BY <1>3, <1>4

LEMMA MatchedNext ==
  ASSUME Matched, [Next]_vars
  PROVE  Matched'
<1>1. CASE UNCHANGED <<db, remote>>
  BY <1>1, BoundNext DEF Matched, OnlyMatchedAreDeleted, Has
<1>2. CASE (ResolveBatch \/ Reconcile) /\ ~UNCHANGED <<db, remote>>
  <2>1. \E B, heic : ~Refused(B, heic) /\ db' = Applied(B, heic) /\ UNCHANGED remote
    <3>1. CASE ResolveBatch
      BY <1>2, <3>1 DEF ResolveBatch
    <3>2. CASE Reconcile
      <4>1. PICK B \in Audited : \E heic : ~Refused(B, heic) /\ db' = Applied(B, heic)
        BY <3>2 DEF Reconcile
      <4> QED
        BY <3>2, <4>1 DEF Reconcile
    <3> QED
      BY <1>2, <3>1, <3>2
  <2>2. PICK B, heic : ~Refused(B, heic) /\ db' = Applied(B, heic) /\ UNCHANGED remote
    BY <2>1
  <2> QED
    BY <2>2, MatchedApplied, BoundNext DEF Matched
<1> QED
  BY <1>1, <1>2, MatchedStartScan, MatchedDeleteBatch, MatchedPool, BoundNext
     DEF Matched, Next, Step, Activate, StartResolving, Resolved, PassDone, DeferBatch,
         ScanFails, vars

(* Over scans, crashes and retries, only what was matched with an original in *)
(* iCloud is ever approved for a deletion or deleted.                         *)
THEOREM DeletedWereMatched == Spec => []OnlyMatchedAreDeleted
<1>1. Init => Matched
  <2>1. Init => OnlyMatchedAreDeleted
    BY DEF Init, OnlyMatchedAreDeleted, Has, Record
  <2> QED
    BY <2>1, BoundInit DEF Matched
<1>2. Matched => OnlyMatchedAreDeleted
  BY DEF Matched
<1> QED
  BY <1>1, <1>2, MatchedNext, PTL DEF Spec

-----------------------------------------------------------------------------
(* The caps of a scan. *)

(* At most n of a set are foremost in it: the number of those that come      *)
(* sooner is another one for each of them, and below n.                      *)
LEMMA ForemostFits ==
  ASSUME NEW S \in SUBSET Assets, NEW n \in Nat, NEW rank \in [Assets -> Nat]
  PROVE  /\ Foremost(n, S, rank) \subseteq S
         /\ IsFiniteSet(Foremost(n, S, rank))
         /\ Cardinality(Foremost(n, S, rank)) <= n
<1> DEFINE Sooner(a, b) == rank[a] < rank[b] \/ (rank[a] = rank[b] /\ a < b)
           P(a) == {b \in S : Sooner(b, a)}
           F == {a \in S : Cardinality(P(a)) < n}
           f == [a \in F |-> Cardinality(P(a))]
<1>1. Foremost(n, S, rank) = F
  BY DEF Foremost
<1>2. IsFiniteSet(S) /\ Assets \subseteq Nat
  <2>1. IsFiniteSet(1 .. N)
    BY RollingAssumption, FS_Interval
  <2>2. IsFiniteSet(Assets) /\ S \in SUBSET Assets
    BY <2>1 DEF Assets
  <2>3. IsFiniteSet(S)
    BY <2>2, FS_Subset
  <2> QED
    BY <2>3 DEF Assets
<1>3. \A a \in S : IsFiniteSet(P(a)) /\ Cardinality(P(a)) \in Nat
  BY <1>2, FS_Subset, FS_CardinalityType
<1>4. \A a, b \in S : a # b => Sooner(a, b) \/ Sooner(b, a)
  BY <1>2
<1>5. ASSUME NEW a \in S, NEW b \in S, Sooner(a, b)
      PROVE  Cardinality(P(a)) < Cardinality(P(b))
  <2>1. P(a) \subseteq P(b)
    <3>1. SUFFICES ASSUME NEW c \in S, Sooner(c, a) PROVE Sooner(c, b)
      OBVIOUS
    <3>2. /\ rank[a] \in Nat /\ rank[b] \in Nat /\ rank[c] \in Nat
          /\ a \in Nat /\ b \in Nat /\ c \in Nat
      BY <1>2
    <3>3. /\ rank[a] < rank[b] \/ (rank[a] = rank[b] /\ a < b)
          /\ rank[c] < rank[a] \/ (rank[c] = rank[a] /\ c < a)
      BY <1>5, <3>1
    <3> QED
      BY <3>2, <3>3
  <2>2. a \in P(b) /\ a \notin P(a)
    BY <1>2, <1>5
  <2>3. P(a) # P(b)
    BY <2>2
  <2>4. Cardinality(P(a)) <= Cardinality(P(b)) /\ Cardinality(P(a)) # Cardinality(P(b))
    BY <2>1, <2>3, <1>3, FS_Subset
  <2>5. Cardinality(P(a)) \in Nat /\ Cardinality(P(b)) \in Nat
    BY <1>3
  <2> HIDE DEF P
  <2> QED
    BY <2>4, <2>5
<1> HIDE DEF Sooner, P
<1>6. f \in [F -> 0 .. n - 1]
  BY <1>3
<1>7. \A a, b \in F : f[a] = f[b] => a = b
  BY <1>3, <1>4, <1>5
<1>8. f \in Injection(F, 0 .. n - 1)
  BY <1>6, <1>7 DEF Injection, IsInjective
<1>9. IsFiniteSet(0 .. n - 1) /\ Cardinality(0 .. n - 1) <= n
  <2>1. 0 \in Int /\ n - 1 \in Int
    OBVIOUS
  <2> QED
    BY <2>1, FS_Interval
<1>10. IsFiniteSet(F) /\ Cardinality(F) <= Cardinality(0 .. n - 1)
  BY <1>8, <1>9, FS_Injection
<1>11. Cardinality(F) <= n
  BY <1>9, <1>10, FS_CardinalityType
<1> QED
  BY <1>1, <1>10, <1>11

(* What the scan keeps of its attempts: the history counts those that were   *)
(* admitted, once each, and there is room for what is admitted.              *)
Capped ==
    /\ admitted \subseteq Assets
    /\ Cardinality(admitted) <= Limit
    /\ requests = [a \in Assets |-> IF a \in admitted THEN 1 ELSE 0]

(* No pass starts a conversion that the scan may not start any more. *)
ConversionsFitInScan == counts.conversions \in 0 .. MaxConversions

Counts == [pass : Nat, conversions : 0 .. MaxConversions,
           progress : BOOLEAN, moved : BOOLEAN, failure : BOOLEAN]

Counted == counts \in Counts

LEMMA CappedInit ==
  ASSUME admitted = {}, requests = [a \in Assets |-> 0]
  PROVE  Capped
BY FS_EmptySet, RollingAssumption DEF Capped

LEMMA CappedEndScan == EndScan => Capped'
BY FS_EmptySet, RollingAssumption DEF Capped, EndScan

(* What is admitted is new, and fits. *)
LEMMA AdmitFits ==
  ASSUME Capped
  PROVE  /\ Admit \subseteq Assets \ admitted
         /\ Cardinality(admitted \union Admit) <= Limit
<1>1. IsFiniteSet(admitted) /\ Cardinality(admitted) \in Nat
  <2>1. IsFiniteSet(Assets)
    BY RollingAssumption, FS_Interval DEF Assets
  <2> QED
    BY <2>1, FS_Subset, FS_CardinalityType DEF Capped
<1>2. Limit - Cardinality(admitted) \in Nat
  BY <1>1, RollingAssumption DEF Capped
<1>3. Unapproved \in [Assets -> Nat]
  BY DEF Unapproved
<1>4. DeleteCandidates \ admitted \in SUBSET Assets
  BY DEF DeleteCandidates, Foremost
<1>5. /\ Admit \subseteq DeleteCandidates \ admitted
      /\ IsFiniteSet(Admit)
      /\ Cardinality(Admit) <= Limit - Cardinality(admitted)
  BY <1>2, <1>3, <1>4, ForemostFits DEF Admit
<1>6. admitted \intersect Admit = {}
  BY <1>5
<1>7. Cardinality(admitted \union Admit)
        = Cardinality(admitted) + Cardinality(Admit) - Cardinality(admitted \intersect Admit)
  BY <1>1, <1>5, FS_Union
<1>8. Cardinality(admitted \intersect Admit) = 0 /\ Cardinality(Admit) \in Nat
  BY <1>5, <1>6, FS_EmptySet, FS_CardinalityType
<1> QED
  BY <1>1, <1>4, <1>5, <1>7, <1>8, RollingAssumption

LEMMA CappedDeleteBatch ==
  ASSUME Capped, DeleteBatch
  PROVE  Capped'
<1>1. /\ admitted' = admitted \union Admit
      /\ requests' = [a \in Assets |-> IF a \in Admit THEN requests[a] + 1 ELSE requests[a]]
  <2>1. PICK tried \in {Admit} :
           /\ admitted' = admitted \union tried
           /\ requests' = [a \in Assets |-> IF a \in tried THEN requests[a] + 1
                                                          ELSE requests[a]]
    <3>1. PICK tried \in {Admit} : \E gone \in SUBSET (tried \ blocked) :
             /\ admitted' = admitted \union tried
             /\ requests' = [a \in Assets |-> IF a \in tried THEN requests[a] + 1
                                                            ELSE requests[a]]
      BY DEF DeleteBatch
    <3> QED
      BY <3>1
  <2>2. tried = Admit
    OBVIOUS
  <2> HIDE DEF Admit
  <2> QED
    BY <2>1, <2>2
<1>2. Admit \subseteq Assets \ admitted /\ Cardinality(admitted \union Admit) <= Limit
  BY AdmitFits
<1>3. requests' = [a \in Assets |-> IF a \in admitted' THEN 1 ELSE 0]
  BY <1>1, <1>2 DEF Capped
<1> QED
  BY <1>1, <1>2, <1>3 DEF Capped

LEMMA CappedNext ==
  ASSUME Capped, [Next]_vars
  PROVE  Capped'
<1>1. CASE UNCHANGED <<admitted, requests>>
  BY <1>1 DEF Capped
<1>2. CASE DeleteBatch
  BY <1>2, CappedDeleteBatch
<1>3. CASE EndScan
  BY <1>3, CappedEndScan
<1> QED
  BY <1>1, <1>2, <1>3
     DEF Next, Step, StartScan, Activate, StartResolving, Pool, ResolveBatch, Resolved,
         PassDone, DeferBatch, ScanFails, Reconcile, vars, scanVars

LEMMA CappedFits == Capped => DeletesFitInScan
<1> SUFFICES ASSUME Capped PROVE DeletesFitInScan
  OBVIOUS
<1>1. {a \in Assets : requests[a] > 0} = admitted
  BY DEF Capped
<1> QED
  BY <1>1 DEF Capped, DeletesFitInScan

(* All delete batches of the passes of a scan together stay within            *)
(* max_lifecycle_per_scan, and no asset is tried twice                        *)
(* (admit_rolling_lifecycle_delete_asset_ids).                                *)
THEOREM DeletesFit == Spec => []DeletesFitInScan
<1>1. Init => Capped
  BY CappedInit DEF Init
<1> QED
  BY <1>1, CappedNext, CappedFits, PTL DEF Spec

LEMMA CountedEndScan == EndScan => counts' \in Counts
BY RollingAssumption DEF EndScan, Zero, Counts

(* Of the queue, at most the conversions that are left convert. *)
LEMMA QueueFits ==
  ASSUME counts \in Counts
  PROVE  counts.conversions + Cardinality(Queue \intersect ConversionReady)
            \in 0 .. MaxConversions
<1> DEFINE rank == [a \in Assets |-> Priority(a)]
           left == MaxConversions - counts.conversions
           converting == Foremost(left, Runnable \intersect ConversionReady, rank)
<1>1. left \in Nat /\ counts.conversions \in Nat
  BY RollingAssumption DEF Counts
<1>2. rank \in [Assets -> Nat]
  <2>1. \A a \in Assets : Priority(a) \in Nat
    BY DEF Priority
  <2> QED
    BY <2>1
<1>3. Runnable \intersect ConversionReady \in SUBSET Assets
  BY DEF Runnable
<1>4. IsFiniteSet(converting) /\ Cardinality(converting) <= left
  BY <1>1, <1>2, <1>3, ForemostFits
<1>5. Queue \subseteq (Runnable \ ConversionReady) \union converting
  BY DEF Queue, Foremost
<1>6. Queue \intersect ConversionReady \in SUBSET converting
  BY <1>5
<1> HIDE DEF converting
<1>7. /\ IsFiniteSet(Queue \intersect ConversionReady)
      /\ Cardinality(Queue \intersect ConversionReady) <= Cardinality(converting)
  BY <1>4, <1>6, FS_Subset
<1>8. /\ Cardinality(Queue \intersect ConversionReady) \in Nat
      /\ Cardinality(converting) \in Nat
  BY <1>4, <1>7, FS_CardinalityType
<1> QED
  BY <1>1, <1>4, <1>7, <1>8, RollingAssumption

LEMMA CountedPool ==
  ASSUME counts \in Counts, Pool
  PROVE  counts' \in Counts
<1>1. PICK p, m, f \in BOOLEAN :
         counts' = [counts EXCEPT
             !.conversions = @ + Cardinality(Queue \intersect ConversionReady),
             !.progress = p, !.moved = m, !.failure = f]
  BY DEF Pool, Counts
<1> QED
  BY <1>1, QueueFits DEF Counts

LEMMA CountedNext ==
  ASSUME Counted, [Next]_vars
  PROVE  Counted'
<1> USE DEF Counted
<1>1. CASE UNCHANGED counts
  BY <1>1
<1>2. CASE DeleteBatch
  BY <1>2 DEF DeleteBatch, Counts
<1>3. CASE Pool
  BY <1>3, CountedPool
<1>4. CASE ResolveBatch /\ ~EndScan
  BY <1>4 DEF ResolveBatch, Counts
<1>5. CASE DeferBatch
  BY <1>5 DEF DeferBatch, Counts
<1>6. CASE PassDone /\ ~EndScan
  <2>1. counts' = [Zero EXCEPT !.pass = counts.pass + 1,
                               !.conversions = counts.conversions]
    BY <1>6 DEF PassDone
  <2>2. counts.pass \in Nat /\ counts.conversions \in 0 .. MaxConversions
    BY DEF Counts
  <2>3. counts' = [pass |-> counts.pass + 1, conversions |-> counts.conversions,
                   progress |-> FALSE, moved |-> FALSE, failure |-> FALSE]
    BY <2>1 DEF Zero
  <2>4. counts.pass + 1 \in Nat
    BY <2>2
  <2> QED
    BY <2>2, <2>3, <2>4 DEF Counts
<1>7. CASE EndScan
  BY <1>7, CountedEndScan
<1> QED
  BY <1>1, <1>2, <1>3, <1>4, <1>5, <1>6, <1>7
     DEF Next, Step, StartScan, Activate, StartResolving, Resolved, ScanFails, Reconcile,
         vars, scanVars

(* The worker pools of a scan together start at most                          *)
(* max_conversions_per_scan conversions (rolling_lifecycle_worker_asset_ids). *)
THEOREM ConversionsFit == Spec => []ConversionsFitInScan
<1>1. Init => Counted
  BY RollingAssumption DEF Init, Zero, Counts, Counted
<1>2. Counted => ConversionsFitInScan
  BY DEF Counts, Counted, ConversionsFitInScan
<1> QED
  BY <1>1, <1>2, CountedNext, PTL DEF Spec
=============================================================================
