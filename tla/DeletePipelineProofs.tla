------------------------ MODULE DeletePipelineProofs ------------------------
(* Proofs about DeletePipeline, for any assets, zones, windows and bounds. *)
EXTENDS DeletePipeline, FiniteSetTheorems, TLAPS

LEMMA AgedType ==
  ASSUME NEW n \in Ages
  PROVE  Aged(n) \in Ages
BY ConstantsAssumption DEF Aged, Least, Ages

LEMMA SetType ==
  ASSUME NEW f \in [Assets -> States], NEW S, NEW s \in States
  PROVE  Set(f, S, s) \in [Assets -> States]
BY DEF Set

(* Every reachable state of the delete stage is well typed. *)
THEOREM TypeCorrect == Spec => []TypeOK
<1>1. Init => TypeOK
  BY ConstantsAssumption DEF Init, TypeOK, States, Steps, Ages
<1>2. TypeOK /\ [Next]_vars => TypeOK'
  <2> SUFFICES ASSUME TypeOK, [Next]_vars PROVE TypeOK'
    OBVIOUS
  <2> USE ConstantsAssumption DEF TypeOK
  <2>a. 0 \in Ages
    BY DEF Ages
  <2>b. "DeleteApproved" \in States /\ "Deleted" \in States
    BY DEF States
  <2>c. Steps = {"idle", "window", "lookup", "prepare", "submit", "send",
                 "ambiguous", "confirmed"}
    BY DEF Steps
  <2>d. ASSUME Fault PROVE faults' \in 0 .. MaxFaults
    BY <2>d DEF Fault
  <2>e. ASSUME EndScan, faults' \in 0 .. MaxFaults PROVE TypeOK'
    BY <2>e, <2>a, <2>c DEF EndScan, Forgotten, world
  <2>1. CASE StartScan
    <3>1. \A S \in Selections(db) : S \in SUBSET Assets
      BY DEF Selections
    <3> QED BY <2>1, <3>1, <2>c DEF StartScan, world
  <2>2. CASE NextWindow
    <3>1. \A W \in Windows : W \in SUBSET Assets
      BY DEF Windows
    <3> QED BY <2>2, <3>1, <2>c DEF NextWindow, world
  <2>3. ASSUME NEW z \in Zones, LookupApproved(z) PROVE TypeOK'
    BY <2>3, <2>d DEF LookupApproved, OfZone, world
  <2>4. CASE CommitReconciled
    <3>1. CASE PersistFails(confirmed)
      BY <3>1, <2>d, <2>e DEF PersistFails
    <3>2. CASE ~PersistFails(confirmed)
      <4>1. db' \in [Assets -> States] /\ manifest' \in [Assets -> States]
        BY <2>4, <3>2, <2>b, SetType DEF CommitReconciled, Persist
      <4> QED BY <2>4, <3>2, <4>1, <2>c DEF CommitReconciled, Persist, world
    <3> QED BY <3>1, <3>2
  <2>5. ASSUME NEW a \in Assets, PrepareItem(a) PROVE TypeOK'
    <3>1. faults' \in 0 .. MaxFaults
      BY <2>5, <2>d DEF PrepareItem
    <3> QED BY <2>5, <3>1, <2>a DEF PrepareItem, world
  <2>6. CASE PersistApprovals
    <3> DEFINE changed == {a \in prepared : manifest[a] # "DeleteApproved"}
    <3>1. CASE PersistFails(changed)
      BY <3>1, <2>d, <2>e DEF PersistFails
    <3>2. CASE ~PersistFails(changed)
      <4>1. db' \in [Assets -> States] /\ manifest' \in [Assets -> States]
        BY <2>6, <3>2, <2>b, SetType DEF PersistApprovals, Persist
      <4> QED BY <2>6, <3>2, <4>1, <2>c DEF PersistApprovals, Persist, world
    <3> QED BY <3>1, <3>2
  <2>7. ASSUME NEW z \in Zones, LiveCheck(z) PROVE TypeOK'
    BY <2>7, <2>c DEF LiveCheck, OfZone, world
  <2>8. CASE PreflightFails
    BY <2>8, <2>c DEF PreflightFails, world
  <2>9. CASE SendAnswered
    BY <2>9, <2>c DEF SendAnswered, Set
  <2>10. CASE SendAmbiguous
    <3>1. remote' \in [Assets -> {"present", "edited", "deleted"}]
      BY <2>10 DEF SendAmbiguous, Set
    <3>2. late' \in SUBSET SUBSET Assets /\ faults' \in 0 .. MaxFaults
      BY <2>10, <2>d DEF SendAmbiguous
    <3> QED BY <2>10, <3>1, <3>2, <2>c DEF SendAmbiguous
  <2>11. CASE LookupAfterSend
    BY <2>11, <2>c, <2>d DEF LookupAfterSend, world
  <2>12. CASE CommitConfirmed
    <3>1. CASE PersistFails(confirmed)
      BY <3>1, <2>d, <2>e DEF PersistFails
    <3>2. CASE ~PersistFails(confirmed)
      <4>1. db' \in [Assets -> States] /\ manifest' \in [Assets -> States]
        BY <2>12, <3>2, <2>b, SetType DEF CommitConfirmed, Persist
      <4> QED BY <2>12, <3>2, <4>1, <2>c DEF CommitConfirmed, Persist, world
    <3> QED BY <3>1, <3>2
  <2>13. CASE WindowDone
    BY <2>13, <2>c DEF WindowDone, world
  <2>14. CASE Export
    BY <2>14, <2>e DEF Export
  <2>15. CASE Tick
    <3>1. tokenAge' \in [Assets -> Ages]
      BY <2>15, <2>a, AgedType DEF Tick
    <3>2. rawAge' \in [Assets -> {Intact} \union Ages]
      BY <2>15, AgedType DEF Tick
    <3> QED BY <2>15, <3>1, <3>2 DEF Tick
  <2>16. CASE Crash
    BY <2>16, <2>d, <2>e DEF Crash
  <2>17. ASSUME NEW S \in late, LateRequest(S) PROVE TypeOK'
    BY <2>17 DEF LateRequest, Set, scan
  <2>18. ASSUME NEW a \in Assets, OtherClient(a) PROVE TypeOK'
    BY <2>18 DEF OtherClient, scan
  <2>19. ASSUME NEW a \in Assets, RawChanges(a) PROVE TypeOK'
    BY <2>19, <2>a DEF RawChanges, scan
  <2>20. CASE UNCHANGED vars
    BY <2>20 DEF vars, world, scan
  <2> QED
    BY <2>1, <2>2, <2>3, <2>4, <2>5, <2>6, <2>7, <2>8, <2>9, <2>10, <2>11, <2>12,
       <2>13, <2>14, <2>15, <2>16, <2>17, <2>18, <2>19, <2>20
       DEF Next, Monitor, Environment
<1> QED BY <1>1, <1>2, PTL DEF Spec

-----------------------------------------------------------------------------
(* Where the assets of a scan are, and why: what is confirmed is gone and   *)
(* approved, what is about to be sent is approved, and a request under way  *)
(* names nothing that is not approved or already recorded.                  *)
DeletionInv ==
    /\ TypeOK
    /\ manifest = db
    /\ \A a \in Assets : db[a] = "Deleted" => remote[a] = "deleted"
    /\ \A S \in late : \A a \in S : db[a] \in {"DeleteApproved", "Deleted"}
    /\ \A a \in confirmed : db[a] = "DeleteApproved" /\ remote[a] = "deleted"
    /\ \A a \in group : db[a] = "DeleteApproved"
    /\ prepared \intersect group = {}
    /\ pc \notin {"lookup", "confirmed"} => confirmed = {}
    /\ pc \in {"idle", "window", "lookup"} => prepared = {}
    /\ pc \in {"idle", "window", "lookup", "prepare", "submit"} => group = {}
    /\ pc = "lookup" => \A a \in todo : db[a] = "DeleteApproved"
    /\ pc = "prepare" => \A a \in prepared : db[a] # "Deleted"
    /\ pc \in {"submit", "send", "ambiguous", "confirmed"}
         => \A a \in prepared : db[a] = "DeleteApproved"
    /\ pc = "confirmed" => confirmed \subseteq group

LEMMA DeletionInvStep == DeletionInv /\ TypeOK' /\ [Next]_vars => DeletionInv'
<1> SUFFICES ASSUME DeletionInv, TypeOK', [Next]_vars PROVE DeletionInv'
  OBVIOUS
<1> USE DEF DeletionInv
<1>a. ASSUME EndScan PROVE DeletionInv'
  BY <1>a DEF EndScan, Forgotten, world
<1>1. CASE StartScan
  BY <1>1 DEF StartScan, world
<1>2. CASE NextWindow
  BY <1>2 DEF NextWindow, Windows, world
<1>3. ASSUME NEW z \in Zones, LookupApproved(z) PROVE DeletionInv'
  <2>1. OfZone(todo, z) \subseteq todo
    BY DEF OfZone
  <2>2. \A a \in confirmed' : db[a] = "DeleteApproved" /\ remote[a] = "deleted"
    BY <1>3, <2>1 DEF LookupApproved, In
  <2>3. /\ db' = db /\ remote' = remote /\ late' = late /\ pc = "lookup" /\ pc' = pc
        /\ manifest' = manifest /\ prepared' = prepared /\ group' = group
        /\ todo' \subseteq todo
    BY <1>3 DEF LookupApproved, world
  <2> QED BY <2>2, <2>3
<1>4. CASE CommitReconciled
  <2>1. CASE PersistFails(confirmed)
    BY <2>1, <1>a DEF PersistFails
  <2>2. CASE ~PersistFails(confirmed)
    <3>1. /\ Persist(confirmed, "Deleted") /\ pc = "lookup" /\ pc' = "prepare"
          /\ confirmed' = {} /\ prepared' = prepared /\ group' = group
      BY <1>4, <2>2 DEF CommitReconciled
    <3>2. /\ manifest' = db' /\ remote' = remote /\ late' = late
          /\ \A a \in Assets : db'[a] = IF a \in confirmed THEN "Deleted" ELSE db[a]
      BY <3>1 DEF Persist, Set, world, TypeOK
    <3> QED BY <3>1, <3>2 DEF TypeOK
  <2> QED BY <2>1, <2>2
<1>5. ASSUME NEW a \in Assets, PrepareItem(a) PROVE DeletionInv'
  <2>1. /\ db' = db /\ remote' = remote /\ late' = late /\ pc = "prepare" /\ pc' = pc
        /\ manifest' = manifest /\ confirmed' = confirmed /\ group' = group
    BY <1>5 DEF PrepareItem, world
  <2>2. \A b \in prepared' : db[b] # "Deleted"
    BY <1>5 DEF PrepareItem
  <2> QED BY <2>1, <2>2
<1>6. CASE PersistApprovals
  <2> DEFINE changed == {a \in prepared : manifest[a] # "DeleteApproved"}
  <2>1. CASE PersistFails(changed)
    BY <2>1, <1>a DEF PersistFails
  <2>2. CASE ~PersistFails(changed)
    <3>1. /\ Persist(changed, "DeleteApproved") /\ pc = "prepare" /\ pc' = "submit"
          /\ confirmed' = confirmed /\ prepared' = prepared /\ group' = group
      BY <1>6, <2>2 DEF PersistApprovals
    <3>2. /\ manifest' = db' /\ remote' = remote /\ late' = late
          /\ \A a \in Assets :
                db'[a] = IF a \in changed THEN "DeleteApproved" ELSE db[a]
      BY <3>1 DEF Persist, Set, world, TypeOK
    <3> QED BY <3>1, <3>2 DEF TypeOK
  <2> QED BY <2>1, <2>2
<1>7. ASSUME NEW z \in Zones, LiveCheck(z) PROVE DeletionInv'
  <2>1. /\ db' = db /\ remote' = remote /\ late' = late /\ pc = "submit"
        /\ manifest' = manifest /\ confirmed' = confirmed
        /\ prepared' = prepared \ OfZone(prepared, z)
        /\ \/ pc' = "send" /\ group' = OfZone(prepared, z)
           \/ pc' = "submit" /\ group' = group
    BY <1>7 DEF LiveCheck, world
  <2>2. OfZone(prepared, z) \subseteq prepared
    BY DEF OfZone
  <2> QED BY <2>1, <2>2
<1>8. CASE PreflightFails
  BY <1>8 DEF PreflightFails, world
<1>9. CASE SendAnswered
  <2>1. \A a \in Assets : remote'[a] = IF a \in group THEN "deleted" ELSE remote[a]
    BY <1>9 DEF SendAnswered, Set
  <2> QED BY <1>9, <2>1 DEF SendAnswered, TypeOK
<1>10. CASE SendAmbiguous
  <2>1. \A a \in Assets : remote[a] = "deleted" => remote'[a] = "deleted"
    BY <1>10 DEF SendAmbiguous, Set
  <2>2. \A S \in late' : S \in late \/ S = group
    BY <1>10 DEF SendAmbiguous
  <2> QED BY <1>10, <2>1, <2>2 DEF SendAmbiguous, TypeOK
<1>11. CASE LookupAfterSend
  BY <1>11 DEF LookupAfterSend, In, world
<1>12. CASE CommitConfirmed
  <2>1. CASE PersistFails(confirmed)
    BY <2>1, <1>a DEF PersistFails
  <2>2. CASE ~PersistFails(confirmed)
    <3>1. /\ Persist(confirmed, "Deleted") /\ pc = "confirmed" /\ pc' = "submit"
          /\ confirmed' = {} /\ prepared' = prepared /\ group' = {}
      BY <1>12, <2>2 DEF CommitConfirmed
    <3>2. /\ manifest' = db' /\ remote' = remote /\ late' = late
          /\ \A a \in Assets : db'[a] = IF a \in confirmed THEN "Deleted" ELSE db[a]
      BY <3>1 DEF Persist, Set, world, TypeOK
    <3> QED BY <3>1, <3>2 DEF TypeOK
  <2> QED BY <2>1, <2>2
<1>13. CASE WindowDone
  BY <1>13 DEF WindowDone, world
<1>14. CASE Export
  BY <1>14, <1>a DEF Export
<1>15. CASE Tick
  BY <1>15 DEF Tick
<1>16. CASE Crash
  BY <1>16, <1>a DEF Crash
<1>17. ASSUME NEW S \in late, LateRequest(S) PROVE DeletionInv'
  <2>1. \A a \in Assets : remote[a] = "deleted" => remote'[a] = "deleted"
    BY <1>17 DEF LateRequest, Set
  <2> QED BY <1>17, <2>1 DEF LateRequest, scan, TypeOK
<1>18. ASSUME NEW a \in Assets, OtherClient(a) PROVE DeletionInv'
  <2>1. \A b \in Assets : remote[b] = "deleted" => remote'[b] = "deleted"
    BY <1>18 DEF OtherClient, TypeOK
  <2> QED BY <1>18, <2>1 DEF OtherClient, scan, TypeOK
<1>19. ASSUME NEW a \in Assets, RawChanges(a) PROVE DeletionInv'
  BY <1>19 DEF RawChanges, scan
<1>20. CASE UNCHANGED vars
  BY <1>20 DEF vars, world, scan
<1> QED
  BY <1>1, <1>2, <1>3, <1>4, <1>5, <1>6, <1>7, <1>8, <1>9, <1>10, <1>11, <1>12,
     <1>13, <1>14, <1>15, <1>16, <1>17, <1>18, <1>19, <1>20
     DEF Next, Monitor, Environment

LEMMA DeletionInvHolds == Spec => []DeletionInv
<1>1. Init /\ TypeOK => DeletionInv
  BY DEF Init, DeletionInv
<1> QED BY <1>1, DeletionInvStep, TypeCorrect, PTL DEF Spec

(* The manifest of a scan never says more or less than the database. *)
THEOREM MemoryMatches == Spec => []MemoryMatchesStore
<1>1. DeletionInv => MemoryMatchesStore
  BY DEF DeletionInv, MemoryMatchesStore
<1> QED BY <1>1, DeletionInvHolds, PTL

-----------------------------------------------------------------------------
(* A token is made while the RAW is intact, so in a group that passed the  *)
(* live check no RAW has been changed for longer than its token is old.    *)
RawInv ==
    /\ TypeOK
    /\ pc = "send" => \A a \in group : rawAge[a] <= tokenAge[a]

LEMMA RawInvStep == RawInv /\ TypeOK' /\ [Next]_vars => RawInv'
<1> SUFFICES ASSUME RawInv, TypeOK', [Next]_vars, pc' = "send"
             PROVE  \A a \in group' : rawAge'[a] <= tokenAge'[a]
  BY DEF RawInv
<1> USE DEF RawInv
<1>1. ASSUME NEW z \in Zones, LiveCheck(z)
      PROVE  \A a \in group' : rawAge'[a] <= tokenAge'[a]
  <2>1. pc = "submit" /\ rawAge' = rawAge /\ tokenAge' = tokenAge
    BY <1>1 DEF LiveCheck, world
  <2>2. \A a \in group' : rawAge[a] = Intact
    BY <1>1, <2>1 DEF LiveCheck
  <2> QED BY <2>1, <2>2, ConstantsAssumption DEF TypeOK, Intact, Ages
<1>2. CASE Tick
  <2>1. pc = "send" /\ group' = group
    BY <1>2 DEF Tick
  <2> SUFFICES ASSUME NEW a \in group PROVE rawAge'[a] <= tokenAge'[a]
    BY <2>1
  <2>2. rawAge[a] <= tokenAge[a] /\ rawAge[a] \in {Intact} \union Ages /\ tokenAge[a] \in Ages
    BY <2>1 DEF TypeOK
  <2>3. rawAge'[a] = IF rawAge[a] = Intact THEN Intact ELSE Aged(rawAge[a])
    BY <1>2 DEF Tick, TypeOK
  <2>4. tokenAge'[a] = Aged(tokenAge[a])
    BY <1>2 DEF Tick, TypeOK
  <2> QED BY <2>2, <2>3, <2>4, ConstantsAssumption DEF Aged, Least, Intact, Ages
<1>3. ASSUME NEW b \in Assets, RawChanges(b)
      PROVE  \A a \in group' : rawAge'[a] <= tokenAge'[a]
  <2>1. /\ pc = "send" /\ group' = group /\ tokenAge' = tokenAge
        /\ \A a \in Assets : rawAge'[a] = IF a = b THEN 0 ELSE rawAge[a]
    BY <1>3 DEF RawChanges, scan, TypeOK
  <2> QED BY <2>1, ConstantsAssumption DEF TypeOK, Ages
<1>4. CASE ~Tick /\ ~(\E z \in Zones : LiveCheck(z)) /\ ~(\E b \in Assets : RawChanges(b))
  <2>1. pc = "send" /\ group' = group /\ tokenAge' = tokenAge /\ rawAge' = rawAge
    BY <1>4 DEF Next, Monitor, Environment, StartScan, NextWindow, LookupApproved,
        CommitReconciled, PrepareItem, PersistApprovals, PersistFails, PreflightFails,
        SendAnswered, SendAmbiguous, LookupAfterSend, CommitConfirmed, WindowDone,
        Export, EndScan, Crash, LateRequest, OtherClient, vars, scan, world
  <2> QED BY <2>1
<1> QED BY <1>1, <1>2, <1>3, <1>4

(* The RAW of every asset of a request was intact at most MaxAge before it. *)
THEOREM RawWasSeen == Spec => RawSeenRecently
<1>1. Init /\ TypeOK => RawInv
  BY DEF Init, RawInv
<1>2. RawInv /\ [Next]_vars
        => (pc = "send" /\ pc' \in {"confirmed", "ambiguous"}
              => \A a \in group : rawAge[a] <= MaxAge)
  <2> SUFFICES ASSUME RawInv, Next, pc = "send", pc' \in {"confirmed", "ambiguous"},
                      NEW a \in group
               PROVE  rawAge[a] <= MaxAge
    BY DEF vars, scan
  <2>1. Fresh(group)
    BY DEF Next, Monitor, Environment, StartScan, NextWindow, LookupApproved,
        CommitReconciled, PrepareItem, PersistApprovals, PreflightFails, LiveCheck,
        SendAnswered, SendAmbiguous, LookupAfterSend, CommitConfirmed, WindowDone,
        Export, EndScan, Crash, LateRequest, OtherClient, RawChanges, Tick, scan, world
  <2>2. tokenAge[a] \in Int /\ rawAge[a] \in Int /\ MaxAge \in Int
    BY ConstantsAssumption DEF RawInv, TypeOK, Ages, Intact
  <2> QED BY <2>1, <2>2 DEF Fresh, RawInv
<1>3. Spec => []RawInv
  BY <1>1, RawInvStep, TypeCorrect, PTL DEF Spec
<1> QED BY <1>2, <1>3, PTL DEF Spec, RawSeenRecently

-----------------------------------------------------------------------------
(* The assets that are approved or that the scan may still approve. *)
Admitted == In(db, "DeleteApproved") \union queue \union todo \union remaining \union prepared

AdmissionInv ==
    /\ TypeOK
    /\ pc = "idle" => queue = {} /\ todo = {} /\ remaining = {} /\ prepared = {}
    /\ Cardinality(Admitted) <= MaxPerScan

LEMMA SmallerSet ==
  ASSUME NEW S \in SUBSET Assets, NEW T \in SUBSET S
  PROVE  /\ Cardinality(S) \in Nat
         /\ Cardinality(T) \in Nat
         /\ Cardinality(T) <= Cardinality(S)
<1>1. IsFiniteSet(S)
  BY ConstantsAssumption, FS_Subset
<1> QED BY <1>1, FS_Subset, FS_CardinalityType

(* A selection holds all the approved assets, or nothing but approved ones. *)
LEMMA ApprovedFirst ==
  ASSUME TypeOK, NEW S \in Selections(db)
  PROVE  \/ In(db, "DeleteApproved") \subseteq S
         \/ S \subseteq In(db, "DeleteApproved")
<1> SUFFICES ASSUME NEW b \in In(db, "DeleteApproved"), b \notin S, NEW a \in S
             PROVE  a \in In(db, "DeleteApproved")
  OBVIOUS
<1> DEFINE C == {c \in Assets : db[c] # "Deleted"}
<1>1. a \in C /\ a \in Assets
  BY DEF Selections
<1>2. b \in C
  BY DEF In
<1>3. Priority(db[a]) <= Priority(db[b])
  BY <1>1, <1>2 DEF Selections
<1>4. db[b] = "DeleteApproved" /\ db[a] \in States /\ db[a] # "Deleted"
  BY <1>1 DEF In, TypeOK
<1> QED BY <1>1, <1>3, <1>4 DEF Priority, In, States

LEMMA SelectionSize ==
  ASSUME NEW S \in Selections(db)
  PROVE  S \in SUBSET Assets /\ Cardinality(S) <= MaxPerScan
<1> DEFINE C == {c \in Assets : db[c] # "Deleted"}
<1>1. S \in SUBSET Assets /\ Cardinality(S) = Least(MaxPerScan, Cardinality(C))
  BY DEF Selections
<1>2. Cardinality(C) \in Nat
  BY SmallerSet, C \in SUBSET Assets
<1> QED BY <1>1, <1>2, ConstantsAssumption DEF Least

LEMMA AdmissionStep == AdmissionInv /\ TypeOK' /\ [Next]_vars => AdmissionInv'
<1> SUFFICES ASSUME AdmissionInv, TypeOK', [Next]_vars PROVE AdmissionInv'
  OBVIOUS
<1> USE DEF AdmissionInv
<1>0. Admitted \in SUBSET Assets
  BY DEF Admitted, In, TypeOK
<1>a. ASSUME Admitted' \subseteq Admitted, pc' # "idle" PROVE AdmissionInv'
  <2>1. Cardinality(Admitted') \in Nat /\ Cardinality(Admitted) \in Nat
        /\ Cardinality(Admitted') <= Cardinality(Admitted)
    BY <1>0, <1>a, SmallerSet
  <2> QED BY <1>a, <2>1, ConstantsAssumption
<1>b. ASSUME EndScan PROVE AdmissionInv'
  <2>1. Admitted' \subseteq Admitted
    BY <1>b DEF Admitted, In, EndScan, Forgotten
  <2>2. Cardinality(Admitted') \in Nat /\ Cardinality(Admitted) \in Nat
        /\ Cardinality(Admitted') <= Cardinality(Admitted)
    BY <1>0, <2>1, SmallerSet
  <2> QED BY <1>b, <2>2, ConstantsAssumption DEF EndScan, Forgotten
<1>1. CASE StartScan
  <2>1. PICK S \in Selections(db) : queue' \subseteq S
    BY <1>1 DEF StartScan
  <2>2. Admitted' = In(db, "DeleteApproved") \union queue'
    BY <1>1 DEF StartScan, Admitted, In
  <2>3. S \in SUBSET Assets /\ Cardinality(S) <= MaxPerScan
    BY SelectionSize
  <2>4. Admitted' \subseteq S \/ Admitted' = Admitted
    BY <1>1, <2>1, <2>2, ApprovedFirst DEF StartScan, Admitted
  <2>5. Admitted' \subseteq S => Cardinality(Admitted') <= MaxPerScan
    BY <2>3, SmallerSet, ConstantsAssumption
  <2> QED BY <1>1, <2>4, <2>5 DEF StartScan
<1>2. CASE NextWindow
  BY <1>2, <1>a DEF NextWindow, Windows, Admitted, In
<1>3. ASSUME NEW z \in Zones, LookupApproved(z) PROVE AdmissionInv'
  BY <1>3, <1>a DEF LookupApproved, OfZone, Admitted, In
<1>4. CASE CommitReconciled
  <2>1. CASE PersistFails(confirmed)
    BY <2>1, <1>b DEF PersistFails
  <2>2. CASE ~PersistFails(confirmed)
    <3>1. \A a \in Assets : db'[a] = IF a \in confirmed THEN "Deleted" ELSE db[a]
      BY <1>4, <2>2 DEF CommitReconciled, Persist, Set
    <3>2. Admitted' \subseteq Admitted /\ pc' # "idle"
      BY <1>4, <2>2, <3>1 DEF CommitReconciled, Admitted, In
    <3> QED BY <3>2, <1>a
  <2> QED BY <2>1, <2>2
<1>5. ASSUME NEW a \in Assets, PrepareItem(a) PROVE AdmissionInv'
  BY <1>5, <1>a DEF PrepareItem, Admitted, In
<1>6. CASE PersistApprovals
  <2> DEFINE changed == {a \in prepared : manifest[a] # "DeleteApproved"}
  <2>1. CASE PersistFails(changed)
    BY <2>1, <1>b DEF PersistFails
  <2>2. CASE ~PersistFails(changed)
    <3>1. \A a \in Assets : db'[a] = IF a \in changed THEN "DeleteApproved" ELSE db[a]
      BY <1>6, <2>2 DEF PersistApprovals, Persist, Set
    <3>2. Admitted' \subseteq Admitted /\ pc' # "idle"
      BY <1>6, <2>2, <3>1 DEF PersistApprovals, Admitted, In
    <3> QED BY <3>2, <1>a
  <2> QED BY <2>1, <2>2
<1>7. ASSUME NEW z \in Zones, LiveCheck(z) PROVE AdmissionInv'
  BY <1>7, <1>a DEF LiveCheck, Admitted, In
<1>8. CASE PreflightFails \/ SendAnswered \/ SendAmbiguous \/ LookupAfterSend \/ WindowDone
  BY <1>8, <1>a DEF PreflightFails, SendAnswered, SendAmbiguous, LookupAfterSend,
                    WindowDone, Admitted, In
<1>9. CASE CommitConfirmed
  <2>1. CASE PersistFails(confirmed)
    BY <2>1, <1>b DEF PersistFails
  <2>2. CASE ~PersistFails(confirmed)
    <3>1. \A a \in Assets : db'[a] = IF a \in confirmed THEN "Deleted" ELSE db[a]
      BY <1>9, <2>2 DEF CommitConfirmed, Persist, Set
    <3>2. Admitted' \subseteq Admitted /\ pc' # "idle"
      BY <1>9, <2>2, <3>1 DEF CommitConfirmed, Admitted, In
    <3> QED BY <3>2, <1>a
  <2> QED BY <2>1, <2>2
<1>10. CASE Export \/ Crash
  BY <1>10, <1>b DEF Export, Crash
<1>11. ASSUME UNCHANGED <<db, pc, queue, todo, remaining, prepared>> PROVE AdmissionInv'
  BY <1>11 DEF Admitted, In
<1>12. CASE Tick
  BY <1>12, <1>11 DEF Tick
<1>13. ASSUME NEW S \in late, LateRequest(S) PROVE AdmissionInv'
  BY <1>13, <1>11 DEF LateRequest, scan
<1>14. ASSUME NEW a \in Assets, OtherClient(a) \/ RawChanges(a) PROVE AdmissionInv'
  BY <1>14, <1>11 DEF OtherClient, RawChanges, scan
<1>15. CASE UNCHANGED vars
  BY <1>15, <1>11 DEF vars, scan
<1> QED
  BY <1>1, <1>2, <1>3, <1>4, <1>5, <1>6, <1>7, <1>8, <1>9, <1>10, <1>12, <1>13,
     <1>14, <1>15 DEF Next, Monitor, Environment

(* No scan approves more assets than fit in one scan, so every approved    *)
(* asset is in the next one and is reconciled there.                       *)
THEOREM ApprovedFit == Spec => []ApprovedFitInOneScan
<1>1. Init /\ TypeOK => AdmissionInv
  <2> SUFFICES ASSUME Init, TypeOK PROVE AdmissionInv
    OBVIOUS
  <2>1. Admitted = {}
    BY DEF Init, Admitted, In
  <2> QED BY <2>1, FS_EmptySet, ConstantsAssumption DEF AdmissionInv, Init
<1>2. AdmissionInv => ApprovedFitInOneScan
  <2> SUFFICES ASSUME AdmissionInv PROVE ApprovedFitInOneScan
    OBVIOUS
  <2>1. Admitted \in SUBSET Assets /\ In(db, "DeleteApproved") \in SUBSET Admitted
    BY DEF AdmissionInv, Admitted, In, TypeOK
  <2>2. Cardinality(In(db, "DeleteApproved")) <= Cardinality(Admitted)
        /\ Cardinality(In(db, "DeleteApproved")) \in Nat /\ Cardinality(Admitted) \in Nat
    BY <2>1, SmallerSet
  <2> QED BY <2>2, ConstantsAssumption DEF AdmissionInv, ApprovedFitInOneScan
<1> QED BY <1>1, <1>2, AdmissionStep, TypeCorrect, PTL DEF Spec

-----------------------------------------------------------------------------
LEMMA PersistRecords ==
  ASSUME DeletionInv, Persist(confirmed, "Deleted")
  PROVE  Abstract!Record(confirmed)
<1>1. confirmed \in SUBSET Assets
  BY DEF DeletionInv, TypeOK
<1> QED BY <1>1 DEF Persist, Set, world, DeletionInv, Abstract!Record

LEMMA RequestDeletes ==
  ASSUME DeletionInv, NEW S \in SUBSET Assets, Applicable(S),
         \A a \in S : db[a] \in {"DeleteApproved", "Deleted"},
         remote' = Set(remote, S, "deleted"), db' = db
  PROVE  Abstract!DeleteOriginals(S)
<1>1. \A a \in S : db[a] = "DeleteApproved" /\ remote[a] = "present"
  BY DEF Applicable, DeletionInv
<1> QED BY <1>1 DEF Set, Abstract!DeleteOriginals

(* Every step of the delete stage, of the service and of other clients is  *)
(* a step of SafeDeletion or changes neither the table nor the originals.  *)
THEOREM Implementation == Spec => ImplementsSafeDeletion
<1>1. Init => Abstract!Init
  BY DEF Init, Abstract!Init, Abstract!Undecided
<1>2. DeletionInv /\ [Next]_vars => [Abstract!Next]_Abstract!vars
  <2> SUFFICES ASSUME DeletionInv, [Next]_vars PROVE [Abstract!Next]_Abstract!vars
    OBVIOUS
  <2>a. ASSUME UNCHANGED <<db, remote>> PROVE [Abstract!Next]_Abstract!vars
    BY <2>a DEF Abstract!vars
  <2>b. confirmed \in SUBSET Assets /\ group \in SUBSET Assets
    BY DEF DeletionInv, TypeOK
  <2>1. CASE CommitReconciled \/ CommitConfirmed
    <3>1. PersistFails(confirmed) \/ Persist(confirmed, "Deleted")
      BY <2>1 DEF CommitReconciled, CommitConfirmed
    <3>2. ASSUME Persist(confirmed, "Deleted") PROVE Abstract!Next
      BY <3>2, <2>b, PersistRecords DEF Abstract!Next
    <3> QED BY <3>1, <3>2, <2>a DEF PersistFails, EndScan, world
  <2>2. CASE PersistApprovals
    <3> DEFINE changed == {a \in prepared : manifest[a] # "DeleteApproved"}
    <3>1. PersistFails(changed) \/ (Persist(changed, "DeleteApproved") /\ pc = "prepare")
      BY <2>2 DEF PersistApprovals
    <3>2. ASSUME Persist(changed, "DeleteApproved"), pc = "prepare" PROVE Abstract!Next
      <4>1. changed \in SUBSET Assets
        BY DEF DeletionInv, TypeOK
      <4>2. \A a \in changed : db[a] \in Abstract!Undecided
        BY <3>2, <4>1 DEF DeletionInv, TypeOK, States, Abstract!Undecided
      <4>3. Abstract!Approve(changed)
        BY <3>2, <4>2 DEF Persist, Set, world, Abstract!Approve
      <4> QED BY <4>1, <4>3 DEF Abstract!Next
    <3> QED BY <3>1, <3>2, <2>a DEF PersistFails, EndScan, world
  <2>3. CASE SendAnswered
    <3>1. Abstract!DeleteOriginals(group)
      BY <2>3, <2>b, RequestDeletes DEF SendAnswered, DeletionInv
    <3> QED BY <3>1, <2>b DEF Abstract!Next
  <2>4. CASE SendAmbiguous
    <3>1. db' = db
      BY <2>4 DEF SendAmbiguous
    <3>2. remote' = remote \/ (Applicable(group) /\ remote' = Set(remote, group, "deleted"))
      BY <2>4 DEF SendAmbiguous
    <3>3. ASSUME Applicable(group), remote' = Set(remote, group, "deleted")
          PROVE  Abstract!DeleteOriginals(group)
      BY <3>1, <3>3, <2>b, RequestDeletes DEF DeletionInv
    <3> QED BY <3>1, <3>2, <3>3, <2>a, <2>b DEF Abstract!Next
  <2>5. ASSUME NEW S \in late, LateRequest(S) PROVE [Abstract!Next]_Abstract!vars
    <3>1. S \in SUBSET Assets /\ \A a \in S : db[a] \in {"DeleteApproved", "Deleted"}
      BY DEF DeletionInv, TypeOK
    <3>2. db' = db /\ remote' = IF Applicable(S) THEN Set(remote, S, "deleted") ELSE remote
      BY <2>5 DEF LateRequest
    <3>3. ASSUME Applicable(S) PROVE Abstract!DeleteOriginals(S)
      BY <3>1, <3>2, <3>3, RequestDeletes
    <3> QED BY <3>1, <3>2, <3>3, <2>a DEF Abstract!Next
  <2>6. ASSUME NEW a \in Assets, OtherClient(a) PROVE [Abstract!Next]_Abstract!vars
    <3>1. Abstract!SomeoneElse(a)
      BY <2>6 DEF OtherClient, Abstract!SomeoneElse
    <3> QED BY <3>1 DEF Abstract!Next
  <2>7. ASSUME NEW z \in Zones, LookupApproved(z) \/ LiveCheck(z)
        PROVE  [Abstract!Next]_Abstract!vars
    BY <2>7, <2>a DEF LookupApproved, LiveCheck, world
  <2>8. ASSUME NEW a \in Assets, PrepareItem(a) \/ RawChanges(a)
        PROVE  [Abstract!Next]_Abstract!vars
    BY <2>8, <2>a DEF PrepareItem, RawChanges, world
  <2>9. CASE StartScan \/ NextWindow \/ PreflightFails \/ LookupAfterSend \/ WindowDone
             \/ Export \/ Tick \/ Crash \/ UNCHANGED vars
    BY <2>9, <2>a DEF StartScan, NextWindow, PreflightFails, LookupAfterSend, WindowDone,
                      Export, EndScan, Tick, Crash, vars, world
  <2> QED
    BY <2>1, <2>2, <2>3, <2>4, <2>5, <2>6, <2>7, <2>8, <2>9 DEF Next, Monitor, Environment
<1> QED BY <1>1, <1>2, DeletionInvHolds, PTL DEF Spec, ImplementsSafeDeletion, Abstract!Spec
=============================================================================
