------------------------ MODULE MigrationApplyProofs ------------------------
(***************************************************************************)
(* Proofs about MigrationApply and QuarantineRoots, for any references,    *)
(* layouts, roots and bounds.                                              *)
(*                                                                         *)
(* The inductive invariant says how far each phase has come: what the      *)
(* records hold (Lineage), where the files are (Files), what iCloud holds  *)
(* (Cloud) and what the run has done of its phase (Progress).              *)
(***************************************************************************)
EXTENDS QuarantineRoots, SequenceTheorems, TLAPS

Lineage ==
    /\ records[1].phase = records[2].phase
    /\ \A a \in Assets :
           /\ records[a].state = RequiredState(records[a].phase)
           /\ records[a].conversion = IF ~Since(Reset) THEN "old"
                                      ELSE IF Since(Converted) THEN "new" ELSE "none"
           /\ records[a].upload = IF ~Since(Reset) THEN "old"
                                  ELSE IF Since(UploadVerified) THEN "new" ELSE "none"
           /\ records[a].mirror = IF ~Since(Reset) THEN "old"
                                  ELSE IF Since(Mirrored) THEN "new" ELSE "none"

Files ==
    /\ \A m \in Members : source[m] = "sealed" <=> m \notin moved
    /\ \A m \in Members : source[m] = "normal" => m \in References /\ moved = Members
    /\ ~Since(DeleteConfirmed) => moved = {}
    /\ Since(Quarantined) =>
           moved = Members /\ \A r \in References : source[r] = "normal"
    /\ \A a \in Assets : output[a] # "none" => Since(Reset)
    /\ Since(Converted) => \A a \in Assets : output[a] = "made"
    /\ Since(Mirrored) => \A a \in Assets : mirror[a] = "full"

Cloud ==
    /\ Since(DeleteConfirmed) => live = {}
    /\ \A a \in Assets : uploads[a] <= 1 + late
    /\ Since(UploadVerified) => \A a \in Assets : uploads[a] > 0
    /\ \A a \in Assets : <<"upload", a>> \in pending => Since(UploadPrepared)
    /\ \A a \in Assets : <<"delete", a>> \in pending => Since(Prepared)

(* The run is in its phase, and what it has not to do any more is done.    *)
InPhase ==
    /\ ~Cohort(Complete)
    /\ Cohort(Prepared) => live \subseteq todo
    /\ Cohort(Reset) => \A a \in Assets : a \notin todo => output[a] = "made"
    /\ Cohort(UploadPrepared) =>
           \A a \in Assets : IF a \in todo THEN uploads[a] <= late ELSE uploads[a] > 0
    /\ Cohort(UploadVerified) => \A a \in Assets : a \in todo <=> mirror[a] # "full"

Finished ==
    /\ ~Cohort(Complete)
    /\ Cohort(Prepared) => live = {}
    /\ Cohort(DeleteConfirmed) =>
           moved = Members /\ \A r \in References : source[r] = "normal"
    /\ Cohort(Reset) => \A a \in Assets : output[a] = "made"
    /\ Cohort(UploadPrepared) => \A a \in Assets : uploads[a] > 0
    /\ Cohort(UploadVerified) => \A a \in Assets : mirror[a] = "full"

Progress ==
    /\ pc = "preflight" => ~Cohort(Complete)
    /\ pc = "work" => InPhase
    /\ pc = "persist" => Finished
    /\ pc = "done" => Cohort(Complete) /\ checkpoint = records

IInv == TypeOK /\ Lineage /\ Files /\ Cloud /\ Progress

-----------------------------------------------------------------------------
LEMMA CandidateType ==
  ASSUME NEW r \in Records, r.phase # Complete
  PROVE  Candidate(r) \in Records
<1>1. r.phase + 1 \in Phases
  BY DEF Records, Phases, NoPhase, Complete
<1>2. \A s \in Records : s.phase + 1 \in Phases => Journalled(s) \in Records
  BY DEF Records, Journalled
<1>3. /\ ResetCandidate(r) \in Records /\ ResetCandidate(r).phase = r.phase
      /\ ConvertedCandidate(r) \in Records /\ ConvertedCandidate(r).phase = r.phase
      /\ UploadCandidate(r) \in Records /\ UploadCandidate(r).phase = r.phase
      /\ MirrorCandidate(r) \in Records /\ MirrorCandidate(r).phase = r.phase
  BY DEF Records, Generations, ResetCandidate, ConvertedCandidate, UploadCandidate,
         MirrorCandidate
<1> QED
  BY <1>1, <1>2, <1>3 DEF Candidate

(* What each phase changes in a record. *)
LEMMA CandidateFields ==
  ASSUME NEW r \in Records
  PROVE  LET c == Candidate(r) IN
         /\ c.phase = r.phase + 1
         /\ c.state = IF r.phase = Quarantined THEN "nas"
                      ELSE IF r.phase = Reset THEN "converted"
                      ELSE IF r.phase = UploadPrepared THEN "uploaded" ELSE r.state
         /\ c.conversion = IF r.phase = Quarantined THEN "none"
                           ELSE IF r.phase = Reset THEN "new" ELSE r.conversion
         /\ c.upload = IF r.phase = Quarantined THEN "none"
                       ELSE IF r.phase = UploadPrepared THEN "new" ELSE r.upload
         /\ c.mirror = IF r.phase = Quarantined THEN "none"
                       ELSE IF r.phase = UploadVerified THEN "new" ELSE r.mirror
BY DEF Records, Candidate, Journalled, ResetCandidate, ConvertedCandidate, UploadCandidate,
       MirrorCandidate, Quarantined, Reset, UploadPrepared, UploadVerified

(* The journals of the cohort are at one phase. *)
LEMMA OnePhase ==
  ASSUME TypeOK, Lineage
  PROVE  /\ records[1].phase \in Phases
         /\ \A p \in Phases : Cohort(p) <=> records[1].phase = p
         /\ \A p \in Phases : Since(p) <=> records[1].phase >= p
BY DEF TypeOK, Lineage, Cohort, Since, Assets, Records

LEMMA InitInv == Init => IInv
<1> SUFFICES ASSUME Init PROVE IInv
  OBVIOUS
<1> USE DEF Init, Assets, LegacyRecord
<1>1. TypeOK
  <2>1. LegacyRecord \in Records
    BY DEF Records, Phases, Generations, NoPhase, Complete
  <2> QED
    BY <2>1, MigrationAssumption DEF TypeOK, TempStates, OutputStates, MirrorStates
<1>2. Lineage
  BY DEF Lineage, Since, RequiredState, NoPhase, Reset, Converted, UploadPrepared
<1>3. Files
  BY DEF Files, Since, NoPhase, DeleteConfirmed, Quarantined, Reset, Converted, Mirrored
<1>4. Cloud
  BY DEF Cloud, Since, NoPhase, DeleteConfirmed, UploadVerified
<1>5. Progress
  BY DEF Progress
<1> QED
  BY <1>1, <1>2, <1>3, <1>4, <1>5 DEF IInv

LEMMA StepInv == IInv /\ [Next]_vars => IInv'
<1> SUFFICES ASSUME IInv, [Next]_vars PROVE IInv'
  OBVIOUS
<1> USE DEF IInv, Prepared, DeleteConfirmed, Quarantined, Reset, Converted, UploadPrepared,
            UploadVerified, Mirrored, Complete, NoPhase, Assets, stored, cloud, disk, device
<1>1. ASSUME NEW rec \in BOOLEAN, Start(rec) PROVE IInv'
  <2> USE <1>1 DEF Start
  <2>1. TypeOK'
    BY DEF TypeOK
  <2>2. Lineage' /\ Files' /\ Cloud'
    BY DEF Lineage, Files, Cloud, Since
  <2>3. Progress'
    BY DEF Progress, Cohort
  <2> QED BY <2>1, <2>2, <2>3
<1>2. ASSUME Preflight PROVE IInv'
  <2> USE <1>2 DEF Preflight, At, Exit
  <2>1. TypeOK'
    BY DEF TypeOK, Pending
  <2>2. Lineage' /\ Files' /\ Cloud'
    BY DEF Lineage, Files, Cloud, Since
  <2>3. Progress'
    BY OnePhase DEF Progress, Cohort, Since, WorkAccepts, CopiesWhole, OutputsFree, OutputsStand,
              Unambiguous, MirrorsFree, MirrorsStand, Pending, InPhase, Finished, Working, TypeOK, MirrorStates, Cloud, Made, Files
  <2> QED BY <2>1, <2>2, <2>3
<1>3. ASSUME Crash PROVE IInv'
  <2> USE <1>3 DEF Crash, Exit, Fault
  <2>1. TypeOK'
    BY DEF TypeOK
  <2>2. Lineage' /\ Files' /\ Cloud'
    BY DEF Lineage, Files, Cloud, Since
  <2>3. Progress'
    BY DEF Progress
  <2> QED BY <2>1, <2>2, <2>3
<1>4. ASSUME WorkDone PROVE IInv'
  <2> USE <1>4 DEF WorkDone, At
  <2>1. TypeOK'
    BY DEF TypeOK
  <2>2. Lineage' /\ Files' /\ Cloud'
    BY DEF Lineage, Files, Cloud, Since
  <2>3. Progress'
    BY DEF Progress, InPhase, Finished, Cohort, NormalAt, AtDestination, TypeOK, Members
  <2> QED BY <2>1, <2>2, <2>3
<1>5. ASSUME Persist PROVE IInv'
  <2> USE <1>5 DEF Persist, At
  <2>1. TypeOK'
    BY CandidateType, OnePhase DEF TypeOK, Progress, Finished, Cohort
  <2>2. records[1].phase \in Phases /\ records[1].phase # Complete
    BY OnePhase DEF Progress, Finished, Cohort
  <2>3. \A a \in Assets : records'[a] = Candidate(records[a]) /\ records[a] \in Records
    BY DEF TypeOK
  <2>5. \A a \in Assets : records[a].phase = records[1].phase /\ records'[a].phase = records[1].phase + 1
    BY <2>2, <2>3, CandidateFields DEF Lineage
  <2>4. Lineage'
    <3> DEFINE p == records[1].phase
    <3>1. \A k \in Phases : (Since(k) <=> p >= k) /\ (Since(k)' <=> p + 1 >= k)
      BY <2>2, <2>5 DEF Since, Phases, Lineage
    <3>2. \A a \in Assets : records'[a].state = RequiredState(records'[a].phase)
      BY <2>2, <2>3, <2>5, CandidateFields DEF Lineage, RequiredState, Phases
    <3>3. \A a \in Assets : records'[a].conversion = IF p + 1 < Reset THEN "old"
                                  ELSE IF p + 1 >= Converted THEN "new" ELSE "none"
      BY <2>2, <2>3, <2>5, <3>1, CandidateFields DEF Lineage, Phases
    <3>4. \A a \in Assets : records'[a].upload = IF p + 1 < Reset THEN "old"
                                  ELSE IF p + 1 >= UploadVerified THEN "new" ELSE "none"
      BY <2>2, <2>3, <2>5, <3>1, CandidateFields DEF Lineage, Phases
    <3>5. \A a \in Assets : records'[a].mirror = IF p + 1 < Reset THEN "old"
                                  ELSE IF p + 1 >= Mirrored THEN "new" ELSE "none"
      BY <2>2, <2>3, <2>5, <3>1, CandidateFields DEF Lineage, Phases
    <3>6. Reset \in Phases /\ Converted \in Phases /\ UploadVerified \in Phases /\ Mirrored \in Phases
      BY DEF Phases
    <3>7. p \in Int
      BY <2>2 DEF Phases
    <3> HIDE DEF p
    <3> QED
      BY <2>5, <3>1, <3>2, <3>3, <3>4, <3>5, <3>6, <3>7 DEF Lineage
  <2>6. Files'
    BY <2>2, <2>5 DEF Files, Since, Progress, Finished, Cohort, Phases
  <2>7. Cloud'
    BY <2>2, <2>5 DEF Cloud, Since, Progress, Finished, Cohort, Phases
  <2>8. Progress'
    BY DEF Progress
  <2> QED BY <2>1, <2>4, <2>6, <2>7, <2>8
<1>6. ASSUME Export PROVE IInv'
  <2> USE <1>6 DEF Export, At
  <2>1. TypeOK'
    BY DEF TypeOK
  <2>2. Lineage' /\ Files' /\ Cloud'
    BY DEF Lineage, Files, Cloud, Since
  <2>3. Progress'
    BY DEF Progress, Cohort
  <2> QED BY <2>1, <2>2, <2>3
<1>7. ASSUME NEW a \in Assets, DeleteReplacement(a) PROVE IInv'
  <2> USE DEF DeleteReplacement, At, First, Exit, Fault
  <2>1. TypeOK'
    <3>1. live' \subseteq Assets
      BY <1>7 DEF TypeOK, OutputStates, MirrorStates
    <3>2. pc' \in {"idle", "work"}
      BY <1>7
    <3>3. todo' \subseteq Assets
      BY <1>7 DEF TypeOK
    <3>4. faults' \in Nat
      BY <1>7 DEF TypeOK
    <3>5. UNCHANGED <<records, checkpoint, uploads, pending, late, source, moved, temp, output,
                    mirror, cohort, inPlace, mount, receipt, recover>>
      BY <1>7
    <3> QED
      BY <3>1, <3>2, <3>3, <3>4, <3>5 DEF TypeOK
  <2>2. Lineage' /\ Files' /\ Cloud'
    BY <1>7 DEF Lineage, Files, Cloud, Since
  <2>3. Progress'
    BY <1>7 DEF Progress, InPhase, Finished, Cohort, TypeOK
  <2> QED BY <2>1, <2>2, <2>3
<1>8. ASSUME NEW a \in Assets, DeleteUnanswered(a) PROVE IInv'
  <2> USE <1>8 DEF DeleteUnanswered, At, First, Exit, Fault
  <2>1. TypeOK'
    BY DEF TypeOK, Requests
  <2>2. Lineage' /\ Files' /\ Cloud'
    BY OnePhase DEF Lineage, Files, Cloud, Since, Cohort
  <2>3. Progress'
    BY DEF Progress
  <2> QED BY <2>1, <2>2, <2>3
<1>9. ASSUME NEW m \in Members, Quarantine(m) PROVE IInv'
  <2> USE DEF Quarantine, At, Exit, Fault, AtSource
  <2>1. TypeOK'
    <3>1. moved' \subseteq Members /\ source' \in [Members -> {"sealed", "none", "normal"}]
      BY <1>9 DEF TypeOK, OutputStates, MirrorStates
    <3>2. pc' \in {"idle", "work"}
      BY <1>9
    <3>3. todo' \subseteq Assets
      BY <1>9 DEF TypeOK
    <3>4. faults' \in Nat
      BY <1>9 DEF TypeOK
    <3>5. UNCHANGED <<records, checkpoint, live, uploads, pending, late, temp, output, mirror,
                    cohort, inPlace, mount, receipt, recover>>
      BY <1>9
    <3> QED
      BY <3>1, <3>2, <3>3, <3>4, <3>5 DEF TypeOK
  <2>2. Lineage' /\ Files' /\ Cloud'
    BY <1>9, OnePhase DEF Lineage, Files, Cloud, Since, Cohort, TypeOK, Members
  <2>3. Progress'
    BY <1>9 DEF Progress, InPhase, Cohort
  <2> QED BY <2>1, <2>2, <2>3
<1>10. ASSUME NEW r \in References, Normalize(r) PROVE IInv'
  <2> USE <1>10 DEF Normalize, At
  <2>1. TypeOK'
    BY DEF TypeOK, TempStates, NextTemp
  <2>2. Lineage' /\ Files' /\ Cloud'
    BY DEF Lineage, Files, Cloud, Since
  <2>3. Progress'
    BY DEF Progress, InPhase, Cohort
  <2> QED BY <2>1, <2>2, <2>3
<1>11. ASSUME NEW r \in References, InstallReference(r) PROVE IInv'
  <2> USE <1>11 DEF InstallReference, At, AllMoved, AtDestination, AtSource
  <2>1. TypeOK'
    BY DEF TypeOK, TempStates, Members
  <2>2. Lineage' /\ Files' /\ Cloud'
    BY OnePhase DEF Lineage, Files, Cloud, Since, Cohort, TypeOK, Members
  <2>3. Progress'
    BY DEF Progress, InPhase, Cohort
  <2> QED BY <2>1, <2>2, <2>3
<1>12. ASSUME NEW a \in Assets, Convert(a) PROVE IInv'
  <2> USE DEF Convert, At
  <2>1. TypeOK'
    <3>1. output' \in [Assets -> OutputStates]
      BY <1>12 DEF TypeOK, OutputStates, MirrorStates
    <3>2. pc' \in {"idle", "work"}
      BY <1>12
    <3>3. todo' \subseteq Assets
      BY <1>12 DEF TypeOK
    <3>4. faults' \in Nat
      BY <1>12 DEF TypeOK
    <3>5. UNCHANGED <<records, checkpoint, live, uploads, pending, late, source, moved, temp,
                    mirror, cohort, inPlace, mount, receipt, recover>>
      BY <1>12
    <3> QED
      BY <3>1, <3>2, <3>3, <3>4, <3>5 DEF TypeOK, OutputStates
  <2>2. Lineage' /\ Files' /\ Cloud'
    BY <1>12, OnePhase DEF Lineage, Files, Cloud, Since, Cohort, TypeOK
  <2>3. Progress'
    BY <1>12 DEF Progress, InPhase, Cohort, TypeOK
  <2> QED BY <2>1, <2>2, <2>3
<1>13. ASSUME ConvertFails PROVE IInv'
  <2> USE <1>13 DEF ConvertFails, At, Exit, Fault
  <2>1. TypeOK'
    BY DEF TypeOK, OutputStates
  <2>2. Lineage' /\ Files' /\ Cloud'
    BY OnePhase DEF Lineage, Files, Cloud, Since, Cohort, TypeOK
  <2>3. Progress'
    BY DEF Progress
  <2> QED BY <2>1, <2>2, <2>3
<1>14. ASSUME NEW a \in Assets, Upload(a) PROVE IInv'
  <2> USE DEF Upload, OnlyReplacement, At, First, Exit, Fault
  <2>1. TypeOK'
    <3>1. uploads' \in [Assets -> Nat]
      BY <1>14 DEF TypeOK, OutputStates, MirrorStates
    <3>2. pc' \in {"idle", "work"}
      BY <1>14
    <3>3. todo' \subseteq Assets
      BY <1>14 DEF TypeOK
    <3>4. faults' \in Nat
      BY <1>14 DEF TypeOK
    <3>5. UNCHANGED <<records, checkpoint, live, pending, late, source, moved, temp, output,
                    mirror, cohort, inPlace, mount, receipt, recover>>
      BY <1>14
    <3> QED
      BY <3>1, <3>2, <3>3, <3>4, <3>5 DEF TypeOK
  <2>2. Lineage' /\ Files' /\ Cloud'
    BY <1>14, OnePhase DEF Lineage, Files, Cloud, Since, Cohort, TypeOK, Progress, InPhase
  <2>3. Progress'
    BY <1>14 DEF Progress, InPhase, Cohort, TypeOK
  <2> QED BY <2>1, <2>2, <2>3
<1>15. ASSUME NEW a \in Assets, UploadUnanswered(a) PROVE IInv'
  <2> USE <1>15 DEF UploadUnanswered, At, First, Exit, Fault
  <2>1. TypeOK'
    BY DEF TypeOK, Requests
  <2>2. Lineage' /\ Files' /\ Cloud'
    BY OnePhase DEF Lineage, Files, Cloud, Since, Cohort
  <2>3. Progress'
    BY DEF Progress
  <2> QED BY <2>1, <2>2, <2>3
<1>16. ASSUME NEW a \in Assets, FillMirror(a) PROVE IInv'
  <2> USE DEF FillMirror, At, First
  <2>1. TypeOK'
    <3>1. mirror' \in [Assets -> MirrorStates]
      BY <1>16 DEF TypeOK, OutputStates, MirrorStates
    <3>2. pc' \in {"idle", "work"}
      BY <1>16
    <3>3. todo' \subseteq Assets
      BY <1>16 DEF TypeOK
    <3>4. faults' \in Nat
      BY <1>16 DEF TypeOK
    <3>5. UNCHANGED <<records, checkpoint, live, uploads, pending, late, source, moved, temp,
                    output, cohort, inPlace, mount, receipt, recover>>
      BY <1>16
    <3> QED
      BY <3>1, <3>2, <3>3, <3>4, <3>5 DEF TypeOK, MirrorStates
  <2>2. Lineage' /\ Files' /\ Cloud'
    BY <1>16, OnePhase DEF Lineage, Files, Cloud, Since, Cohort, TypeOK
  <2>3. Progress'
    BY <1>16 DEF Progress, InPhase, Cohort, TypeOK
  <2> QED BY <2>1, <2>2, <2>3
<1>17. ASSUME NEW a \in Assets, MirrorFails(a) PROVE IInv'
  <2> USE <1>17 DEF MirrorFails, At, First, Exit, Fault
  <2>1. TypeOK'
    BY DEF TypeOK, MirrorStates
  <2>2. Lineage' /\ Files' /\ Cloud'
    BY OnePhase DEF Lineage, Files, Cloud, Since, Cohort, TypeOK
  <2>3. Progress'
    BY DEF Progress
  <2> QED BY <2>1, <2>2, <2>3
<1>18. ASSUME NEW q \in Requests, LateRequest(q) PROVE IInv'
  <2> PICK k \in {"delete", "upload"}, a \in Assets : q = <<k, a>>
    BY DEF Requests
  <2>1. /\ q[1] = k /\ q[2] = a /\ a \in {1, 2}
        /\ <<k, a>> \in pending /\ pending' = pending \ {<<k, a>>}
        /\ UNCHANGED <<records, checkpoint, source, moved, temp, output, mirror, cohort,
                       inPlace, mount, receipt, pc, recover, todo, faults>>
    BY <1>18 DEF LateRequest
  <2>2. CASE k = "delete"
    <3>1. live' = live \ {a} /\ uploads' = uploads /\ late' = late
      BY <1>18, <2>1, <2>2 DEF LateRequest
    <3>2. TypeOK'
      BY <2>1, <3>1 DEF TypeOK
    <3>3. Lineage' /\ Files' /\ Cloud'
      BY <2>1, <3>1 DEF Lineage, Files, Cloud, Since
    <3>4. Progress'
      BY <2>1, <3>1 DEF Progress, InPhase, Finished, Cohort
    <3> QED BY <3>2, <3>3, <3>4
  <2>3. CASE k = "upload"
    <3>1. live' = live /\ uploads' = [uploads EXCEPT ![a] = @ + 1] /\ late' = late + 1
      BY <1>18, <2>1, <2>3 DEF LateRequest
    <3>2. /\ uploads' \in [Assets -> Nat] /\ late \in Nat /\ uploads \in [Assets -> Nat]
          /\ \A b \in Assets : uploads'[b] = IF b = a THEN uploads[b] + 1 ELSE uploads[b]
      BY <3>1 DEF TypeOK
    <3>3. TypeOK'
      BY <2>1, <3>1, <3>2 DEF TypeOK
    <3>4. Lineage' /\ Files'
      BY <2>1, <3>1 DEF Lineage, Files, Since
    <3>5. Cloud'
      BY <2>1, <3>1, <3>2 DEF Cloud, Since
    <3>6. Progress'
      BY <2>1, <3>1, <3>2 DEF Progress, InPhase, Finished, Cohort
    <3> QED BY <3>3, <3>4, <3>5, <3>6
  <2> QED BY <2>2, <2>3
<1>19. ASSUME Reboot PROVE IInv'
  <2> USE <1>19 DEF Reboot
  <2>1. TypeOK'
    BY DEF TypeOK
  <2>2. Lineage' /\ Files' /\ Cloud'
    BY DEF Lineage, Files, Cloud, Since
  <2>3. Progress'
    BY DEF Progress, Cohort
  <2> QED BY <2>1, <2>2, <2>3
<1>20. ASSUME NEW partial \in BOOLEAN, MakeReceipt(partial) PROVE IInv'
  <2> USE <1>20 DEF MakeReceipt
  <2>1. TypeOK'
    BY DEF TypeOK
  <2>2. Lineage' /\ Files' /\ Cloud'
    BY DEF Lineage, Files, Cloud, Since
  <2>3. Progress'
    BY DEF Progress, Cohort
  <2> QED BY <2>1, <2>2, <2>3
<1>21. ASSUME RotateReceipt PROVE IInv'
  <2> USE <1>21 DEF RotateReceipt
  <2>1. TypeOK'
    BY DEF TypeOK
  <2>2. Lineage' /\ Files' /\ Cloud'
    BY DEF Lineage, Files, Cloud, Since
  <2>3. Progress'
    BY DEF Progress, Cohort
  <2> QED BY <2>1, <2>2, <2>3
<1>23. ASSUME DirectoriesRefused PROVE IInv'
  <2> USE <1>23 DEF DirectoriesRefused, At, Exit
  <2>1. TypeOK'
    BY DEF TypeOK
  <2>2. Lineage' /\ Files' /\ Cloud'
    BY DEF Lineage, Files, Cloud, Since
  <2>3. Progress'
    BY DEF Progress, Cohort
  <2> QED BY <2>1, <2>2, <2>3
<1>24. ASSUME Slip PROVE IInv'
  <2> USE <1>24 DEF Slip, Fault
  <2>1. TypeOK'
    BY DEF TypeOK
  <2>2. Lineage' /\ Files' /\ Cloud'
    BY DEF Lineage, Files, Cloud, Since
  <2>3. Progress'
    BY DEF Progress, Cohort, InPhase, Finished
  <2> QED BY <2>1, <2>2, <2>3
<1>25. ASSUME RemoveResiduals PROVE IInv'
  <2> USE <1>25 DEF RemoveResiduals
  <2>1. TypeOK'
    BY DEF TypeOK
  <2>2. Lineage' /\ Files' /\ Cloud'
    BY DEF Lineage, Files, Cloud, Since
  <2>3. Progress'
    BY DEF Progress, Cohort, InPhase, Finished
  <2> QED BY <2>1, <2>2, <2>3
<1>22. ASSUME UNCHANGED vars PROVE IInv'
  <2> USE <1>22 DEF vars
  <2>1. TypeOK'
    BY DEF TypeOK
  <2>2. Lineage' /\ Files' /\ Cloud'
    BY DEF Lineage, Files, Cloud, Since
  <2>3. Progress'
    BY DEF Progress, InPhase, Finished, Cohort
  <2> QED BY <2>1, <2>2, <2>3
<1> QED
  BY <1>1, <1>2, <1>3, <1>4, <1>5, <1>6, <1>7, <1>8, <1>9, <1>10, <1>11, <1>12, <1>13, <1>14, <1>15, <1>16, <1>17, <1>18, <1>19, <1>20, <1>21, <1>22, <1>23, <1>24, <1>25
     DEF Next, RunStep, Operator, AssetStep

-----------------------------------------------------------------------------
(* The inductive invariant holds in every reachable state.                  *)
THEOREM Invariance == Spec => []IInv
<1>1. Init => IInv
  BY InitInv
<1>2. IInv /\ [Next]_vars => IInv'
  BY StepInv
<1> QED
  BY <1>1, <1>2, PTL DEF Spec

(* The variables keep the types the code gives them. *)
THEOREM TypeCorrect == Spec => []TypeOK
<1>1. IInv => TypeOK
  BY DEF IInv
<1> QED
  BY <1>1, Invariance, PTL

(* Whatever a proof in a record names exists: the two-record commit comes  *)
(* after the effects it records, and a run that starts again takes nothing *)
(* for done that is not.                                                   *)
THEOREM Backed == Spec => []ProofsAreBacked
<1>1. IInv => ProofsAreBacked
  <2> SUFFICES ASSUME IInv PROVE ProofsAreBacked
    OBVIOUS
  <2> USE DEF IInv, Reset, Quarantined, DeleteConfirmed, Converted, UploadVerified,
              Mirrored, Assets
  <2>1. \A p \in Phases : Since(p) <=> records[1].phase >= p
    BY OnePhase
  <2>2. records[1].phase \in Phases /\ records[2].phase = records[1].phase
    BY OnePhase DEF Lineage
  <2>3. \A m \in Members : source[m] = "sealed" <=> m \notin moved
    BY DEF Files
  <2>4. ASSUME NEW a \in Assets PROVE output[a] # "none" => records[a].phase >= Reset
    BY <2>1, <2>2 DEF Files, Phases, NoPhase, Complete, Since
  <2>5. ASSUME NEW a \in Assets, records[a].conversion # "old"
        PROVE  live = {} /\ moved = Members /\ \A r \in References : NormalAt(r)
    <3>1. Since(Reset)
      BY <2>5 DEF Lineage
    <3>2. Since(DeleteConfirmed) /\ Since(Quarantined)
      BY <3>1, <2>1, <2>2 DEF Phases, NoPhase, Complete
    <3> QED
      BY <3>2 DEF Files, Cloud, NormalAt, Members
  <2>6. ASSUME NEW a \in Assets PROVE
            /\ records[a].conversion = "new" => Made(a)
            /\ records[a].upload = "new" => uploads[a] > 0
            /\ records[a].mirror = "new" => mirror[a] = "full"
    BY DEF Lineage, Files, Cloud, Made
  <2> QED
    BY <2>3, <2>4, <2>5, <2>6 DEF ProofsAreBacked
<1> QED
  BY <1>1, Invariance, PTL

(* A second replacement can only come from a request that was still under  *)
(* way when the library was searched for the first one.                    *)
THEOREM OneReplacement == Spec => []UploadedOnce
<1>1. IInv => UploadedOnce
  BY DEF IInv, Cloud, UploadedOnce
<1> QED
  BY <1>1, Invariance, PTL

(* The command reports success for a cohort that is complete everywhere.   *)
THEOREM Success == Spec => []SuccessMeansDone
<1>1. IInv => SuccessMeansDone
  <2> SUFFICES ASSUME IInv, pc = "done" PROVE SuccessMeansDone
    BY DEF SuccessMeansDone
  <2>1. Cohort(Complete) /\ checkpoint = records
    BY DEF IInv, Progress
  <2>2. \A p \in Phases : Since(p)
    BY <2>1, OnePhase DEF IInv, Phases, NoPhase, Complete
  <2>3. {DeleteConfirmed, Quarantined, Converted, UploadVerified, Mirrored} \subseteq Phases
    BY DEF DeleteConfirmed, Quarantined, Converted, UploadVerified, Mirrored, Phases,
           NoPhase, Complete
  <2> QED
    BY <2>1, <2>2, <2>3 DEF IInv, Files, Cloud, SuccessMeansDone, Made
<1> QED
  BY <1>1, Invariance, PTL

-----------------------------------------------------------------------------
(* Going on.  That a repeated run completes the migration is for TLC; what *)
(* it cannot complete without holds for any constants: no run stops in the *)
(* middle of a phase for want of a step it may take, and one that stopped  *)
(* anywhere but in an Unresumable state is accepted when it is repeated.   *)

(* What a run needs to go on: the guard of one of its steps.               *)
RunCanGoOn ==
    /\ pc = "work" =>
           \/ /\ todo = {}
              /\ Cohort(DeleteConfirmed) =>
                     \A m \in Members : (AtDestination(m) /\ m \notin References) \/ NormalAt(m)
           \/ /\ \E p \in {Prepared, UploadPrepared, UploadVerified} : Cohort(p)
              /\ \E a \in Assets : First(a)
           \/ Cohort(Reset) /\ \E a \in todo : output[a] \in {"none", "partial"}
           \/ /\ Cohort(DeleteConfirmed)
              /\ \E m \in Members :
                     AtSource(m) /\ \A n \in Members : AtSource(n) => Rank(m) <= Rank(n)
           \/ /\ Cohort(DeleteConfirmed) /\ AllMoved
              /\ \E r \in References :
                     AtDestination(r) /\ temp[r] \in DOMAIN NextTemp \union {"normal"}
    /\ pc = "persist" => \A a \in Assets : ValidUpdate(records[a], Candidate(records[a]))

(* When the command that stopped is given again, it loads its evidence,    *)
(* with a receipt if the devices changed, or such a receipt can be made;   *)
(* and it accepts what it finds on the disk, unless directories of another *)
(* migration are in its way.                                               *)
RunCanBeRepeated ==
    /\ pc = "idle" /\ ~Interrupted =>
           \/ \E rec \in BOOLEAN :
                  EvidenceLoads(rec) /\ (rec \/ mount = 0 \/ Cohort(Complete))
           \/ /\ Cohort(DeleteConfirmed) /\ mount # 0 /\ receipt # mount
              /\ checkpoint = records /\ RecoverableLayout
    /\ pc = "preflight" /\ ~Unresumable /\ (recover \/ mount = 0)
          /\ (Cohort(NoPhase) => ~cohort) =>
           PreflightPasses /\ WorkAccepts

(* What IInv leaves open of the directories, the copies and the work.      *)
Workplace ==
    /\ \A r \in References : temp[r] # "none" => moved = Members
    /\ Since(DeleteConfirmed) => cohort
    /\ pc \in {"work", "persist"} => (Cohort(Prepared) => cohort)
    /\ pc = "work" =>
           /\ \E p \in Working : Cohort(p)
           /\ Cohort(DeleteConfirmed) => todo = {}
           /\ Cohort(Reset) => \A a \in todo : output[a] # "made"

LEMMA WorkplaceInit == Init => Workplace
BY DEF Init, Workplace, Since, Assets, LegacyRecord, NoPhase, DeleteConfirmed

(* A member is at its sealed path as long as it is not in the quarantine.  *)
LEMMA Unmoved ==
  ASSUME IInv
  PROVE  /\ \A m \in Members : AtSource(m) <=> m \notin moved
         /\ AllMoved <=> moved = Members
BY DEF IInv, TypeOK, Files, AtSource, AllMoved

LEMMA WorkplaceStep == IInv /\ Workplace /\ [Next]_vars => Workplace'
<1> SUFFICES ASSUME IInv, Workplace, [Next]_vars PROVE Workplace'
  OBVIOUS
<1> USE DEF Assets, stored, cloud, disk, device, Prepared, DeleteConfirmed, Quarantined, Reset,
            Converted, UploadPrepared, UploadVerified, NoPhase, Complete
<1>a. /\ records[1].phase \in Phases
      /\ \A p \in Phases : Cohort(p) <=> records[1].phase = p
      /\ \A p \in Phases : Since(p) <=> records[1].phase >= p
  BY OnePhase DEF IInv
(* A step that leaves the journals and the files of its phase alone.       *)
<1>b. ASSUME UNCHANGED <<records, moved, temp, cohort>>,
             pc' \in {"work", "persist"} => pc \in {"work", "persist"},
             pc' = "work" =>
                 /\ pc = "work" /\ UNCHANGED output
                 /\ todo' \subseteq todo
      PROVE  Workplace'
  BY <1>b DEF Workplace, Since, Cohort
<1>1. ASSUME NEW rec \in BOOLEAN, Start(rec) PROVE Workplace'
  BY <1>1, <1>b DEF Start
<1>2. ASSUME Preflight PROVE Workplace'
  <2>1. /\ UNCHANGED <<records, moved, temp, output>>
        /\ cohort' = cohort \/ cohort' = (cohort \/ Cohort(Prepared))
    BY <1>2 DEF Preflight, Exit
  <2>2. ASSUME pc' \in {"work", "persist"}
        PROVE  /\ cohort' = (cohort \/ Cohort(Prepared)) /\ WorkAccepts /\ todo' = Pending
               /\ pc' = IF \E p \in Working : Cohort(p) THEN "work" ELSE "persist"
    BY <1>2, <2>2 DEF Preflight, Exit
  <2>3. Cohort(DeleteConfirmed) => Pending = {}
    BY <1>a DEF Pending, Phases
  <2>4. Cohort(Reset) /\ WorkAccepts => \A a \in Assets : output[a] = "none"
    BY DEF WorkAccepts, OutputsFree
  <2>5. cohort \in BOOLEAN
    BY DEF IInv, TypeOK
  <2>6. Pending \subseteq Assets
    BY DEF Pending, IInv, TypeOK
  <2> QED
    BY <2>1, <2>2, <2>3, <2>4, <2>5, <2>6 DEF Workplace, Since, Cohort
<1>3. CASE Crash
  BY <1>3, <1>b DEF Crash, Exit
<1>4. CASE WorkDone
  BY <1>4, <1>b DEF WorkDone, At
<1>5. CASE Persist
  <2>1. \A a \in Assets : records'[a].phase = records[a].phase + 1 /\ records[a].phase \in Phases
    BY <1>5, CandidateFields DEF Persist, IInv, TypeOK, Records
  <2>2. Since(DeleteConfirmed)' => Since(DeleteConfirmed) \/ Cohort(Prepared)
    BY <1>a, <2>1 DEF Since, Phases
  <2> QED
    BY <1>5, <2>2 DEF Persist, At, Workplace
<1>6. CASE Export
  BY <1>6, <1>b DEF Export
<1>7. ASSUME NEW a \in Assets, DeleteReplacement(a) PROVE Workplace'
  BY <1>7, <1>b DEF DeleteReplacement, At, Exit
<1>8. ASSUME NEW a \in Assets, DeleteUnanswered(a) PROVE Workplace'
  BY <1>8, <1>b DEF DeleteUnanswered, Exit
<1>9. ASSUME NEW m \in Members, Quarantine(m) PROVE Workplace'
  <2>1. moved' = moved \union {m} /\ moved # Members
    BY <1>9, Unmoved DEF Quarantine
  <2>2. /\ UNCHANGED <<records, temp, cohort, output>>
        /\ pc' = "idle" \/ UNCHANGED <<pc, todo>>
    BY <1>9 DEF Quarantine, At, Exit
  <2> QED
    BY <2>1, <2>2 DEF Workplace, Since, Cohort
<1>10. ASSUME NEW r \in References, Normalize(r) \/ InstallReference(r) PROVE Workplace'
  <2>1. moved = Members /\ UNCHANGED <<records, moved, cohort, output, pc, todo>>
    BY <1>10, Unmoved DEF Normalize, InstallReference, At
  <2> QED
    BY <2>1 DEF Workplace, Since, Cohort
<1>11. ASSUME NEW a \in Assets, Convert(a) PROVE Workplace'
  <2>1. /\ UNCHANGED <<records, moved, temp, cohort, pc>>
        /\ Cohort(Reset) /\ pc = "work" /\ todo' \subseteq todo
        /\ \A b \in todo' : output'[b] # "made"
    BY <1>11 DEF Convert, At, Workplace, IInv, TypeOK
  <2>2. ~Cohort(DeleteConfirmed)
    BY <1>a, <2>1 DEF Phases
  <2> QED
    BY <2>1, <2>2 DEF Workplace, Since, Cohort
<1>12. CASE ConvertFails
  BY <1>12, <1>b DEF ConvertFails, Exit
<1>13. ASSUME NEW a \in Assets, Upload(a) PROVE Workplace'
  BY <1>13, <1>b DEF Upload, At, Exit
<1>14. ASSUME NEW a \in Assets, UploadUnanswered(a) PROVE Workplace'
  BY <1>14, <1>b DEF UploadUnanswered, Exit
<1>15. ASSUME NEW a \in Assets, FillMirror(a) PROVE Workplace'
  BY <1>15, <1>b DEF FillMirror, At
<1>16. ASSUME NEW a \in Assets, MirrorFails(a) PROVE Workplace'
  BY <1>16, <1>b DEF MirrorFails, Exit
<1>17. ASSUME NEW q \in Requests, LateRequest(q) PROVE Workplace'
  BY <1>17, <1>b DEF LateRequest
<1>18. CASE Reboot \/ RotateReceipt \/ DirectoriesRefused \/ Slip
  BY <1>18, <1>b DEF Reboot, RotateReceipt, DirectoriesRefused, Slip, Exit
<1>19. ASSUME NEW partial \in BOOLEAN, MakeReceipt(partial) PROVE Workplace'
  BY <1>19, <1>b DEF MakeReceipt
<1>20. CASE RemoveResiduals
  <2>1. ~Since(DeleteConfirmed) /\ pc' = "idle" /\ UNCHANGED <<records, moved, temp>>
    BY <1>20, <1>a DEF RemoveResiduals, Phases
  <2> QED
    BY <2>1 DEF Workplace, Since, Cohort
<1>21. CASE UNCHANGED vars
  BY <1>21, <1>b DEF vars
<1> QED
  BY <1>1, <1>2, <1>3, <1>4, <1>5, <1>6, <1>7, <1>8, <1>9, <1>10, <1>11, <1>12, <1>13, <1>14,
     <1>15, <1>16, <1>17, <1>18, <1>19, <1>20, <1>21
     DEF Next, RunStep, Operator, AssetStep

(* The update a phase stores is one the journal accepts.                   *)
LEMMA UpdatesAreValid ==
  ASSUME IInv, ~Cohort(Complete), NEW a \in Assets
  PROVE  ValidUpdate(records[a], Candidate(records[a]))
<1> DEFINE r == records[a]
           c == Candidate(r)
           p == records[1].phase
<1> USE DEF Assets, Quarantined, Reset, Converted, UploadPrepared, UploadVerified, Mirrored,
            Complete, NoPhase
<1>1. /\ p \in Phases /\ p # Complete /\ r.phase = p /\ r \in Records
      /\ \A q \in Phases : Since(q) <=> p >= q
  BY OnePhase DEF IInv, TypeOK, Lineage
<1>2. /\ r.state = RequiredState(p)
      /\ r.conversion = IF p < Reset THEN "old" ELSE IF p >= Converted THEN "new" ELSE "none"
      /\ r.upload = IF p < Reset THEN "old" ELSE IF p >= UploadVerified THEN "new" ELSE "none"
      /\ r.mirror = IF p < Reset THEN "old" ELSE IF p >= Mirrored THEN "new" ELSE "none"
  BY <1>1 DEF IInv, Lineage, Phases
<1>3. /\ c.phase = p + 1
      /\ c.state = IF p = Quarantined THEN "nas" ELSE IF p = Reset THEN "converted"
                   ELSE IF p = UploadPrepared THEN "uploaded" ELSE r.state
      /\ c.conversion = IF p = Quarantined THEN "none"
                        ELSE IF p = Reset THEN "new" ELSE r.conversion
      /\ c.upload = IF p = Quarantined THEN "none"
                    ELSE IF p = UploadPrepared THEN "new" ELSE r.upload
      /\ c.mirror = IF p = Quarantined THEN "none"
                    ELSE IF p = UploadVerified THEN "new" ELSE r.mirror
  BY <1>1, CandidateFields
<1>4. p \in 0 .. 8
  BY <1>1 DEF Phases
<1> HIDE DEF r, c, p
<1>5. JournalStands(r) /\ JournalStands(c)
  BY <1>1, <1>2, <1>3, <1>4 DEF JournalStands, RequiredState
<1>6. TransitionDelta(r, c)
  BY <1>2, <1>3, <1>4
     DEF TransitionDelta, JournalOnly, ResetLegacyLineage, InstallVerifiedConversion,
         InstallVerifiedUpload, InstallVerifiedMirror
<1> QED
  BY <1>1, <1>3, <1>5, <1>6 DEF ValidUpdate, r, c

LEMMA FirstOf ==
  ASSUME NEW S \in SUBSET Members, S # {}
  PROVE  \E m \in S : \A n \in S : Rank(m) <= Rank(n)
<1>1. \A m \in S : Rank(m) \in 1 .. 5
  BY DEF Rank
<1>2. \A k \in 1 .. 5 :
          (\E m \in S : Rank(m) = k) /\ (\A n \in S : Rank(n) >= k) =>
              \E m \in S : \A n \in S : Rank(m) <= Rank(n)
  OBVIOUS
<1> HIDE DEF Rank
<1>3. CASE \E m \in S : Rank(m) = 1
  BY <1>1, <1>2, <1>3
<1>4. CASE (\E m \in S : Rank(m) = 2) /\ ~\E m \in S : Rank(m) = 1
  BY <1>1, <1>2, <1>4
<1>5. CASE (\E m \in S : Rank(m) = 3) /\ ~\E m \in S : Rank(m) \in {1, 2}
  BY <1>1, <1>2, <1>5
<1>6. CASE (\E m \in S : Rank(m) = 4) /\ ~\E m \in S : Rank(m) \in {1, 2, 3}
  BY <1>1, <1>2, <1>6
<1>7. CASE ~\E m \in S : Rank(m) \in {1, 2, 3, 4}
  BY <1>1, <1>7
<1> QED
  BY <1>3, <1>4, <1>5, <1>6, <1>7

LEMMA GoingOn == IInv /\ Workplace => RunCanGoOn
<1> SUFFICES ASSUME IInv, Workplace PROVE RunCanGoOn
  OBVIOUS
<1> USE DEF Assets, Prepared, DeleteConfirmed, Reset, UploadPrepared, UploadVerified,
            NoPhase, Complete
<1>1. ASSUME pc = "persist", NEW a \in Assets
      PROVE  ValidUpdate(records[a], Candidate(records[a]))
  BY <1>1, UpdatesAreValid DEF IInv, Progress, Finished
<1>2. ASSUME pc = "work", ~Cohort(DeleteConfirmed), todo # {}
      PROVE  \/ /\ \E p \in {Prepared, UploadPrepared, UploadVerified} : Cohort(p)
                /\ \E a \in Assets : First(a)
             \/ Cohort(Reset) /\ \E a \in todo : output[a] \in {"none", "partial"}
  <2>1. todo \subseteq {1, 2} /\ output \in [Assets -> OutputStates]
    BY DEF IInv, TypeOK
  <2>2. \E a \in Assets : First(a)
    <3>1. CASE 1 \in todo
      BY <2>1, <3>1 DEF First
    <3>2. CASE 1 \notin todo
      <4>1. todo = {2}
        BY <1>2, <2>1, <3>2
      <4> QED
        BY <4>1 DEF First
    <3> QED
      BY <3>1, <3>2
  <2>3. Cohort(Reset) => \E a \in todo : output[a] \in {"none", "partial"}
    BY <1>2, <2>1 DEF Workplace, OutputStates
  <2> QED
    BY <1>2, <2>2, <2>3 DEF Workplace, Working
<1>3. ASSUME pc = "work", Cohort(DeleteConfirmed), ~AllMoved
      PROVE  \E m \in Members :
                 AtSource(m) /\ \A n \in Members : AtSource(n) => Rank(m) <= Rank(n)
  <2> DEFINE S == {m \in Members : AtSource(m)}
  <2>1. S # {} /\ S \in SUBSET Members
    BY <1>3 DEF AllMoved
  <2>2. \E m \in S : \A n \in S : Rank(m) <= Rank(n)
    BY <2>1, FirstOf
  <2> QED
    BY <2>2
<1>4. ASSUME pc = "work", Cohort(DeleteConfirmed), AllMoved
      PROVE  \/ todo = {} /\ \A m \in Members :
                    (AtDestination(m) /\ m \notin References) \/ NormalAt(m)
             \/ \E r \in References :
                    AtDestination(r) /\ temp[r] \in DOMAIN NextTemp \union {"normal"}
  <2>1. moved = Members /\ todo = {}
    BY <1>4, Unmoved DEF Workplace
  <2>2. \A m \in Members : source[m] = "none" \/ (source[m] = "normal" /\ m \in References)
    BY <2>1 DEF IInv, TypeOK, Files
  <2>3. References \subseteq Members
    BY DEF Members
  <2>4. CASE \A r \in References : source[r] = "normal"
    BY <2>1, <2>2, <2>4 DEF AtDestination, NormalAt
  <2>5. ASSUME NEW r \in References, source[r] # "normal"
        PROVE  AtDestination(r) /\ temp[r] \in DOMAIN NextTemp \union {"normal"}
    <3>1. DOMAIN NextTemp = {"none", "created", "partial", "copied"}
      BY DEF NextTemp
    <3> QED
      BY <2>1, <2>2, <2>3, <2>5, <3>1 DEF AtDestination, IInv, TypeOK, TempStates
  <2> QED
    BY <2>1, <2>4, <2>5
<1> QED
  BY <1>1, <1>2, <1>3, <1>4 DEF RunCanGoOn

(* Once the files are in the quarantine the disk is one a run accepts.     *)
LEMMA QuarantinedPlaces ==
  ASSUME IInv, Since(Quarantined), NEW m \in Members
  PROVE  \/ NormalAt(m)
         \/ AtDestination(m) /\ (m \in Finals => FinalElsewhere(m))
         \/ m \in moved /\ Since(Converted) /\ Replaced(m)
<1>1. /\ moved = Members /\ \A r \in References : source[r] = "normal"
      /\ Since(Converted) => \A a \in Assets : Made(a)
  BY DEF IInv, Files, Made
<1>2. CASE m \in References
  BY <1>1, <1>2 DEF NormalAt
<1>3. CASE m \notin References
  <2>1. AtDestination(m)
    BY <1>1, <1>3 DEF IInv, TypeOK, Files, AtDestination
  <2>2. CASE Since(Converted) /\ inPlace
    BY <1>1, <2>1, <2>2 DEF Replaced, Finals
  <2>3. CASE ~(Since(Converted) /\ inPlace)
    BY <1>1, <2>1, <2>3 DEF FinalElsewhere
  <2> QED
    BY <2>1, <2>2, <2>3
<1> QED
  BY <1>2, <1>3

LEMMA Repeating == IInv /\ Workplace => RunCanBeRepeated
<1> SUFFICES ASSUME IInv, Workplace PROVE RunCanBeRepeated
  OBVIOUS
<1> USE DEF Assets, Prepared, DeleteConfirmed, Quarantined, Reset, Converted, UploadPrepared,
            UploadVerified, Mirrored, NoPhase, Complete
<1>a. /\ records[1].phase \in Phases
      /\ \A p \in Phases : Cohort(p) <=> records[1].phase = p
      /\ \A p \in Phases : Since(p) <=> records[1].phase >= p
  BY OnePhase DEF IInv
<1>b. References \subseteq Members /\ Final(1) \in Members
  BY DEF Members, Finals
(* The phases fall into three parts.                                       *)
<1>c. /\ ~Since(DeleteConfirmed) \/ Cohort(DeleteConfirmed) \/ Since(Quarantined)
      /\ Cohort(DeleteConfirmed) => Since(DeleteConfirmed) /\ ~Since(Quarantined)
      /\ Since(Quarantined) => Since(DeleteConfirmed) /\ ~Cohort(DeleteConfirmed)
      /\ Since(Quarantined) /\ ~Cohort(Quarantined) => Since(Reset)
      /\ Since(Complete) => Cohort(Complete)
      /\ ~Since(DeleteConfirmed) => ~Since(Quarantined)
      /\ Cohort(Mirrored) => Since(Mirrored)
  BY <1>a DEF Phases
<1>d. ~Unresumable /\ ~Since(Quarantined) => moved = {} /\ \A m \in Members : AtSource(m)
  BY <1>c, Unmoved DEF Unresumable, IInv, Files
<1>1. ASSUME pc = "idle", ~Interrupted
      PROVE  \/ \E rec \in BOOLEAN :
                    EvidenceLoads(rec) /\ (rec \/ mount = 0 \/ Cohort(Complete))
             \/ /\ Cohort(DeleteConfirmed) /\ mount # 0 /\ receipt # mount
                /\ checkpoint = records /\ RecoverableLayout
  <2>1. ~Unresumable
    BY <1>1 DEF Interrupted
  <2>2. CASE ~Since(DeleteConfirmed)
    <3>1. mount = 0 /\ \A r \in References : AtSource(r)
      BY <1>b, <1>c, <1>d, <2>1, <2>2 DEF Unresumable
    <3> QED
      BY <3>1 DEF EvidenceLoads
  <2>3. CASE Cohort(DeleteConfirmed)
    <3>1. RecoverableLayout
      BY <1>c, <1>d, <2>1, <2>3 DEF RecoverableLayout, Workplace
    <3>2. CASE mount = 0
      BY <1>b, <1>c, <1>d, <2>1, <2>3, <3>2 DEF EvidenceLoads
    <3>3. CASE mount # 0 /\ receipt = mount
      BY <1>c, <2>3, <3>1, <3>3 DEF EvidenceLoads
    <3>4. CASE mount # 0 /\ receipt # mount
      BY <2>1, <2>3, <3>1, <3>4 DEF Unresumable
    <3> QED
      BY <3>2, <3>3, <3>4
  <2>4. CASE Since(Quarantined)
    <3>1. EvidenceLoads(FALSE)
      BY <2>4 DEF EvidenceLoads
    <3>2. ASSUME mount # 0, ~Cohort(Complete) PROVE EvidenceLoads(TRUE)
      <4>1. receipt = mount /\ Since(Reset)
        BY <1>c, <2>1, <2>4, <3>2 DEF Unresumable
      <4>2. RecoverableLayout
        BY <1>c, <2>4, <4>1, QuarantinedPlaces DEF RecoverableLayout, Workplace
      <4> QED
        BY <1>c, <2>4, <4>1, <4>2 DEF EvidenceLoads
    <3> QED
      BY <3>1, <3>2
  <2> QED
    BY <1>c, <2>2, <2>3, <2>4
<1>2. ASSUME pc = "preflight", ~Unresumable, recover \/ mount = 0, Cohort(NoPhase) => ~cohort
      PROVE  PreflightPasses /\ WorkAccepts
  <2>1. \A m \in Members :
            \/ AtSource(m) /\ ~Since(Quarantined)
            \/ AtDestination(m) /\ (m \in Finals => FinalElsewhere(m))
            \/ NormalAt(m) /\ Since(DeleteConfirmed)
            \/ m \in moved /\ Since(Converted) /\ Replaced(m)
    BY <1>c, <1>d, <1>2, QuarantinedPlaces
  <2>2. MembersPlaced
    BY <1>2, <2>1 DEF MembersPlaced, Workplace, IInv, Files
  <2>3. ~Since(Quarantined) => \A r \in References : temp[r] = "none"
    BY <1>b, <1>d, <1>2 DEF Workplace
  <2>4. PreflightPasses
    BY <1>c, <1>d, <1>2, <2>2, <2>3 DEF PreflightPasses
  <2>5. Cohort(DeleteConfirmed) => CopiesWhole
    BY <1>c, <2>3 DEF CopiesWhole
  <2>6. Since(Converted) => OutputsStand
    BY DEF IInv, Files, OutputsStand, Made
  <2>7. Cohort(Mirrored) => MirrorsStand
    BY <1>c DEF IInv, Files, MirrorsStand
  <2>8. /\ Cohort(Reset) => OutputsFree
        /\ Cohort(UploadPrepared) => Unambiguous
        /\ Cohort(UploadVerified) => MirrorsFree
    BY <1>2 DEF Unresumable, OutputsFree, Unambiguous, MirrorsFree, IInv, TypeOK
  <2> QED
    BY <2>4, <2>5, <2>6, <2>7, <2>8 DEF WorkAccepts
<1> QED
  BY <1>1, <1>2 DEF RunCanBeRepeated

LEMMA WorkplaceInv == Spec => []Workplace
<1>1. IInv /\ Workplace /\ [Next]_vars => Workplace'
  BY WorkplaceStep
<1> QED
  BY WorkplaceInit, <1>1, Invariance, PTL DEF Spec

(* No run stops in the middle of a phase for want of a step: it finds the  *)
(* next asset or file to work on, or finds its work done, and the records  *)
(* it then makes are ones validate_record_update accepts.                  *)
THEOREM RunGoesOn == Spec => []RunCanGoOn
BY GoingOn, WorkplaceInv, Invariance, PTL

(* A run that stopped in whatever place, unless it is one of Unresumable,  *)
(* is accepted when it is repeated: the evidence loads, the preflight      *)
(* passes and the phase starts.                                            *)
THEOREM RunRepeats == Spec => []RunCanBeRepeated
BY Repeating, WorkplaceInv, Invariance, PTL

-----------------------------------------------------------------------------
(* Refinement.                                                             *)

stage == [a \in Assets |-> records[a].phase]
normal == {r \in References : source[r] = "normal"}
made == {a \in Assets : Made(a)}
mirrored == {a \in Assets : mirror[a] = "full"}

LEMMA AllAtIsCohort ==
  \A p \in Phases : (stage = [a \in Assets |-> p]) <=> Cohort(p)
BY DEF stage, Cohort, Assets

(* A step that moves none of what the abstract migration sees.             *)
LEMMA Stutter ==
  ASSUME UNCHANGED <<stage, live, moved, normal, made, uploads, mirrored>>
  PROVE  UNCHANGED Abstract!avars
BY DEF Abstract!avars, stage, normal, made, mirrored

LEMMA Unchanged ==
  ASSUME UNCHANGED <<records, live, moved, source, output, uploads, mirror>>
  PROVE  UNCHANGED Abstract!avars
<1>1. UNCHANGED <<stage, normal, made, mirrored>>
  BY DEF stage, normal, made, mirrored, Made
<1> QED
  BY <1>1, Stutter

LEMMA InitRefines == Init => Abstract!AInit
BY DEF Init, Abstract!AInit, Abstract!AllAt, Assets, LegacyRecord, Made, Members,
       NoPhase, Abstract!NoPhase

LEMMA StepRefines ==
  IInv /\ [Next]_vars => [Abstract!ANext]_Abstract!avars
<1> SUFFICES ASSUME IInv, [Next]_vars PROVE [Abstract!ANext]_Abstract!avars
  OBVIOUS
<1> USE DEF IInv, Prepared, DeleteConfirmed, Quarantined, Reset, Converted, UploadPrepared,
            UploadVerified, Mirrored, Complete, NoPhase, Assets, stored, cloud, disk, device,
            Abstract!Prepared, Abstract!DeleteConfirmed, Abstract!Quarantined,
            Abstract!Reset, Abstract!Converted, Abstract!UploadPrepared,
            Abstract!UploadVerified, Abstract!Mirrored, Abstract!Complete, Abstract!NoPhase
<1>a. \A p \in Phases : Abstract!AllAt(p) <=> Cohort(p)
  BY AllAtIsCohort DEF Abstract!AllAt, stage
<1>b. /\ records[1].phase \in Phases
      /\ \A p \in Phases : Cohort(p) <=> records[1].phase = p
      /\ \A p \in Phases : Since(p) <=> records[1].phase >= p
  BY OnePhase
<1>1. ASSUME NEW rec \in BOOLEAN, Start(rec) PROVE UNCHANGED Abstract!avars
  BY <1>1, Unchanged DEF Start
<1>2. ASSUME Preflight PROVE UNCHANGED Abstract!avars
  BY <1>2, Unchanged DEF Preflight
<1>3. ASSUME Crash PROVE UNCHANGED Abstract!avars
  BY <1>3, Unchanged DEF Crash
<1>4. ASSUME WorkDone PROVE UNCHANGED Abstract!avars
  BY <1>4, Unchanged DEF WorkDone
<1>5. ASSUME Persist PROVE Abstract!Advance
  <2> DEFINE p == records[1].phase
  <2>1. p \in Phases \ {Complete} /\ Cohort(p)
    BY <1>5, <1>b DEF Persist, At, Progress, Finished
  <2>2. Abstract!AllAt(p)
    BY <2>1, <1>a
  <2>3. \A q \in Phases : p = q => Cohort(q)
    BY <1>b
  <2>4. Finished
    BY <1>5 DEF Persist, At, Progress
  <2>5. Abstract!Ready(p)
    <3>1. normal \subseteq References /\ made \subseteq Assets /\ mirrored \subseteq Assets
      BY DEF normal, made, mirrored
    <3>2. p = Prepared => live = {}
      BY <2>3, <2>4 DEF Finished, Phases
    <3>3. p = DeleteConfirmed => moved = Members /\ normal = References
      BY <2>3, <2>4 DEF Finished, Phases, normal
    <3>4. p = Reset => made = Assets
      BY <2>3, <2>4 DEF Finished, Phases, made, Made
    <3>5. p = UploadPrepared => \A a \in Assets : uploads[a] > 0
      BY <2>3, <2>4 DEF Finished, Phases
    <3>6. p = UploadVerified => mirrored = Assets
      BY <2>3, <2>4 DEF Finished, Phases, mirrored
    <3> QED
      BY <3>2, <3>3, <3>4, <3>5, <3>6 DEF Abstract!Ready, normal, made, mirrored
  <2>6. stage' = [a \in Assets |-> p + 1]
    BY <1>5, CandidateFields DEF Persist, stage, Lineage, IInv, TypeOK
  <2>7. UNCHANGED <<live, moved, normal, made, uploads, mirrored>>
    BY <1>5 DEF Persist, normal, made, Made, mirrored
  <2> QED
    BY <2>1, <2>2, <2>5, <2>6, <2>7
       DEF Abstract!Advance, stage, normal, made, mirrored, Abstract!Phases, Phases
<1>6. ASSUME Export PROVE UNCHANGED Abstract!avars
  BY <1>6, Unchanged DEF Export
<1>7. ASSUME NEW a \in Assets, DeleteReplacement(a)
      PROVE  Abstract!DeleteReplacement(a) \/ UNCHANGED Abstract!avars
  <2>1. /\ live' = live \ {a}
        /\ UNCHANGED <<records, moved, source, output, uploads, mirror>>
    BY <1>7 DEF DeleteReplacement
  <2>2. UNCHANGED <<stage, normal, made, mirrored>>
    BY <2>1 DEF stage, normal, made, Made, mirrored
  <2>3. Cohort(Prepared) /\ Prepared \in Phases
    BY <1>7 DEF DeleteReplacement, Phases
  <2>4. Abstract!AllAt(Prepared) /\ moved = {}
    BY <2>3, <1>a, <1>b DEF Files, Phases
  <2>5. CASE a \in live
    BY <2>1, <2>2, <2>4, <2>5 DEF Abstract!DeleteReplacement, stage, normal, made, mirrored
  <2>6. CASE a \notin live
    <3>1. live' = live
      BY <2>1, <2>6
    <3> QED
      BY <3>1, <2>1, <2>2, Stutter
  <2> QED BY <2>5, <2>6
<1>8. ASSUME NEW a \in Assets, DeleteUnanswered(a) PROVE UNCHANGED Abstract!avars
  BY <1>8, Unchanged DEF DeleteUnanswered
<1>9. ASSUME NEW m \in Members, Quarantine(m) PROVE Abstract!Quarantine(m)
  <2>1. /\ Cohort(DeleteConfirmed) /\ m \notin moved /\ source[m] = "sealed"
        /\ moved' = moved \union {m} /\ source' = [source EXCEPT ![m] = "none"]
        /\ UNCHANGED <<records, live, output, uploads, mirror>>
    BY <1>9 DEF Quarantine, AtSource
  <2>2. UNCHANGED <<stage, made, mirrored>>
    BY <2>1 DEF stage, made, Made, mirrored
  <2>3. normal = {}
    BY <2>1 DEF Files, normal, Members
  <2>4. normal' = {}
    BY <2>1, <2>3 DEF normal, Members, TypeOK
  <2>5. Abstract!AllAt(DeleteConfirmed)
    BY <2>1, <1>a DEF Phases
  <2> QED
    BY <2>1, <2>2, <2>3, <2>4, <2>5 DEF Abstract!Quarantine, stage, normal, made, mirrored
<1>10. ASSUME NEW r \in References, Normalize(r) PROVE UNCHANGED Abstract!avars
  BY <1>10, Unchanged DEF Normalize
<1>11. ASSUME NEW r \in References, InstallReference(r) PROVE Abstract!Normalize(r)
  <2>1. /\ Cohort(DeleteConfirmed) /\ AllMoved /\ source[r] = "none"
        /\ source' = [source EXCEPT ![r] = "normal"]
        /\ UNCHANGED <<records, live, moved, output, uploads, mirror>>
    BY <1>11 DEF InstallReference, AtDestination
  <2>2. UNCHANGED <<stage, made, mirrored>>
    BY <2>1 DEF stage, made, Made, mirrored
  <2>3. moved = Members
    BY <2>1 DEF AllMoved, AtSource, Files, TypeOK
  <2>4. r \notin normal /\ normal' = normal \union {r}
    BY <2>1 DEF normal, Members, TypeOK
  <2>5. Abstract!AllAt(DeleteConfirmed)
    BY <2>1, <1>a DEF Phases
  <2> QED
    BY <2>1, <2>2, <2>3, <2>4, <2>5
       DEF Abstract!Normalize, stage, normal, made, mirrored, Members
<1>12. ASSUME NEW a \in Assets, Convert(a) PROVE Abstract!Convert
  <2>1. Cohort(Reset) /\ UNCHANGED <<records, live, moved, source, uploads, mirror>>
    BY <1>12 DEF Convert
  <2>2. UNCHANGED <<stage, normal, mirrored>> /\ made' \in SUBSET Assets
    BY <2>1 DEF stage, normal, mirrored, made
  <2>3. Abstract!AllAt(Reset)
    BY <2>1, <1>a DEF Phases
  <2> QED
    BY <2>1, <2>2, <2>3 DEF Abstract!Convert, stage, normal, made, mirrored
<1>13. ASSUME ConvertFails PROVE Abstract!Convert
  <2>1. Cohort(Reset) /\ UNCHANGED <<records, live, moved, source, uploads, mirror>>
    BY <1>13 DEF ConvertFails
  <2>2. UNCHANGED <<stage, normal, mirrored>> /\ made' \in SUBSET Assets
    BY <2>1 DEF stage, normal, mirrored, made
  <2>3. Abstract!AllAt(Reset)
    BY <2>1, <1>a DEF Phases
  <2> QED
    BY <2>1, <2>2, <2>3 DEF Abstract!Convert, stage, normal, made, mirrored
<1>c. ASSUME NEW a \in Assets, Since(UploadPrepared),
             uploads' = [uploads EXCEPT ![a] = @ + 1],
             UNCHANGED <<records, live, moved, source, output, mirror>>
      PROVE  Abstract!Upload(a)
  <2> DEFINE p == records[1].phase
  <2>1. p \in UploadPrepared .. Complete /\ p \in Phases /\ Cohort(p)
    BY <1>c, <1>b DEF Phases
  <2>2. \E q \in UploadPrepared .. Complete : Abstract!AllAt(q)
    BY <2>1, <1>a
  <2>3. made = Assets
    BY <1>c, <1>b DEF Files, made, Made, Phases
  <2>4. UNCHANGED <<stage, normal, made, mirrored>>
    BY <1>c DEF stage, normal, made, Made, mirrored
  <2> QED
    BY <1>c, <2>2, <2>3, <2>4 DEF Abstract!Upload, stage, normal, made, mirrored
<1>14. ASSUME NEW a \in Assets, Upload(a) PROVE Abstract!Upload(a)
  <2>1. Cohort(UploadPrepared) /\ UploadPrepared \in Phases
    BY <1>14 DEF Upload, OnlyReplacement, Phases
  <2>2. Since(UploadPrepared)
    BY <2>1, <1>b DEF Phases
  <2> QED
    BY <1>14, <2>2, <1>c DEF Upload, OnlyReplacement
<1>15. ASSUME NEW a \in Assets, UploadUnanswered(a) PROVE UNCHANGED Abstract!avars
  BY <1>15, Unchanged DEF UploadUnanswered
<1>16. ASSUME NEW a \in Assets, FillMirror(a)
       PROVE  Abstract!Mirror(a) \/ UNCHANGED Abstract!avars
  <2>1. Cohort(UploadVerified) /\ UNCHANGED <<records, live, moved, source, output, uploads>>
    BY <1>16 DEF FillMirror
  <2>2. UNCHANGED <<stage, normal, made>>
    BY <2>1 DEF stage, normal, made, Made
  <2>3. Abstract!AllAt(UploadVerified)
    BY <2>1, <1>a DEF Phases
  <2>4. CASE mirror' = [mirror EXCEPT ![a] = "full"]
    <3>1. mirrored' = mirrored \union {a}
      BY <2>4 DEF mirrored, TypeOK
    <3> QED
      BY <2>1, <2>2, <2>3, <3>1 DEF Abstract!Mirror, stage, normal, made, mirrored
  <2>5. CASE mirror[a] = "none" /\ mirror' = [mirror EXCEPT ![a] = "torn"]
    <3>1. mirrored' = mirrored
      BY <2>5 DEF mirrored, TypeOK
    <3> QED
      BY <2>1, <2>2, <3>1, Stutter
  <2> QED
    BY <1>16, <2>4, <2>5 DEF FillMirror
<1>17. ASSUME NEW a \in Assets, MirrorFails(a) PROVE UNCHANGED Abstract!avars
  <2>1. /\ mirror' = [mirror EXCEPT ![a] = "none"] /\ mirror[a] # "full"
        /\ UNCHANGED <<records, live, moved, source, output, uploads>>
    BY <1>17 DEF MirrorFails, At, First, Progress, InPhase
  <2>2. UNCHANGED <<stage, normal, made>>
    BY <2>1 DEF stage, normal, made, Made
  <2>3. mirrored' = mirrored
    BY <2>1 DEF mirrored, TypeOK
  <2> QED
    BY <2>1, <2>2, <2>3, Stutter
<1>18. ASSUME NEW q \in Requests, LateRequest(q)
       PROVE  Abstract!ANext \/ UNCHANGED Abstract!avars
  <2> PICK k \in {"delete", "upload"}, a \in Assets : q = <<k, a>>
    BY DEF Requests
  <2>1. /\ q[1] = k /\ q[2] = a /\ <<k, a>> \in pending
        /\ UNCHANGED <<records, moved, source, output, mirror>>
    BY <1>18 DEF LateRequest
  <2>2. CASE k = "delete" /\ a \in live
    <3>1. live' = live \ {a} /\ uploads' = uploads
      BY <1>18, <2>1, <2>2 DEF LateRequest
    <3>2. Cohort(Prepared)
      BY <2>1, <2>2, <1>b DEF Cloud, Phases
    <3>3. Abstract!AllAt(Prepared) /\ moved = {}
      BY <3>2, <1>a, <1>b DEF Files, Phases
    <3>4. UNCHANGED <<stage, normal, made, mirrored>>
      BY <2>1 DEF stage, normal, made, Made, mirrored
    <3>5. Abstract!DeleteReplacement(a)
      BY <2>1, <2>2, <3>1, <3>3, <3>4
         DEF Abstract!DeleteReplacement, stage, normal, made, mirrored
    <3> QED
      BY <3>5 DEF Abstract!ANext
  <2>3. CASE k = "delete" /\ a \notin live
    <3>1. live' = live /\ uploads' = uploads
      BY <1>18, <2>1, <2>3 DEF LateRequest
    <3> QED
      BY <2>1, <3>1, Unchanged
  <2>4. CASE k = "upload"
    <3>1. uploads' = [uploads EXCEPT ![a] = @ + 1] /\ live' = live
      BY <1>18, <2>1, <2>4 DEF LateRequest
    <3>2. Since(UploadPrepared)
      BY <2>1, <2>4 DEF Cloud
    <3> QED
      BY <2>1, <3>1, <3>2, <1>c DEF Abstract!ANext
  <2> QED BY <2>2, <2>3, <2>4
<1>19. ASSUME Reboot PROVE UNCHANGED Abstract!avars
  BY <1>19, Unchanged DEF Reboot
<1>20. ASSUME NEW partial \in BOOLEAN, MakeReceipt(partial) PROVE UNCHANGED Abstract!avars
  BY <1>20, Unchanged DEF MakeReceipt
<1>21. ASSUME RotateReceipt PROVE UNCHANGED Abstract!avars
  BY <1>21, Unchanged DEF RotateReceipt
<1>23. ASSUME DirectoriesRefused PROVE UNCHANGED Abstract!avars
  BY <1>23, Unchanged DEF DirectoriesRefused
<1>24. ASSUME Slip PROVE UNCHANGED Abstract!avars
  BY <1>24, Unchanged DEF Slip
<1>25. ASSUME RemoveResiduals PROVE UNCHANGED Abstract!avars
  BY <1>25, Unchanged DEF RemoveResiduals
<1>22. ASSUME UNCHANGED vars PROVE UNCHANGED Abstract!avars
  BY <1>22, Unchanged DEF vars
<1> HIDE DEF IInv, Assets
<1> QED
  BY <1>1, <1>2, <1>3, <1>4, <1>5, <1>6, <1>7, <1>8, <1>9, <1>10, <1>11, <1>12, <1>13,
     <1>14, <1>15, <1>16, <1>17, <1>18, <1>19, <1>20, <1>21, <1>22, <1>23, <1>24, <1>25
     DEF Next, RunStep, Operator, AssetStep, Abstract!ANext, Members

(* The journals of the cohort advance together, and every irreversible     *)
(* effect happens in its phase, whatever fails and whenever the run stops. *)
THEOREM Implementation == Spec => ImplementsCohortMigration
<1>1. Init => Abstract!AInit
  BY InitRefines
<1>2. IInv /\ [Next]_vars => [Abstract!ANext]_Abstract!avars
  BY StepRefines
<1> QED
  BY <1>1, <1>2, Invariance, PTL DEF Spec, ImplementsCohortMigration, Abstract!ASpec

-----------------------------------------------------------------------------
(* The quarantine directories.                                             *)

(* In every step about directories the migration waits, or only counts a   *)
(* fault, or ends its run.                                                 *)
THEOREM Composition == RSpec => Spec
<1>1. RInit => Init
  BY DEF RInit
<1>2. [RNext]_allVars => [Next]_vars
  <2> SUFFICES ASSUME [RNext]_allVars PROVE [Next]_vars
    OBVIOUS
  <2> USE DEF Leave, Undoing, Proceed, Goes
  <2>1. ASSUME NEW r \in Roots, MakeStep(r) PROVE [Next]_vars
    BY <2>1 DEF MakeStep, Refuse, Intend, MakeDirectory, MakeDirectoryFails, RecordMade, Commit,
                Committed, SyncFails, RecordGone, Next
  <2>2. ASSUME NEW r \in Roots, UndoStep(r) PROVE [Next]_vars
    BY <2>2 DEF UndoStep, IntendRemoval, RemoveDirectory, RemoveFails, RecordRemoved, Undone,
                WriteFails, Next
  <2>3. ASSUME NEW r \in Roots, RecoverStep(r) PROVE [Next]_vars
    BY <2>3 DEF RecoverStep, IntendRecovery, RecoverDirectory, RecordRecovered, RecoveryRefused,
                Next, Operator
  <2>4. ASSUME BeginMaking \/ Invalidated \/ Left PROVE [Next]_vars
    BY <2>4 DEF BeginMaking, Invalidated, Left, Next
  <2>5. ASSUME Onward \/ RCrash PROVE [Next]_vars
    BY <2>5 DEF Onward, RCrash, Next
  <2>6. ASSUME AuditResiduals \/ BeginRecovery \/ RecoveryFails \/ (\E r \in Roots : TakenAway(r))
        PROVE  [Next]_vars
    BY <2>6 DEF AuditResiduals, BeginRecovery, RecoveryFails, TakenAway, Next
  <2>7. ASSUME \/ \E rec \in BOOLEAN : Start(rec)
               \/ \E partial \in BOOLEAN : MakeReceipt(partial)
               \/ RotateReceipt \/ Reboot
               \/ \E q \in Requests : LateRequest(q)
        PROVE  [Next]_vars
    BY <2>7 DEF Next, Operator
  <2>8. CASE UNCHANGED allVars
    BY <2>8 DEF allVars
  <2> QED
    BY <2>1, <2>2, <2>3, <2>4, <2>5, <2>6, <2>7, <2>8 DEF RNext, RootStep
<1> QED
  BY <1>1, <1>2, PTL DEF RSpec, Spec

Standing(r) == Stands(r) /\ directory[r] # Absent

(* What is left before a migration begins.                                 *)
Before ==
    Cohort(NoPhase) =>
        /\ \A r \in Roots : attempts[r] = <<>>
        /\ task \in {"none", "recover"}
        /\ cohort <=> \E r \in Roots : directory[r] # Absent
        /\ pc # "work" /\ (pc = "persist" => ~cohort)
        /\ \A r \in Roots : removal[r] = "done" => directory[r] = Absent

(* The task belongs to a phase, and the roots before this one stand.       *)
Tasks ==
    /\ task \in {"make", "ready", "undo", "leave"} => pc = "preflight" /\ Cohort(Prepared)
    /\ task = "recover" => pc = "idle" /\ Cohort(NoPhase)
    /\ task \in {"make", "undo", "recover"} => root \in Roots
    /\ task = "make" => \A s \in Roots : s < root => Standing(s)

(* An attempt is closed before the next one.                               *)
Closed == \A r \in Roots : \A i \in 1 .. Len(attempts[r]) - 1 : attempts[r][i].stage = "removed"

Explained(r) ==
    directory[r] # Absent =>
        /\ ~Over(r)
        /\ Latest(r).stage \in {"created", "committed", "removing"} => Latest(r).of = directory[r]

(* The migration is past the making of the directories.                    *)
AllStand ==
    task = "ready" \/ Since(DeleteConfirmed) \/ (Cohort(Prepared) /\ pc \in {"work", "persist"})
        => \A r \in Roots : Standing(r)

RInv ==
    /\ RootsTypeOK /\ Before /\ Tasks /\ Closed /\ AllStand
    /\ ~Cohort(NoPhase) => \A r \in Roots : Explained(r)

-----------------------------------------------------------------------------
LEMMA AttemptTypes ==
  /\ At0 \in Attempts
  /\ \A g \in Stages, d \in Identities \union {Absent} : [stage |-> g, of |-> d] \in Attempts
BY DEF At0, Attempts, Stages

(* A progress file ends the latest attempt or begins one, and leaves the   *)
(* attempts before it and the other roots alone.                           *)
LEMMA PutAttempt ==
  ASSUME attempts \in [Roots -> Seq(Attempts)], Closed,
         NEW r \in Roots, NEW a \in Attempts, Putting(r, a)
  PROVE  /\ attempts' \in [Roots -> Seq(Attempts)] /\ Closed'
         /\ Latest(r)' = a
         /\ \A s \in Roots : s # r => attempts'[s] = attempts[s]
<1> DEFINE q == attempts[r]
<1>1. q \in Seq(Attempts) /\ Len(q) \in Nat
  OBVIOUS
<1>2. \A i \in 1 .. Len(q) - 1 : q[i].stage = "removed"
  BY DEF Closed
<1>3. CASE Over(r)
  <2>1. attempts' = [attempts EXCEPT ![r] = Append(q, a)]
    BY <1>3 DEF Putting
  <2>2. /\ Append(q, a) \in Seq(Attempts) /\ Len(Append(q, a)) = Len(q) + 1
        /\ Append(q, a)[Len(q) + 1] = a /\ Append(q, a) # <<>>
        /\ \A i \in 1 .. Len(q) : Append(q, a)[i] = q[i]
    BY <1>1, AppendProperties
  <2>3. \A i \in 1 .. Len(q) : q[i].stage = "removed"
    <3>1. q # <<>> => q[Len(q)].stage = "removed"
      BY <1>3 DEF Over, Latest
    <3>2. q = <<>> => Len(q) = 0
      OBVIOUS
    <3> HIDE DEF q
    <3> QED
      BY <1>1, <1>2, <3>1, <3>2
  <2>4. attempts' \in [Roots -> Seq(Attempts)] /\ attempts'[r] = Append(q, a)
    BY <2>1, <2>2
  <2>5. \A i \in 1 .. Len(attempts'[r]) - 1 : attempts'[r][i].stage = "removed"
    <3> HIDE DEF q
    <3> QED
      BY <1>1, <2>2, <2>3, <2>4
  <2>6. \A s \in Roots : s # r => attempts'[s] = attempts[s]
    BY <2>1
  <2>7. Latest(r)' = a
    BY <2>2, <2>4, <1>1 DEF Latest
  <2> QED
    BY <2>4, <2>5, <2>6, <2>7 DEF Closed
<1>4. CASE ~Over(r)
  <2> DEFINE e == [q EXCEPT ![Len(q)] = a]
  <2>1. attempts' = [attempts EXCEPT ![r] = e]
    BY <1>4 DEF Putting
  <2>2. q # <<>>
    BY <1>4 DEF Over, Latest, At0
  <2>3. Len(q) \in 1 .. Len(q)
    BY <1>1, <2>2
  <2>4. e \in Seq(Attempts) /\ Len(e) = Len(q) /\ e[Len(q)] = a
        /\ \A i \in 1 .. Len(q) - 1 : e[i] = q[i]
    <3> HIDE DEF q
    <3>1. /\ e \in Seq(Attempts) /\ Len(e) = Len(q)
          /\ \A j \in 1 .. Len(q) : e[j] = IF j = Len(q) THEN a ELSE q[j]
      BY <1>1, <2>3, ExceptSeq
    <3> HIDE DEF e
    <3> QED
      BY <1>1, <2>3, <3>1
  <2> HIDE DEF e
  <2>5. attempts' \in [Roots -> Seq(Attempts)] /\ attempts'[r] = e
    BY <2>1, <2>4
  <2>6. \A i \in 1 .. Len(attempts'[r]) - 1 : attempts'[r][i].stage = "removed"
    BY <1>2, <2>4, <2>5
  <2>7. \A s \in Roots : s # r => attempts'[s] = attempts[s]
    BY <2>1
  <2>8. Latest(r)' = a
    <3>1. e # <<>>
      BY <2>3, <2>4, <1>1
    <3> QED
      BY <2>4, <2>5, <3>1 DEF Latest
  <2> QED
    BY <2>5, <2>6, <2>7, <2>8 DEF Closed
<1> QED
  BY <1>3, <1>4

LEMMA OtherPhases ==
  /\ Cohort(Prepared) => ~Cohort(NoPhase) /\ ~Since(DeleteConfirmed)
  /\ Cohort(NoPhase) => ~Since(DeleteConfirmed)
BY DEF Cohort, Since, Assets, Prepared, NoPhase, DeleteConfirmed

(* A step at Prepared. *)
LEMMA PreparedStep ==
  ASSUME Cohort(Prepared), UNCHANGED records, pc' \in {"preflight", "idle"},
         RootsTypeOK', Tasks', Closed', \A r \in Roots : Explained(r)',
         task' = "ready" => \A r \in Roots : Standing(r)'
  PROVE  RInv'
<1>1. Cohort(Prepared)' /\ ~Cohort(NoPhase)' /\ ~Since(DeleteConfirmed)'
  BY OtherPhases DEF Cohort, Since
<1>2. AllStand'
  BY <1>1 DEF AllStand
<1> QED
  BY <1>1, <1>2 DEF RInv, Before

LEMMA Kept ==
  ASSUME UNCHANGED <<directory, attempts>>
  PROVE  /\ Closed => Closed'
         /\ \A r \in Roots : Standing(r)' = Standing(r) /\ Explained(r)' = Explained(r)
BY DEF Closed, Standing, Stands, Explained, Over, Latest, At0

(* What a new progress file says of the directory of its root. *)
LEMMA PutExplains ==
  ASSUME RInv, ~Cohort(NoPhase), NEW r \in Roots, NEW a \in Attempts, Putting(r, a),
         \A s \in Roots : s # r => directory'[s] = directory[s],
         directory'[r] # Absent =>
             /\ a.stage # "removed"
             /\ a.stage \in {"created", "committed", "removing"} => a.of = directory'[r]
  PROVE  /\ attempts' \in [Roots -> Seq(Attempts)] /\ Closed'
         /\ \A s \in Roots : Explained(s)'
         /\ \A s \in Roots : s # r => Standing(s)' = Standing(s)
         /\ a.stage = "committed" /\ directory'[r] # Absent => Standing(r)'
<1>1. attempts \in [Roots -> Seq(Attempts)] /\ Closed /\ \A s \in Roots : Explained(s)
  BY DEF RInv, RootsTypeOK
<1>2. /\ attempts' \in [Roots -> Seq(Attempts)] /\ Closed'
      /\ Latest(r)' = a
      /\ \A s \in Roots : s # r => attempts'[s] = attempts[s]
  BY <1>1, PutAttempt
<1>3. \A s \in Roots : s # r => /\ Latest(s)' = Latest(s) /\ directory'[s] = directory[s]
                                /\ Explained(s)' = Explained(s)
                                /\ Standing(s)' = Standing(s)
  BY <1>2 DEF Latest, At0, Explained, Standing, Stands, Over
<1>4. Explained(r)'
  BY <1>2 DEF Explained, Over
<1>5. a.stage = "committed" /\ directory'[r] # Absent => Standing(r)'
  BY <1>2 DEF Standing, Stands
<1> QED
  BY <1>1, <1>2, <1>3, <1>4, <1>5

LEMMA EntryType ==
  ASSUME RootsTypeOK, NEW r \in Roots, NEW g \in Stages
  PROVE  Entry(g, r) \in Attempts /\ Entry(g, r).stage = g
         /\ Entry(g, r).of = directory[r]
BY DEF RootsTypeOK, Entry, Attempts

TaskNames == {"none", "make", "ready", "undo", "leave", "recover"}

LEMMA TypesKept ==
  ASSUME RootsTypeOK,
         directory' \in [Roots -> Identities \union {Absent}],
         attempts' \in [Roots -> Seq(Attempts)],
         UNCHANGED <<authority, audit, removal, claim>>,
         task' \in TaskNames, root' \in 0 .. RootCount, failed' \in BOOLEAN
  PROVE  RootsTypeOK'
BY DEF RootsTypeOK, TaskNames

LEMMA RootRange ==
  /\ RootCount \in Roots /\ 0 \in 0 .. RootCount /\ RootCount \in 0 .. RootCount
  /\ 1 \in Roots /\ 1 \in 0 .. RootCount
  /\ \A r \in Roots :
       /\ r \in 0 .. RootCount /\ r - 1 \in 0 .. RootCount
       /\ (r - 1 # 0) => (r - 1 \in Roots)
       /\ (r # RootCount) => (r + 1 \in Roots /\ r + 1 \in 0 .. RootCount)
BY RootsAssumption DEF Roots

(* Making the directories. *)
LEMMA MakeStepInv ==
  ASSUME RInv, NEW r \in Roots, MakeStep(r)
  PROVE  RInv'
<1> USE RootsAssumption DEF Roots
<1>1. task = "make" /\ root = r
  BY DEF MakeStep, Refuse, Intend, MakeDirectory, MakeDirectoryFails, RecordMade, Commit,
         Committed, SyncFails, RecordGone, Making
<1>2. /\ pc = "preflight" /\ Cohort(Prepared) /\ ~Cohort(NoPhase)
      /\ \A s \in Roots : s < r => Standing(s)
      /\ \A s \in Roots : Explained(s)
      /\ RootsTypeOK /\ Closed
  BY <1>1, OtherPhases DEF RInv, Tasks
<1>3. ASSUME UNCHANGED <<directory, attempts>> PROVE
        /\ Closed' /\ \A s \in Roots : Standing(s)' = Standing(s) /\ Explained(s)'
  BY <1>2, <1>3, Kept
<1>4. CASE Refuse(r)
  <2>1. UNCHANGED <<directory, files, records>> /\ pc' \in {"preflight", "idle"}
    BY <1>4, <1>2 DEF Refuse, Undoing, Leave, DirectoriesRefused, Exit, vars, stored
  <2>2. task' \in TaskNames /\ root' \in 0 .. RootCount /\ failed' \in BOOLEAN /\ task' # "ready"
    <3>1. task' \in TaskNames /\ task' # "ready"
      BY <1>4 DEF Refuse, Undoing, Leave, TaskNames
    <3>2. root' \in 0 .. RootCount
      BY <1>4, RootRange DEF Refuse, Undoing, Leave
    <3>3. failed' \in BOOLEAN
      BY <1>4 DEF Refuse, Undoing, Leave
    <3> QED
      BY <3>1, <3>2, <3>3
  <2>3. Tasks'
    BY <1>4, <1>2, <2>1 DEF Refuse, Undoing, Leave, Tasks, Exit, DirectoriesRefused, vars, Cohort
  <2>4. RootsTypeOK'
    BY <1>2, <2>1, <2>2, TypesKept DEF RootsTypeOK, files
  <2> QED
    BY <1>2, <1>3, <2>1, <2>2, <2>3, <2>4, PreparedStep DEF files
<1>5. CASE Intend(r)
  <2>1. /\ Putting(r, Entry("intent", r)) /\ directory[r] = Absent
        /\ UNCHANGED <<directory, authority, audit, removal, claim, records, pc, task, root, failed>>
    BY <1>5 DEF Intend, Goes, vars, stored, control, Making, Mismatch
  <2>2. /\ attempts' \in [Roots -> Seq(Attempts)] /\ Closed'
        /\ \A s \in Roots : Explained(s)'
        /\ \A s \in Roots : s # r => Standing(s)' = Standing(s)
    BY <1>2, <2>1, PutExplains, EntryType DEF Stages
  <2>3. RootsTypeOK' /\ Tasks'
    BY <1>1, <1>2, <2>1, <2>2 DEF RootsTypeOK, Tasks, Cohort
  <2> QED
    BY <1>1, <1>2, <2>1, <2>2, <2>3, PreparedStep
<1>6. CASE MakeDirectory(r)
  <2>1. PICK d \in Identities : directory' = [directory EXCEPT ![r] = d]
    BY <1>6 DEF MakeDirectory
  <2>2. /\ Latest(r).stage = "intent"
        /\ UNCHANGED <<files, records, pc, task, root, failed>>
    BY <1>6 DEF MakeDirectory, Goes, vars, stored, control
  <2>3. \A s \in Roots : Latest(s)' = Latest(s) /\ (s # r => directory'[s] = directory[s])
    BY <2>1, <2>2, <1>2 DEF files, Latest, At0, RootsTypeOK
  <2>4. Closed' /\ \A s \in Roots : Explained(s)' /\ (s # r => Standing(s)' = Standing(s))
    BY <1>2, <2>2, <2>3 DEF Closed, Explained, Over, Standing, Stands, files
  <2>5. RootsTypeOK' /\ Tasks'
    BY <1>1, <1>2, <2>1, <2>2, <2>4 DEF RootsTypeOK, Tasks, files, Cohort
  <2> QED
    BY <1>1, <1>2, <2>2, <2>4, <2>5, PreparedStep
<1>7. CASE MakeDirectoryFails(r)
  <2>1. /\ UNCHANGED <<directory, files, records, pc>>
        /\ task' = "undo" /\ root' = RootCount /\ failed' = FALSE
    BY <1>7 DEF MakeDirectoryFails, Slip, stored
  <2>2. Tasks'
    BY <1>2, <2>1 DEF Tasks, Cohort
  <2>3. RootsTypeOK'
    BY <1>2, <2>1, RootRange, TypesKept DEF RootsTypeOK, TaskNames, files
  <2> QED
    BY <1>2, <1>3, <2>1, <2>2, <2>3, PreparedStep DEF files
<1>8. CASE RecordMade(r)
  <2>1. /\ Putting(r, Entry("created", r))
        /\ UNCHANGED <<directory, authority, audit, removal, claim, records, pc, task, root, failed>>
    BY <1>8 DEF RecordMade, Goes, vars, stored, control
  <2>2. /\ attempts' \in [Roots -> Seq(Attempts)] /\ Closed'
        /\ \A s \in Roots : Explained(s)'
        /\ \A s \in Roots : s # r => Standing(s)' = Standing(s)
    BY <1>2, <2>1, PutExplains, EntryType DEF Stages
  <2>3. RootsTypeOK' /\ Tasks'
    BY <1>1, <1>2, <2>1, <2>2 DEF RootsTypeOK, Tasks, Cohort
  <2> QED
    BY <1>1, <1>2, <2>1, <2>2, <2>3, PreparedStep
<1>9. ASSUME Proceed(r), \A s \in Roots : s <= r => Standing(s)', RootsTypeOK', Closed',
             \A s \in Roots : Explained(s)'
      PROVE  RInv'
  <2>1. UNCHANGED <<records, pc>>
    BY <1>9 DEF Proceed, vars, stored
  <2>2. Tasks' /\ (task' = "ready" => \A s \in Roots : Standing(s)')
    BY <1>2, <1>9, <2>1 DEF Proceed, Tasks, Cohort
  <2> QED
    BY <1>2, <1>9, <2>1, <2>2, PreparedStep
<1>a. ASSUME Proceed(r)
      PROVE  task' \in TaskNames /\ root' \in 0 .. RootCount /\ failed' \in BOOLEAN
  <2>1. task' \in TaskNames
    BY <1>a DEF Proceed, TaskNames
  <2>2. root' \in 0 .. RootCount
    BY <1>a, RootRange DEF Proceed
  <2>3. failed' \in BOOLEAN
    BY <1>a DEF Proceed
  <2> QED
    BY <2>1, <2>2, <2>3
<1>10. CASE Commit(r)
  <2>1. /\ Putting(r, Entry("committed", r)) /\ Proceed(r) /\ directory[r] # Absent
        /\ UNCHANGED <<directory, authority, audit, removal, claim>>
    BY <1>10 DEF Commit
  <2>2. /\ attempts' \in [Roots -> Seq(Attempts)] /\ Closed'
        /\ \A s \in Roots : Explained(s)'
        /\ \A s \in Roots : s # r => Standing(s)' = Standing(s)
        /\ Standing(r)'
    BY <1>2, <2>1, PutExplains, EntryType DEF Stages
  <2>3. RootsTypeOK'
    BY <1>2, <2>1, <2>2, <1>a, TypesKept DEF RootsTypeOK
  <2> QED
    BY <1>2, <2>1, <2>2, <2>3, <1>9
<1>11. CASE Committed(r)
  <2>1. UNCHANGED <<directory, files>> /\ Proceed(r) /\ Standing(r)
    BY <1>11 DEF Committed, Standing
  <2>2. RootsTypeOK'
    BY <1>2, <2>1, <1>a, TypesKept DEF RootsTypeOK, files
  <2> QED
    BY <1>2, <1>3, <2>1, <2>2, <1>9 DEF files
<1>12. CASE SyncFails(r)
  <2>1. CASE /\ Putting(r, Entry("removing", r)) /\ failed' = TRUE
             /\ UNCHANGED <<directory, authority, audit, removal, claim, records, pc, task, root>>
    <3>2. /\ attempts' \in [Roots -> Seq(Attempts)] /\ Closed'
          /\ \A s \in Roots : Explained(s)'
          /\ \A s \in Roots : s # r => Standing(s)' = Standing(s)
      BY <1>2, <2>1, PutExplains, EntryType DEF Stages
    <3>3. RootsTypeOK' /\ Tasks'
      BY <1>1, <1>2, <2>1, <3>2 DEF RootsTypeOK, Tasks, Cohort
    <3> QED
      BY <1>1, <1>2, <2>1, <3>2, <3>3, PreparedStep
  <2>2. CASE /\ UNCHANGED <<directory, files, records, pc, failed>>
             /\ task' = "undo" /\ root' = RootCount
    <3>1. RootsTypeOK' /\ Tasks'
      BY <1>2, <2>2 DEF RootsTypeOK, Tasks, files, Cohort
    <3> QED
      BY <1>2, <1>3, <2>2, <3>1, PreparedStep DEF files
  <2> QED
    BY <1>12, <2>1, <2>2 DEF SyncFails, Slip, stored, files
<1>13. CASE RecordGone(r)
  <2>1. /\ Putting(r, Entry("removing", r))
        /\ UNCHANGED <<directory, authority, audit, removal, claim, records, pc, task, root, failed>>
    BY <1>13 DEF RecordGone, Goes, vars, stored, control
  <2>2. /\ attempts' \in [Roots -> Seq(Attempts)] /\ Closed'
        /\ \A s \in Roots : Explained(s)'
        /\ \A s \in Roots : s # r => Standing(s)' = Standing(s)
    BY <1>2, <2>1, PutExplains, EntryType DEF Stages
  <2>3. RootsTypeOK' /\ Tasks'
    BY <1>1, <1>2, <2>1, <2>2 DEF RootsTypeOK, Tasks, Cohort
  <2> QED
    BY <1>1, <1>2, <2>1, <2>2, <2>3, PreparedStep
<1> QED
  BY <1>4, <1>5, <1>6, <1>7, <1>8, <1>10, <1>11, <1>12, <1>13 DEF MakeStep

(* Undoing it, and the failures of a write. *)
LEMMA UndoStepInv ==
  ASSUME RInv, NEW r \in Roots, UndoStep(r)
  PROVE  RInv'
<1>1. task \in {"make", "undo"} /\ root = r
  BY DEF UndoStep, IntendRemoval, RemoveDirectory, RemoveFails, RecordRemoved, Undone,
         WriteFails, Writes, Removing, Making
<1>2. /\ pc = "preflight" /\ Cohort(Prepared) /\ ~Cohort(NoPhase)
      /\ task = "make" => \A s \in Roots : s < r => Standing(s)
      /\ \A s \in Roots : Explained(s)
      /\ RootsTypeOK /\ Closed
  BY <1>1, OtherPhases DEF RInv, Tasks
<1>3. ASSUME UNCHANGED <<directory, attempts>> PROVE
        /\ Closed' /\ \A s \in Roots : Standing(s)' = Standing(s) /\ Explained(s)'
  BY <1>2, <1>3, Kept
<1>6. \A s \in Roots : s < r => s # r
  BY DEF Roots
<1>7. failed \in BOOLEAN /\ root \in 0 .. RootCount /\ task \in TaskNames
  BY <1>2 DEF RootsTypeOK, TaskNames
<1>t. /\ "undo" \in TaskNames /\ "leave" \in TaskNames /\ "none" \in TaskNames
  BY DEF TaskNames
(* What the end of the work on this root leaves to do. *)
<1>8. ASSUME \/ /\ task' = "undo" /\ root' = r - 1 /\ r # 1
             \/ task' = "undo" /\ root' = RootCount
             \/ task' = "leave" /\ root' = 0,
             failed' = FALSE, UNCHANGED <<records, pc, authority, audit, removal, claim>>,
             directory' \in [Roots -> Identities \union {Absent}],
             attempts' \in [Roots -> Seq(Attempts)], Closed', \A s \in Roots : Explained(s)'
      PROVE  RInv'
  <2>a. \/ task' = "undo" /\ root' = r - 1 /\ r # 1
        \/ task' = "undo" /\ root' = RootCount
        \/ task' = "leave" /\ root' = 0
    BY <1>8
  <2>1. root' \in 0 .. RootCount
    BY <2>a, RootsAssumption DEF Roots
  <2>2. task' = "undo" => root' \in Roots
    BY <2>a, RootsAssumption DEF Roots
  <2>3. task' \in {"undo", "leave"}
    BY <1>8
  <2>4. RootsTypeOK'
    BY <1>2, <1>8, <2>1, <2>3, <1>t, TypesKept
  <2>5. Tasks'
    BY <1>2, <1>8, <2>2, <2>3 DEF Tasks, Cohort
  <2> QED
    BY <1>2, <1>8, <2>3, <2>4, <2>5, PreparedStep
<1>9. CASE IntendRemoval(r)
  <2>1. /\ Putting(r, Entry("removing", r)) /\ task = "undo"
        /\ UNCHANGED <<directory, authority, audit, removal, claim, records, pc, task, root, failed>>
    BY <1>9 DEF IntendRemoval, Goes, vars, stored, control
  <2>2. /\ attempts' \in [Roots -> Seq(Attempts)] /\ Closed'
        /\ \A s \in Roots : Explained(s)'
    BY <1>2, <2>1, PutExplains, EntryType DEF Stages
  <2>3. RootsTypeOK' /\ Tasks'
    BY <1>1, <1>2, <2>1, <2>2 DEF RootsTypeOK, Tasks, Cohort
  <2> QED
    BY <1>1, <1>2, <2>1, <2>2, <2>3, PreparedStep
<1>10. CASE RemoveDirectory(r)
  <2>1. /\ directory' = [directory EXCEPT ![r] = Absent]
        /\ UNCHANGED <<files, records, pc, task, root, failed>>
    BY <1>10 DEF RemoveDirectory, Goes, vars, stored, control
  <2>2. /\ \A s \in Roots : Latest(s)' = Latest(s) /\ (s # r => directory'[s] = directory[s])
        /\ directory'[r] = Absent
    BY <2>1, <1>2 DEF files, Latest, At0, RootsTypeOK
  <2>3. Closed' /\ \A s \in Roots : Explained(s)' /\ (s # r => Standing(s)' = Standing(s))
    BY <1>2, <2>1, <2>2 DEF Closed, Explained, Over, Standing, Stands, files
  <2>4. RootsTypeOK' /\ Tasks'
    BY <1>1, <1>2, <1>6, <2>1, <2>3 DEF RootsTypeOK, Tasks, files, Cohort
  <2> QED
    BY <1>1, <1>2, <2>1, <2>3, <2>4, PreparedStep
<1>11. ASSUME NEW a \in Attempts, a.stage = "removed", Putting(r, a),
              directory' \in [Roots -> Identities \union {Absent}], directory'[r] = Absent,
              \A s \in Roots : s # r => directory'[s] = directory[s]
       PROVE  /\ attempts' \in [Roots -> Seq(Attempts)] /\ Closed'
              /\ \A s \in Roots : Explained(s)' /\ (s # r => Standing(s)' = Standing(s))
  BY <1>2, <1>11, PutExplains
<1>12. [stage |-> "removed", of |-> Latest(r).of] \in Attempts
  <2>1. Latest(r) \in Attempts
    <3>1. attempts[r] \in Seq(Attempts)
      BY <1>2 DEF RootsTypeOK
    <3>2. attempts[r] # <<>> => Len(attempts[r]) \in 1 .. Len(attempts[r])
      BY <3>1
    <3> QED
      BY <3>1, <3>2, AttemptTypes DEF Latest
  <2> QED
    BY <2>1 DEF Attempts, Stages
<1>13. CASE RemoveFails(r)
  <2>1. /\ \/ task' = "undo" /\ root' = r - 1 /\ r # 1
           \/ task' = "leave" /\ root' = 0
        /\ failed' = FALSE /\ UNCHANGED <<records, pc, authority, audit, removal, claim>>
    <3>1. r > 1 => r # 1
      BY DEF Roots
    <3> QED
      BY <1>13, <3>1 DEF RemoveFails, Slip, stored
  <2>2. CASE UNCHANGED <<directory, attempts>>
    <3>1. /\ directory' \in [Roots -> Identities \union {Absent}]
          /\ attempts' \in [Roots -> Seq(Attempts)]
      BY <1>2, <2>2 DEF RootsTypeOK
    <3> QED
      BY <2>1, <2>2, <3>1, <1>3, <1>8
  <2>3. CASE /\ directory' = [directory EXCEPT ![r] = Absent]
             /\ Putting(r, [stage |-> "removed", of |-> Latest(r).of])
    <3>1. /\ directory' \in [Roots -> Identities \union {Absent}] /\ directory'[r] = Absent
          /\ \A s \in Roots : s # r => directory'[s] = directory[s]
      BY <1>2, <2>3 DEF RootsTypeOK
    <3>2. /\ attempts' \in [Roots -> Seq(Attempts)] /\ Closed'
          /\ \A s \in Roots : Explained(s)'
      BY <1>11, <1>12, <2>3, <3>1
    <3> QED
      BY <2>1, <3>1, <3>2, <1>8
  <2> QED
    BY <1>13, <2>2, <2>3 DEF RemoveFails
<1>14. CASE RecordRemoved(r)
  <2>1. /\ Putting(r, [stage |-> "removed", of |-> Latest(r).of]) /\ directory[r] = Absent
        /\ UNCHANGED <<directory, authority, audit, removal, claim, records, pc>>
        /\ \/ UNCHANGED <<task, root, failed>>
           \/ task' = "undo" /\ root' = RootCount /\ failed' = FALSE
    BY <1>14 DEF RecordRemoved, Goes, vars, stored, control
  <2>2. directory' \in [Roots -> Identities \union {Absent}]
    BY <1>2, <2>1 DEF RootsTypeOK
  <2>3. /\ attempts' \in [Roots -> Seq(Attempts)] /\ Closed'
        /\ \A s \in Roots : Explained(s)' /\ (s # r => Standing(s)' = Standing(s))
    BY <1>11, <1>12, <2>1, <2>2
  <2>4. CASE UNCHANGED <<task, root, failed>>
    <3>1. RootsTypeOK' /\ Tasks'
      BY <1>1, <1>2, <1>6, <2>1, <2>3, <2>4 DEF RootsTypeOK, Tasks, Cohort
    <3> QED
      BY <1>1, <1>2, <2>1, <2>3, <2>4, <3>1, PreparedStep
  <2>5. CASE task' = "undo" /\ root' = RootCount /\ failed' = FALSE
    BY <2>1, <2>2, <2>3, <2>5, <1>8
  <2> QED
    BY <2>1, <2>4, <2>5
<1>15. CASE Undone(r)
  <2>1. UNCHANGED <<directory, files, records>> /\ pc' \in {"preflight", "idle"}
    BY <1>15, <1>2 DEF Undone, Undoing, Leave, DirectoriesRefused, Exit, vars, stored
  <2>2. /\ \/ task' = "none" /\ root' = 0
           \/ task' = "undo" /\ root' = r - 1 /\ r - 1 # 0 /\ pc' = pc
        /\ failed' = FALSE
    BY <1>15 DEF Undone, Undoing, Leave, vars
  <2>a. root' = 0 \/ (root' = r - 1 /\ r - 1 # 0)
    BY <2>2
  <2>b. task' = "undo" => root' = r - 1 /\ r - 1 # 0
    BY <2>2
  <2>3. root' \in 0 .. RootCount /\ (task' = "undo" => root' \in Roots)
    BY <2>a, <2>b, RootsAssumption DEF Roots
  <2>4. RootsTypeOK'
    BY <1>2, <2>1, <2>2, <2>3, <1>t, TypesKept DEF RootsTypeOK, files
  <2>5. Tasks'
    BY <1>2, <2>1, <2>2, <2>3 DEF Tasks, Cohort
  <2> QED
    BY <1>2, <1>3, <2>1, <2>2, <2>4, <2>5, PreparedStep DEF files
<1>16. CASE WriteFails(r)
  <2>1. /\ \/ task' = "undo" /\ root' = r - 1 /\ r # 1
           \/ task' = "leave" /\ root' = 0
        /\ failed' = FALSE /\ UNCHANGED <<records, pc, directory, files>>
    <3>1. r > 1 => r # 1
      BY DEF Roots
    <3> QED
      BY <1>16, <3>1 DEF WriteFails, Slip, stored
  <2>2. /\ directory' \in [Roots -> Identities \union {Absent}]
        /\ attempts' \in [Roots -> Seq(Attempts)]
    BY <1>2, <2>1 DEF RootsTypeOK, files
  <2> QED
    BY <2>1, <2>2, <1>3, <1>8 DEF files
<1> QED
  BY <1>9, <1>10, <1>13, <1>14, <1>15, <1>16 DEF UndoStep

(* A step before the migration has begun.                                  *)
LEMMA BeforeStep ==
  ASSUME RInv, Cohort(NoPhase), UNCHANGED <<records, attempts, pc>>, pc = "idle",
         RootsTypeOK', task' \in {"none", "recover"}, task' = "recover" => root' \in Roots,
         cohort' <=> \E r \in Roots : directory'[r] # Absent,
         \A r \in Roots : removal'[r] = "done" => directory'[r] = Absent
  PROVE  RInv'
<1>1. Cohort(NoPhase)' /\ ~Since(DeleteConfirmed)' /\ ~Cohort(Prepared)'
  BY OtherPhases DEF Cohort, Since
<1>2. Before' /\ Tasks'
  BY <1>1 DEF RInv, Before, Tasks
<1>3. Closed' /\ AllStand'
  BY <1>1 DEF RInv, Closed, AllStand
<1> QED
  BY <1>1, <1>2, <1>3 DEF RInv

LEMMA RecoverStepInv ==
  ASSUME RInv, NEW r \in Roots, RecoverStep(r)
  PROVE  RInv'
<1>1. task = "recover" /\ root = r
  BY DEF RecoverStep, IntendRecovery, RecoverDirectory, RecordRecovered, RecoveryRefused, Recovering
<1>2. /\ pc = "idle" /\ Cohort(NoPhase) /\ RootsTypeOK
      /\ cohort <=> \E s \in Roots : directory[s] # Absent
      /\ \A s \in Roots : removal[s] = "done" => directory[s] = Absent
  BY <1>1 DEF RInv, Tasks, Before
<1>3. CASE IntendRecovery(r)
  <2>1. /\ removal' = [removal EXCEPT ![r] = "intent"]
        /\ UNCHANGED <<records, pc, cohort, directory, attempts, authority, audit, claim, control>>
    BY <1>3 DEF IntendRecovery, Goes, vars, stored, disk
  <2>2. RootsTypeOK'
    BY <1>2, <2>1 DEF RootsTypeOK, control
  <2>3. \A s \in Roots : removal'[s] = "done" => directory'[s] = Absent
    BY <1>2, <2>1 DEF RootsTypeOK
  <2> QED
    BY <1>1, <1>2, <2>1, <2>2, <2>3, BeforeStep DEF control
<1>4. CASE RecoverDirectory(r)
  <2>1. /\ directory' = [directory EXCEPT ![r] = Absent] /\ directory[r] # Absent
        /\ UNCHANGED <<records, pc, files, control>>
        /\ IF \A s \in Roots : directory'[s] = Absent THEN cohort' = FALSE ELSE cohort' = cohort
    BY <1>4 DEF RecoverDirectory, RemoveResiduals, vars, stored, disk
  <2>2. RootsTypeOK'
    BY <1>2, <2>1 DEF RootsTypeOK, files, control
  <2>3. \A s \in Roots : directory'[s] = IF s = r THEN Absent ELSE directory[s]
    BY <1>2, <2>1 DEF RootsTypeOK
  <2>4. cohort' <=> \E s \in Roots : directory'[s] # Absent
    BY <1>2, <2>1
  <2> QED
    BY <1>1, <1>2, <2>1, <2>2, <2>3, <2>4, BeforeStep DEF control, files
<1>5. CASE RecordRecovered(r)
  <2>1. /\ removal' = [removal EXCEPT ![r] = "done"] /\ directory[r] = Absent
        /\ UNCHANGED <<records, pc, cohort, directory, attempts, authority, audit, claim, failed>>
        /\ NextRecovery(r)
    BY <1>5 DEF RecordRecovered, NextRecovery, vars, stored, disk
  <2>2. /\ task' \in {"none", "recover"} /\ root' \in 0 .. RootCount
        /\ task' = "recover" => root' \in Roots
    BY <2>1, RootsAssumption DEF NextRecovery, Roots
  <2>3. RootsTypeOK'
    BY <1>2, <2>1, <2>2 DEF RootsTypeOK
  <2>4. \A s \in Roots : removal'[s] = "done" => directory'[s] = Absent
    BY <1>2, <2>1 DEF RootsTypeOK
  <2> QED
    BY <1>2, <2>1, <2>2, <2>3, <2>4, BeforeStep
<1>6. CASE RecoveryRefused(r)
  <2>1. /\ task' = "none" /\ root' = 0 /\ UNCHANGED failed
        /\ UNCHANGED <<records, pc, cohort, directory, files>>
    BY <1>6 DEF RecoveryRefused, vars, stored, disk
  <2>2. RootsTypeOK'
    BY <1>2, <2>1, RootRange DEF RootsTypeOK, files
  <2> QED
    BY <1>2, <2>1, <2>2, BeforeStep DEF files
<1> QED
  BY <1>3, <1>4, <1>5, <1>6 DEF RecoverStep

(* What the operator, a failed removal and others do meanwhile.            *)
LEMMA BetweenInv ==
  ASSUME RInv,
         AuditResiduals \/ BeginRecovery \/ RecoveryFails \/ \E r \in Roots : TakenAway(r)
  PROVE  RInv'
<1>1. CASE AuditResiduals
  <2>1. /\ pc = "idle" /\ Cohort(NoPhase) /\ task = "none"
        /\ audit' = directory
        /\ UNCHANGED <<records, pc, cohort, directory, attempts, authority, removal, claim, control>>
    BY <1>1 DEF AuditResiduals, Between, vars, stored, disk
  <2>2. RootsTypeOK'
    BY <2>1 DEF RInv, RootsTypeOK, control
  <2> QED
    BY <2>1, <2>2, BeforeStep DEF RInv, Before, control
<1>2. CASE BeginRecovery
  <2>1. /\ pc = "idle" /\ Cohort(NoPhase) /\ task' = "recover" /\ root' = 1 /\ claim' = "whole"
        /\ UNCHANGED <<records, pc, cohort, directory, attempts, authority, removal, audit, failed>>
    BY <1>2 DEF BeginRecovery, MayRecover, Between, vars, stored, disk
  <2>2. RootsTypeOK'
    BY <2>1, RootRange DEF RInv, RootsTypeOK, FileStates
  <2> QED
    BY <2>1, <2>2, RootRange, BeforeStep DEF RInv, Before
<1>3. CASE RecoveryFails
  <2>1. /\ task' = "none" /\ root' = 0 /\ UNCHANGED failed
        /\ UNCHANGED <<records, pc, cohort, directory, attempts, authority, audit>>
    BY <1>3 DEF RecoveryFails, Slip, stored, disk
  <2>2. /\ pc = "idle" /\ Cohort(NoPhase)
    BY <1>3 DEF RecoveryFails, MayRecover, Between, RecoveryWrites, Recovering, RInv, Tasks
  <2>3. claim' \in FileStates
    BY <1>3 DEF RecoveryFails, RInv, RootsTypeOK, FileStates
  <2>4. /\ removal' \in [Roots -> {"none", "intent", "done", "torn"}]
        /\ \A r \in Roots : removal'[r] = "done" => removal[r] = "done"
    BY <1>3 DEF RecoveryFails, RInv, RootsTypeOK
  <2>5. RootsTypeOK'
    BY <2>1, <2>3, <2>4, RootRange DEF RInv, RootsTypeOK
  <2> QED
    BY <2>1, <2>2, <2>4, <2>5, BeforeStep DEF RInv, Before
<1>4. ASSUME NEW r \in Roots, TakenAway(r) PROVE RInv'
  <2>1. /\ pc = "idle" /\ task = "none" /\ Cohort(Prepared)
        /\ directory' = [directory EXCEPT ![r] = Absent]
        /\ UNCHANGED <<records, pc, files, control>>
    BY <1>4 DEF TakenAway, Between, Slip, stored
  <2>2. \A s \in Roots : directory'[s] = IF s = r THEN Absent ELSE directory[s]
    BY <2>1 DEF RInv, RootsTypeOK
  <2>3. RootsTypeOK' /\ Tasks' /\ Closed'
    BY <2>1 DEF RInv, RootsTypeOK, Tasks, Closed, files, control, Cohort
  <2>4. \A s \in Roots : Explained(s)'
    BY <2>1, <2>2, OtherPhases DEF RInv, Explained, Over, Latest, At0, files
  <2> QED
    BY <2>1, <2>3, <2>4, PreparedStep DEF control
<1> QED
  BY <1>1, <1>2, <1>3, <1>4

(* The run dies, a progress file it writes cut off or not.                 *)
LEMMA CrashInv ==
  ASSUME RInv, RCrash
  PROVE  RInv'
<1>1. /\ task' = "none" /\ root' = 0 /\ failed' = FALSE /\ pc' = "idle" /\ pc # "idle"
      /\ UNCHANGED <<records, cohort, directory, audit, removal, claim>>
  BY DEF RCrash, Crash, Exit, stored, disk
<1>2. CASE attempts' = attempts
  <2>1. authority' \in FileStates
    BY <1>2 DEF RCrash, RInv, RootsTypeOK, FileStates
  <2>2. RootsTypeOK'
    BY <1>1, <1>2, <2>1, RootRange DEF RInv, RootsTypeOK
  <2>3. Closed' /\ \A s \in Roots : Standing(s)' = Standing(s) /\ Explained(s)' = Explained(s)
    BY <1>1, <1>2, Kept DEF RInv
  <2>4. Before' /\ Tasks' /\ AllStand'
    BY <1>1, <1>2, <2>3 DEF RInv, Before, Tasks, AllStand, Cohort, Since
  <2> QED
    BY <1>1, <2>2, <2>3, <2>4 DEF RInv, Cohort
<1>3. ASSUME NEW r \in Roots, Writes(r), Putting(r, Entry("torn", r)), UNCHANGED authority
      PROVE  RInv'
  <2>1. Cohort(Prepared) /\ ~Cohort(NoPhase)
    BY <1>3, OtherPhases DEF Writes, Making, Removing, RInv, Tasks
  <2>2. /\ attempts' \in [Roots -> Seq(Attempts)] /\ Closed'
        /\ \A s \in Roots : Explained(s)'
    BY <1>1, <1>3, <2>1, PutExplains, EntryType DEF Stages, RInv
  <2>3. RootsTypeOK'
    BY <1>1, <1>3, <2>2, RootRange DEF RInv, RootsTypeOK
  <2>4. Tasks'
    BY <1>1 DEF Tasks
  <2> QED
    BY <1>1, <2>1, <2>2, <2>3, <2>4, PreparedStep
<1> QED
  BY <1>2, <1>3 DEF RCrash

(* Steps of the migration itself. *)
LEMMA OnwardInv ==
  ASSUME RInv, IInv, Onward
  PROVE  RInv'
<1> USE DEF Assets, NoPhase, Prepared, DeleteConfirmed
<1>1. /\ RunStep /\ task' = "none" /\ UNCHANGED <<directory, files, root, failed>>
      /\ \/ task = "none" /\ ~MayBegin
         \/ task = "ready" /\ pc = "preflight" /\ Cohort(Prepared)
  BY DEF Onward, RInv, Tasks
<1>2. RootsTypeOK' /\ Tasks'
  <2>1. RootsTypeOK'
    BY <1>1 DEF RInv, RootsTypeOK, files
  <2>2. Tasks'
    BY <1>1 DEF Tasks
  <2> QED
    BY <2>1, <2>2
<1>3. Closed' /\ \A s \in Roots : Standing(s)' = Standing(s) /\ Explained(s)' = Explained(s)
  BY <1>1, Kept DEF RInv, files
<1>4. attempts' = attempts /\ removal' = removal /\ directory' = directory /\ task' = "none"
  BY <1>1 DEF files
<1>5. CASE Preflight
  <2>1. /\ pc = "preflight" /\ UNCHANGED records
        /\ ~Cohort(Prepared) => cohort' = cohort \/ ~PreflightPasses
        /\ ~PreflightPasses => pc' = "idle" /\ cohort' = cohort
        /\ pc' \in {"idle", "work", "persist"}
    BY <1>5 DEF Preflight, At, Exit, stored, IInv, TypeOK
  <2>2. Before'
    <3>1. ASSUME Cohort(NoPhase) PROVE cohort' = cohort /\ (pc' = "persist" => ~cohort) /\ pc' # "work"
      <4>1. ~Cohort(Prepared) /\ ~Since(DeleteConfirmed)
        BY <3>1, OtherPhases
      <4>2. ~\E p \in Working : Cohort(p)
        BY <3>1 DEF Working, Cohort, Reset, UploadPrepared, UploadVerified
      <4> QED
        BY <1>5, <2>1, <3>1, <4>1, <4>2 DEF Preflight, PreflightPasses, MembersPlaced, Exit
    <3> QED
      BY <1>4, <2>1, <3>1 DEF RInv, Before, Cohort
  <2>3. AllStand'
    <3>1. ASSUME Cohort(Prepared), pc' \in {"work", "persist"} PROVE task = "ready"
      BY <1>1, <2>1, <3>1 DEF MayBegin
    <3> QED
      BY <1>3, <1>4, <2>1, <3>1 DEF RInv, AllStand, Cohort, Since
  <2> QED
    BY <1>2, <1>3, <2>1, <2>2, <2>3 DEF RInv, Cohort
<1>6. CASE Persist
  <2>1. pc = "persist" /\ pc' = "export" /\ cohort' = cohort /\ task = "none"
    BY <1>1, <1>6 DEF Persist, At, disk
  <2>2. \A a \in Assets : records'[a].phase = records[a].phase + 1 /\ records[a].phase \in Phases
    BY <1>6, OnePhase, CandidateFields DEF Persist, IInv, TypeOK, Lineage, Records
  <2>3. ~Cohort(NoPhase)' /\ Before'
    BY <2>2 DEF Before, Cohort, Phases, Complete
  <2>4. \A s \in Roots : Explained(s)
    <3>1. ASSUME Cohort(NoPhase) PROVE \A s \in Roots : directory[s] = Absent
      BY <2>1, <3>1 DEF RInv, Before
    <3> QED
      BY <3>1 DEF RInv, Explained
  <2>5. AllStand'
    <3>1. ASSUME Since(DeleteConfirmed)' PROVE Since(DeleteConfirmed) \/ Cohort(Prepared)
      BY <2>2, <3>1, OnePhase DEF Since, Cohort, Phases, Complete, IInv, Lineage
    <3> QED
      BY <1>3, <1>4, <2>1, <3>1 DEF RInv, AllStand
  <2> QED
    BY <1>2, <1>3, <2>3, <2>4, <2>5 DEF RInv
<1>7. ASSUME UNCHANGED <<records, cohort>>, pc' \notin {"work", "persist"} \/ pc \in {"work", "persist"},
             pc' = "work" => pc = "work", pc' = "persist" => pc \in {"work", "persist"}
      PROVE  RInv'
  <2>1. Before'
    BY <1>4, <1>7 DEF RInv, Before, Cohort
  <2>2. AllStand'
    BY <1>3, <1>4, <1>7 DEF RInv, AllStand, Cohort, Since
  <2> QED
    BY <1>2, <1>3, <1>7, <2>1, <2>2 DEF RInv, Cohort
<1>8. CASE WorkDone
  BY <1>7, <1>8 DEF WorkDone, At, stored, disk
<1>9. CASE Export
  BY <1>7, <1>9 DEF Export, At, disk
<1>10. CASE ConvertFails
  BY <1>7, <1>10 DEF ConvertFails, Exit, stored
<1>11. ASSUME NEW a \in Assets, AssetStep(a) PROVE RInv'
  <2> USE <1>7, <1>11 DEF At, Exit, stored, disk
  <2>1. CASE DeleteReplacement(a)
    BY <2>1 DEF DeleteReplacement
  <2>2. CASE DeleteUnanswered(a)
    BY <2>2 DEF DeleteUnanswered
  <2>3. CASE Convert(a)
    BY <2>3 DEF Convert
  <2>4. CASE Upload(a)
    BY <2>4 DEF Upload
  <2>5. CASE UploadUnanswered(a)
    BY <2>5 DEF UploadUnanswered
  <2>6. CASE FillMirror(a)
    BY <2>6 DEF FillMirror
  <2>7. CASE MirrorFails(a)
    BY <2>7 DEF MirrorFails
  <2> QED
    BY <2>1, <2>2, <2>3, <2>4, <2>5, <2>6, <2>7 DEF AssetStep
<1>12. ASSUME NEW m \in Members, Quarantine(m) PROVE RInv'
  BY <1>7, <1>12 DEF Quarantine, At, Exit, stored
<1>13. ASSUME NEW r \in References, Normalize(r) \/ InstallReference(r) PROVE RInv'
  BY <1>7, <1>13 DEF Normalize, InstallReference, At, stored
<1> QED
  BY <1>1, <1>5, <1>6, <1>8, <1>9, <1>10, <1>11, <1>12, <1>13 DEF RunStep

(* Steps around a run while nothing is done about directories, or that     *)
(* have nothing to do with them.                                           *)
LEMMA AsideInv ==
  ASSUME RInv, UNCHANGED <<rootVars, records, cohort>>,
         pc' = pc \/ (task = "none" /\ pc' \in {"preflight", "export"})
  PROVE  RInv'
<1>1. UNCHANGED <<directory, attempts, removal, authority, audit, claim, task, root, failed>>
  BY DEF rootVars, files, control
<1>2. RootsTypeOK' /\ Closed'
  BY <1>1 DEF RInv, RootsTypeOK, Closed
<1>3. \A s \in Roots : Standing(s)' = Standing(s) /\ Explained(s)' = Explained(s)
  BY <1>1, Kept
<1>4. Tasks'
  BY <1>1, <1>3 DEF RInv, Tasks, Cohort
<1>5. Before' /\ AllStand'
  BY <1>1, <1>3 DEF RInv, Before, AllStand, Cohort, Since
<1> QED
  BY <1>2, <1>3, <1>4, <1>5 DEF RInv, Cohort

LEMMA RootsInit == RInit => RInv
<1> SUFFICES ASSUME RInit PROVE RInv
  OBVIOUS
<1>1. /\ Cohort(NoPhase) /\ ~Cohort(Prepared) /\ ~Since(DeleteConfirmed) /\ pc = "idle"
  BY DEF RInit, Init, Cohort, Since, Assets, LegacyRecord, NoPhase, Prepared, DeleteConfirmed
<1>2. RootsTypeOK
  <2>1. /\ directory \in [Roots -> Identities \union {Absent}]
        /\ attempts \in [Roots -> Seq(Attempts)]
        /\ audit \in [Roots -> Identities \union {Absent}]
        /\ removal \in [Roots -> {"none", "intent", "done", "torn"}]
    BY RootsAssumption DEF RInit, NoAudit
  <2> QED
    BY <2>1, RootRange DEF RInit, RootsTypeOK, FileStates
<1>3. Before /\ Tasks /\ Closed /\ AllStand
  BY <1>1 DEF RInit, Before, Tasks, Closed, AllStand
<1> QED
  BY <1>1, <1>2, <1>3 DEF RInv

LEMMA RootsStep == IInv /\ RInv /\ [RNext]_allVars => RInv'
<1> SUFFICES ASSUME IInv, RInv, [RNext]_allVars PROVE RInv'
  OBVIOUS
<1>1. ASSUME NEW r \in Roots, MakeStep(r) \/ UndoStep(r) \/ RecoverStep(r) PROVE RInv'
  BY <1>1, MakeStepInv, UndoStepInv, RecoverStepInv
<1>2. CASE BeginMaking
  <2>1. /\ Cohort(Prepared) /\ UNCHANGED <<records, directory, attempts, audit, removal, claim>>
        /\ pc = "preflight" /\ pc' \in {"preflight", "idle"}
        /\ authority' \in {authority, "whole"}
        /\ \/ task' = "make" /\ root' = 1 /\ pc' = pc /\ failed' = failed
           \/ task' = "none" /\ root' = 0 /\ failed' = FALSE
    BY <1>2 DEF BeginMaking, MayBegin, Leave, DirectoriesRefused, Exit, vars, stored
  <2>2. RootsTypeOK'
    BY <2>1, RootRange DEF RInv, RootsTypeOK, FileStates
  <2>3. Tasks'
    <3>1. \A s \in Roots : ~(s < 1)
      BY DEF Roots
    <3> QED
      BY <2>1, <3>1, RootRange DEF Tasks, Cohort
  <2>4. Closed' /\ \A s \in Roots : Explained(s)'
    BY <2>1, Kept, OtherPhases DEF RInv
  <2> QED
    BY <2>1, <2>2, <2>3, <2>4, PreparedStep
<1>3. CASE Invalidated \/ Left
  <2>1. /\ Cohort(Prepared) /\ UNCHANGED <<records, directory, files>>
        /\ pc = "preflight" /\ pc' \in {"preflight", "idle"}
        /\ \/ task' = "undo" /\ root' = RootCount /\ pc' = pc /\ failed' = failed
           \/ task' = "none" /\ root' = 0 /\ failed' = FALSE
    BY <1>3 DEF Invalidated, Slip, Left, Leave, DirectoriesRefused, Exit, stored, RInv, Tasks
  <2>2. RootsTypeOK'
    BY <2>1, RootRange DEF RInv, RootsTypeOK, files
  <2>3. Tasks'
    BY <2>1, RootRange DEF Tasks, Cohort
  <2>4. Closed' /\ \A s \in Roots : Explained(s)'
    BY <2>1, Kept, OtherPhases DEF RInv, files
  <2> QED
    BY <2>1, <2>2, <2>3, <2>4, PreparedStep
<1>4. CASE Onward
  BY <1>4, OnwardInv
<1>5. CASE RCrash
  BY <1>5, CrashInv
<1>6. CASE AuditResiduals \/ BeginRecovery \/ RecoveryFails \/ \E r \in Roots : TakenAway(r)
  BY <1>6, BetweenInv
<1>7. ASSUME NEW rec \in BOOLEAN, Start(rec), Waiting PROVE RInv'
  BY <1>7, AsideInv DEF Start, Waiting, stored, disk
<1>8. ASSUME NEW partial \in BOOLEAN, MakeReceipt(partial), Waiting PROVE RInv'
  BY <1>8, AsideInv DEF MakeReceipt, Waiting, stored, disk
<1>9. CASE (RotateReceipt \/ Reboot) /\ Waiting
  BY <1>9, AsideInv DEF RotateReceipt, Reboot, Waiting, stored, disk
<1>10. ASSUME NEW q \in Requests, LateRequest(q), UNCHANGED rootVars PROVE RInv'
  BY <1>10, AsideInv DEF LateRequest, stored, disk
<1>11. CASE UNCHANGED allVars
  BY <1>11, AsideInv DEF allVars, vars, stored, disk
<1> QED
  BY <1>1, <1>2, <1>3, <1>4, <1>5, <1>6, <1>7, <1>8, <1>9, <1>10, <1>11 DEF RNext, RootStep

(* After whatever interruption the progress files explain the directories, *)
(* and the migration goes on only with directories that are all committed. *)
THEOREM DirectoriesExplained == RSpec => []ProgressExplainsDirectories
<1>1. RInit => RInv
  BY RootsInit
<1>2. IInv /\ RInv /\ [RNext]_allVars => RInv'
  BY RootsStep
<1>3. RInv => ProgressExplainsDirectories
  BY DEF RInv, Before, Closed, AllStand, Explained, Standing, ProgressExplainsDirectories
<1>4. RSpec => []IInv
  BY Composition, Invariance, PTL
<1> QED
  BY <1>1, <1>2, <1>3, <1>4, PTL DEF RSpec

(* The directories have the types the code gives them.                     *)
THEOREM RootsTypeCorrect == RSpec => []RootsTypeOK
<1>1. RInit => RInv
  BY RootsInit
<1>2. IInv /\ RInv /\ [RNext]_allVars => RInv'
  BY RootsStep
<1>3. RInv => RootsTypeOK
  BY DEF RInv
<1>4. RSpec => []IInv
  BY Composition, Invariance, PTL
<1> QED
  BY <1>1, <1>2, <1>3, <1>4, PTL DEF RSpec

-----------------------------------------------------------------------------
(* Going on with the directories, as above with the phases.                *)

(* What the commands about directories need to go on: a removal finds its  *)
(* next step in every root; and unless the directories are Blocked, the    *)
(* next run is refused no root, and those that are left behind can be      *)
(* audited or their removal can be taken up.                               *)
RootsCanGoOn ==
    /\ \A r \in Roots : Recovering(r) =>
           removal[r] \in IF directory[r] = Absent THEN {"intent", "done", "torn"}
                                                   ELSE {"none", "intent", "torn"}
    /\ Between /\ Cohort(Prepared) /\ ~Blocked =>
           (authority = "whole" \/ Unbound) /\ \A r \in Roots : ~Mismatch(r)
    /\ Between /\ Cohort(NoPhase) /\ cohort /\ mount = 0 /\ ~Blocked =>
           \/ /\ checkpoint = records /\ audit # directory
              /\ \A r \in Roots : directory[r] # Absent
           \/ MayRecover

(* A removal goes through the roots in order, and its files say so.        *)
InOrder ==
    IF audit = NoAudit
    THEN claim = "none" /\ task = "none" /\ \A r \in Roots : removal[r] = "none"
    ELSE /\ \A r \in Roots : directory[r] \in {audit[r], Absent}
         /\ \A r \in Roots : directory[r] = Absent => removal[r] # "none"
         /\ \A r, s \in Roots : s < r /\ removal[r] # "none" => removal[s] = "done"
         /\ \A r \in Roots : removal[r] # "none" => claim = "whole"
         /\ task = "recover" =>
                claim = "whole" /\ \A s \in Roots : s < root => removal[s] = "done"

(* Directories of this migration have its authority, and their attempts    *)
(* are not more than allowed.                                              *)
Ledger ==
    /\ Cohort(NoPhase) => InOrder /\ checkpoint = records
    /\ ~Cohort(NoPhase) /\ authority = "none" => \A r \in Roots : directory[r] = Absent
    /\ task = "make" => authority = "whole"
    /\ \A r \in Roots : Len(attempts[r]) <= MaxAttempts

LEMMA LedgerInit == RInit => Ledger
<1> SUFFICES ASSUME RInit PROVE Ledger
  OBVIOUS
<1>1. Cohort(NoPhase) /\ checkpoint = records
  BY DEF RInit, Init, Cohort, Assets, LegacyRecord
<1>2. \A r \in Roots : attempts[r] = <<>> /\ Len(attempts[r]) <= MaxAttempts
  <2>1. Len(<<>>) = 0
    OBVIOUS
  <2> QED
    BY <2>1, RootsAssumption DEF RInit
<1> QED
  BY <1>1, <1>2 DEF RInit, Ledger, InOrder

(* An attempt is begun only while one is left. *)
LEMMA PutLength ==
  ASSUME attempts \in [Roots -> Seq(Attempts)], NEW r \in Roots, NEW a \in Attempts,
         Putting(r, a), Over(r) => Len(attempts[r]) < MaxAttempts,
         \A s \in Roots : Len(attempts[s]) <= MaxAttempts
  PROVE  \A s \in Roots : Len(attempts'[s]) <= MaxAttempts
<1> DEFINE q == attempts[r]
<1>1. q \in Seq(Attempts) /\ Len(q) \in Nat /\ MaxAttempts \in Nat
  BY RootsAssumption
<1>2. \A s \in Roots : s # r => attempts'[s] = attempts[s]
  BY DEF Putting
<1>3. CASE Over(r)
  <2>1. attempts'[r] = Append(q, a)
    BY <1>3 DEF Putting
  <2>2. Len(Append(q, a)) = Len(q) + 1
    BY <1>1, AppendProperties
  <2> QED
    BY <1>1, <1>2, <1>3, <2>1, <2>2
<1>4. CASE ~Over(r)
  <2> DEFINE e == [q EXCEPT ![Len(q)] = a]
  <2>1. attempts'[r] = e
    BY <1>4 DEF Putting
  <2>2. q # <<>>
    BY <1>4 DEF Over, Latest, At0
  <2>3. Len(e) = Len(q)
    <3> HIDE DEF q
    <3>1. Len(q) \in 1 .. Len(q)
      BY <1>1, <2>2
    <3> QED
      BY <1>1, <3>1, ExceptSeq
  <2> QED
    BY <1>2, <2>1, <2>3
<1> QED
  BY <1>3, <1>4

(* What the steps of making and undoing have to do with the ledger. *)
LEMMA MakingWrites ==
  ASSUME RootsTypeOK, NEW r \in Roots, MakeStep(r) \/ UndoStep(r)
  PROVE  /\ UNCHANGED <<records, authority>> /\ task \in {"make", "undo"}
         /\ \/ attempts' = attempts
            \/ \E a \in Attempts :
                   Putting(r, a) /\ (Over(r) => Len(attempts[r]) < MaxAttempts)
         /\ \/ task = "make"
            \/ task' # "make" /\ \A s \in Roots : directory[s] = Absent => directory'[s] = Absent
<1> USE DEF files, vars, stored, control, Goes, Slip, DirectoriesRefused
<1>1. Latest(r).of \in Identities \union {Absent}
  <2>1. CASE attempts[r] = <<>>
    BY <2>1 DEF Latest, At0
  <2>2. CASE attempts[r] # <<>>
    <3> DEFINE q == attempts[r]
    <3>1. q \in Seq(Attempts)
      BY DEF RootsTypeOK
    <3>2. Latest(r) = q[Len(q)]
      BY <2>2 DEF Latest
    <3>3. q[Len(q)] \in Attempts
      <4>1. q # <<>>
        BY <2>2
      <4> HIDE DEF q
      <4>2. Len(q) \in 1 .. Len(q)
        BY <3>1, <4>1
      <4> QED
        BY <3>1, <4>2
    <3> QED
      BY <3>2, <3>3 DEF Attempts
  <2> QED
    BY <2>1, <2>2
<1>2. \A g \in Stages : /\ Entry(g, r) \in Attempts
                        /\ [stage |-> g, of |-> Latest(r).of] \in Attempts
  BY <1>1, EntryType, AttemptTypes
<1>3. {"intent", "created", "committed", "removing", "removed"} \subseteq Stages
  BY DEF Stages
<1>4. MaxAttempts \in Nat /\ Len(attempts[r]) \in Nat
  BY RootsAssumption DEF RootsTypeOK
<1>5. CASE Refuse(r) \/ Committed(r) \/ MakeDirectory(r) \/ MakeDirectoryFails(r)
  BY <1>5 DEF Refuse, Committed, MakeDirectory, MakeDirectoryFails, Making, Undoing, Leave,
              Proceed
<1>6. CASE Intend(r)
  <2>1. Len(attempts[r]) < MaxAttempts
    BY <1>4, <1>6 DEF Intend, Making, Mismatch
  <2> QED
    BY <1>2, <1>3, <1>6, <2>1 DEF Intend, Making
<1>7. CASE RecordMade(r)
  BY <1>2, <1>3, <1>7 DEF RecordMade, Making, Over
<1>8. CASE Commit(r)
  BY <1>2, <1>3, <1>8 DEF Commit, Making, Over, Proceed
<1>9. CASE SyncFails(r)
  BY <1>2, <1>3, <1>9 DEF SyncFails, Making, Over
<1>10. CASE RecordGone(r)
  BY <1>2, <1>3, <1>10 DEF RecordGone, Making, Over
<1>11. CASE IntendRemoval(r)
  BY <1>2, <1>3, <1>11 DEF IntendRemoval, Over
<1>12. CASE RemoveDirectory(r)
  <2>1. \A s \in Roots : directory[s] = Absent => directory'[s] = Absent
    BY <1>12 DEF RemoveDirectory, RootsTypeOK
  <2> QED
    BY <1>12, <2>1 DEF RemoveDirectory, Removing
<1>13. CASE RemoveFails(r)
  <2>1. \A s \in Roots : directory[s] = Absent => directory'[s] = Absent
    BY <1>13 DEF RemoveFails, RootsTypeOK
  <2> QED
    BY <1>2, <1>3, <1>13, <2>1 DEF RemoveFails, Removing, Over
<1>14. CASE RecordRemoved(r)
  BY <1>2, <1>3, <1>14 DEF RecordRemoved, Removing, Over
<1>15. CASE Undone(r)
  BY <1>15 DEF Undone, Undoing, Leave
<1>16. CASE WriteFails(r)
  BY <1>16 DEF WriteFails, Writes, Making, Removing
<1> QED
  BY <1>5, <1>6, <1>7, <1>8, <1>9, <1>10, <1>11, <1>12, <1>13, <1>14, <1>15, <1>16
     DEF MakeStep, UndoStep

(* The steps of a removal keep its order. *)
LEMMA RecoverInOrder ==
  ASSUME RInv, Ledger, NEW r \in Roots, RecoverStep(r)
  PROVE  /\ Cohort(NoPhase) /\ InOrder'
         /\ UNCHANGED <<stored, attempts>> /\ task' # "make"
<1> USE DEF files, vars, control, Goes
<1>1. task = "recover" /\ root = r /\ Cohort(NoPhase)
  BY DEF RecoverStep, IntendRecovery, RecoverDirectory, RecordRecovered, RecoveryRefused,
         Recovering, RInv, Tasks
<1>2. /\ audit # NoAudit /\ claim = "whole"
      /\ \A s \in Roots : directory[s] \in {audit[s], Absent}
      /\ \A s \in Roots : directory[s] = Absent => removal[s] # "none"
      /\ \A s, t \in Roots : t < s /\ removal[s] # "none" => removal[t] = "done"
      /\ \A s \in Roots : s < r => removal[s] = "done"
  BY <1>1 DEF Ledger, InOrder
<1>3. \A s, t \in Roots : s \in Int /\ t \in Int /\ (s < t \/ t < s \/ s = t)
  BY DEF Roots
<1>4. RootsTypeOK
  BY DEF RInv
<1>5. CASE IntendRecovery(r)
  <2>1. /\ removal[r] = "none" /\ \A s \in Roots : removal'[s] = IF s = r THEN "intent" ELSE removal[s]
        /\ UNCHANGED <<stored, directory, attempts, authority, audit, claim, task, root>>
    BY <1>4, <1>5 DEF IntendRecovery, RootsTypeOK
  <2> QED
    BY <1>1, <1>2, <1>3, <2>1 DEF InOrder, NoAudit
<1>6. CASE RecoverDirectory(r)
  <2>1. /\ removal[r] = "intent" /\ \A s \in Roots : directory'[s] = IF s = r THEN Absent ELSE directory[s]
        /\ UNCHANGED <<stored, attempts, authority, audit, removal, claim, task, root>>
    BY <1>4, <1>6 DEF RecoverDirectory, RootsTypeOK, RemoveResiduals
  <2> QED
    BY <1>1, <1>2, <2>1 DEF InOrder, NoAudit
<1>7. CASE RecordRecovered(r)
  <2>1. /\ \A s \in Roots : removal'[s] = IF s = r THEN "done" ELSE removal[s]
        /\ UNCHANGED <<stored, directory, attempts, authority, audit, claim>>
        /\ task' = "none" \/ (task' = "recover" /\ root' = r + 1)
    BY <1>4, <1>7 DEF RecordRecovered, RootsTypeOK, NextRecovery
  <2>2. \A s \in Roots : s < r + 1 => s < r \/ s = r
    BY DEF Roots
  <2> QED
    BY <1>1, <1>2, <1>3, <2>1, <2>2 DEF InOrder, NoAudit
<1>8. CASE RecoveryRefused(r)
  <2>1. UNCHANGED <<stored, directory, attempts, audit, removal, claim>> /\ task' = "none"
    BY <1>8 DEF RecoveryRefused
  <2> QED
    BY <1>1, <1>2, <2>1 DEF InOrder, NoAudit
<1> QED
  BY <1>5, <1>6, <1>7, <1>8 DEF RecoverStep

(* A run stores records in one action; a checkpoint is of what is stored.  *)
LEMMA OnlyPersist ==
  ASSUME RunStep
  PROVE  Persist \/ (records' = records /\ checkpoint' \in {checkpoint, records})
<1> USE DEF stored
<1>1. ASSUME NEW a \in Assets, AssetStep(a) PROVE UNCHANGED stored
  BY <1>1 DEF AssetStep, DeleteReplacement, DeleteUnanswered, Convert, Upload, UploadUnanswered,
              FillMirror, MirrorFails
<1> QED
  BY <1>1 DEF RunStep, Preflight, WorkDone, Export, ConvertFails, Quarantine, Normalize,
              InstallReference

LEMMA LedgerStep == IInv /\ RInv /\ Ledger /\ [RNext]_allVars => Ledger'
<1> SUFFICES ASSUME IInv, RInv, Ledger, [RNext]_allVars PROVE Ledger'
  OBVIOUS
<1>a. RootsTypeOK /\ Tasks /\ Before
  BY DEF RInv
(* A step of the first phase. *)
<1>b. ASSUME Cohort(Prepared), UNCHANGED records,
             authority' = "none" => \A r \in Roots : directory'[r] = Absent,
             task' = "make" => authority' = "whole",
             \A r \in Roots : Len(attempts'[r]) <= MaxAttempts
      PROVE  Ledger'
  BY <1>b, OtherPhases DEF Ledger, Cohort
(* A step that leaves the directories and their files alone. *)
<1>c. ASSUME UNCHANGED <<directory, files, records>>, checkpoint' \in {checkpoint, records},
             task' = "none" \/ UNCHANGED <<task, root>>
      PROVE  Ledger'
  BY <1>c DEF Ledger, InOrder, Cohort, files, NoAudit
<1>1. ASSUME NEW r \in Roots, MakeStep(r) \/ UndoStep(r) PROVE Ledger'
  <2>1. /\ UNCHANGED <<records, authority>> /\ task \in {"make", "undo"}
        /\ \/ attempts' = attempts
           \/ \E a \in Attempts :
                  Putting(r, a) /\ (Over(r) => Len(attempts[r]) < MaxAttempts)
        /\ \/ task = "make"
           \/ task' # "make" /\ \A s \in Roots : directory[s] = Absent => directory'[s] = Absent
    BY <1>a, <1>1, MakingWrites
  <2>2. Cohort(Prepared) /\ ~Cohort(NoPhase)
    BY <1>a, <2>1, OtherPhases DEF Tasks
  <2>3. \A s \in Roots : Len(attempts'[s]) <= MaxAttempts
    BY <1>a, <2>1, PutLength DEF RootsTypeOK, Ledger
  <2> QED
    BY <1>b, <2>1, <2>2, <2>3 DEF Ledger
<1>2. ASSUME NEW r \in Roots, RecoverStep(r) PROVE Ledger'
  <2>1. /\ Cohort(NoPhase) /\ InOrder' /\ UNCHANGED <<stored, attempts>> /\ task' # "make"
    BY <1>2, RecoverInOrder
  <2> QED
    BY <2>1 DEF Ledger, Cohort, stored
<1>3. CASE BeginMaking
  <2>1. /\ Cohort(Prepared) /\ UNCHANGED <<records, directory, attempts>>
        /\ \/ authority' = "whole"
           \/ task' = "none" /\ UNCHANGED authority
    BY <1>3 DEF BeginMaking, MayBegin, Leave, DirectoriesRefused, vars, stored
  <2> QED
    BY <1>b, <2>1, OtherPhases DEF Ledger
<1>4. CASE Invalidated \/ Left
  <2>1. /\ Cohort(Prepared) /\ UNCHANGED <<records, directory, files>>
        /\ task' \in {"undo", "none"}
    BY <1>4, <1>a DEF Invalidated, Slip, Left, Leave, DirectoriesRefused, stored, Tasks
  <2> QED
    BY <1>b, <2>1, OtherPhases DEF Ledger, files
<1>5. CASE Onward
  <2>1. RunStep /\ task' = "none" /\ UNCHANGED <<directory, files>>
    BY <1>5 DEF Onward
  <2>2. CASE Persist
    <3>1. /\ pc = "persist"
          /\ \A a \in Assets : records'[a].phase = records[a].phase + 1 /\ records[a].phase \in Phases
      BY <2>2, CandidateFields DEF Persist, At, IInv, TypeOK, Records
    <3>2. ~Cohort(NoPhase)'
      BY <3>1 DEF Cohort, Assets, NoPhase, Phases, Complete
    <3>3. Cohort(NoPhase) => \A r \in Roots : directory[r] = Absent
      BY <1>a, <3>1 DEF Before
    <3> QED
      BY <2>1, <3>2, <3>3 DEF Ledger, files
  <2>3. CASE records' = records /\ checkpoint' \in {checkpoint, records}
    BY <1>c, <2>1, <2>3
  <2> QED
    BY <2>1, <2>2, <2>3, OnlyPersist
<1>6. CASE RCrash
  <2>1. /\ task' = "none" /\ UNCHANGED <<stored, directory, audit, removal, claim>>
        /\ \/ UNCHANGED <<attempts, authority>>
           \/ \E r \in Roots : Writes(r) /\ Putting(r, Entry("torn", r)) /\ UNCHANGED authority
           \/ MayBegin /\ authority' = "torn" /\ UNCHANGED attempts
    BY <1>6 DEF RCrash, Crash
  <2>2. CASE UNCHANGED <<attempts, authority>>
    BY <1>c, <2>1, <2>2 DEF files, stored
  <2>3. ASSUME NEW r \in Roots, Writes(r), Putting(r, Entry("torn", r)), UNCHANGED authority
        PROVE  Ledger'
    <3>1. Cohort(Prepared) /\ ~Cohort(NoPhase)
      BY <1>a, <2>3, OtherPhases DEF Writes, Making, Removing, Tasks
    <3>2. Over(r) => Len(attempts[r]) < MaxAttempts
      BY <1>a, <2>3, RootsAssumption DEF Writes, Making, Removing, Mismatch, Over, RootsTypeOK
    <3>3. \A s \in Roots : Len(attempts'[s]) <= MaxAttempts
      BY <1>a, <2>3, <3>2, PutLength, EntryType DEF RootsTypeOK, Ledger, Stages
    <3> QED
      BY <1>b, <2>1, <2>3, <3>1, <3>3 DEF Ledger, stored
  <2>4. CASE MayBegin /\ authority' = "torn" /\ UNCHANGED attempts
    BY <1>b, <2>1, <2>4 DEF MayBegin, Ledger, stored
  <2> QED
    BY <2>1, <2>2, <2>3, <2>4
<1>7. CASE AuditResiduals
  <2>1. /\ Cohort(NoPhase) /\ task = "none" /\ audit # directory /\ audit' = directory
        /\ \A r \in Roots : directory[r] # Absent
        /\ UNCHANGED <<records, checkpoint, directory, attempts, authority, removal, claim, task, root>>
    BY <1>7 DEF AuditResiduals, Between, vars, stored, control
  <2>2. audit = NoAudit
    <3>1. audit # NoAudit => \A r \in Roots : directory[r] = audit[r]
      BY <2>1 DEF Ledger, InOrder
    <3>2. (\A r \in Roots : directory[r] = audit[r]) => directory = audit
      BY <1>a DEF RootsTypeOK
    <3> QED
      BY <2>1, <3>1, <3>2
  <2>3. directory # NoAudit
    BY <2>1, RootRange DEF NoAudit
  <2> QED
    BY <2>1, <2>2, <2>3 DEF Ledger, InOrder, Cohort, NoAudit
<1>8. CASE BeginRecovery
  <2>1. /\ Cohort(NoPhase) /\ audit # NoAudit /\ claim' = "whole" /\ task' = "recover" /\ root' = 1
        /\ UNCHANGED <<records, checkpoint, directory, attempts, authority, audit, removal>>
    BY <1>8 DEF BeginRecovery, MayRecover, vars, stored
  <2>2. \A s \in Roots : ~(s < 1)
    BY DEF Roots
  <2> QED
    BY <2>1, <2>2 DEF Ledger, InOrder, Cohort, NoAudit
<1>9. CASE RecoveryFails
  <2>1. /\ task' = "none" /\ UNCHANGED <<stored, directory, attempts, authority, audit>>
        /\ \/ UNCHANGED <<removal, claim>>
           \/ \E r \in Roots : /\ RecoveryWrites(r) /\ removal' = [removal EXCEPT ![r] = "torn"]
                               /\ UNCHANGED claim
           \/ MayRecover /\ claim = "none" /\ claim' = "torn" /\ UNCHANGED removal
    BY <1>9 DEF RecoveryFails, Slip
  <2>2. CASE UNCHANGED <<removal, claim>>
    BY <1>c, <2>1, <2>2 DEF files, stored
  <2>3. ASSUME NEW r \in Roots, RecoveryWrites(r), removal' = [removal EXCEPT ![r] = "torn"],
               UNCHANGED claim
        PROVE  Ledger'
    <3>1. task = "recover" /\ root = r /\ Cohort(NoPhase) /\ removal[r] \in {"none", "intent"}
      BY <1>a, <2>3 DEF RecoveryWrites, Recovering, Tasks
    <3>2. \A s \in Roots : removal'[s] = IF s = r THEN "torn" ELSE removal[s]
      BY <1>a, <2>3 DEF RootsTypeOK
    <3>3. \A s, t \in Roots : s \in Int /\ t \in Int
      BY DEF Roots
    <3>4. InOrder'
      BY <2>1, <2>3, <3>1, <3>2, <3>3 DEF Ledger, InOrder, NoAudit
    <3> QED
      BY <2>1, <3>1, <3>4 DEF Ledger, Cohort, stored
  <2>4. CASE MayRecover /\ claim = "none" /\ claim' = "torn" /\ UNCHANGED removal
    BY <2>1, <2>4 DEF MayRecover, Between, Ledger, InOrder, Cohort, stored, NoAudit
  <2> QED
    BY <2>1, <2>2, <2>3, <2>4
<1>10. ASSUME NEW r \in Roots, TakenAway(r) PROVE Ledger'
  <2>1. /\ Cohort(Prepared) /\ task' = "none" /\ UNCHANGED <<records, attempts, authority>>
        /\ \A s \in Roots : directory[s] = Absent => directory'[s] = Absent
    BY <1>a, <1>10 DEF TakenAway, Between, Slip, stored, files, control, RootsTypeOK
  <2> QED
    BY <1>b, <2>1, OtherPhases DEF Ledger
<1>11. ASSUME NEW rec \in BOOLEAN, Start(rec), Waiting PROVE Ledger'
  BY <1>c, <1>11 DEF Start, Waiting, rootVars, control, stored
<1>12. ASSUME NEW partial \in BOOLEAN, MakeReceipt(partial), Waiting PROVE Ledger'
  BY <1>c, <1>12 DEF MakeReceipt, Waiting, rootVars, control, stored
<1>13. CASE (RotateReceipt \/ Reboot) /\ Waiting
  BY <1>c, <1>13 DEF RotateReceipt, Reboot, Waiting, rootVars, control, stored
<1>14. ASSUME NEW q \in Requests, LateRequest(q), UNCHANGED rootVars PROVE Ledger'
  BY <1>c, <1>14 DEF LateRequest, rootVars, control, stored
<1>15. CASE UNCHANGED allVars
  BY <1>c, <1>15 DEF allVars, vars, rootVars, control, stored
<1> QED
  BY <1>1, <1>2, <1>3, <1>4, <1>5, <1>6, <1>7, <1>8, <1>9, <1>10, <1>11, <1>12, <1>13, <1>14,
     <1>15
     DEF RNext, RootStep

LEMMA RootsGoingOn == RInv /\ Ledger => RootsCanGoOn
<1> SUFFICES ASSUME RInv, Ledger PROVE RootsCanGoOn
  OBVIOUS
<1>a. RootsTypeOK /\ Tasks /\ Before
  BY DEF RInv
<1>1. ASSUME NEW r \in Roots, Recovering(r)
      PROVE  removal[r] \in IF directory[r] = Absent THEN {"intent", "done", "torn"}
                                                     ELSE {"none", "intent", "torn"}
  <2>1. Cohort(NoPhase) /\ task # "none"
    BY <1>a, <1>1 DEF Recovering, Tasks
  <2>2. removal[r] \in {"none", "intent", "done", "torn"}
    BY <1>a DEF RootsTypeOK
  <2> QED
    BY <1>a, <2>1, <2>2 DEF Ledger, InOrder, Before
<1>2. ASSUME Between, Cohort(Prepared), ~Blocked
      PROVE  (authority = "whole" \/ Unbound) /\ \A r \in Roots : ~Mismatch(r)
  <2>1. ~Cohort(NoPhase)
    BY <1>2, OtherPhases
  <2>2. authority = "whole" \/ Unbound
    BY <1>a, <1>2, <2>1 DEF Blocked, RootsTypeOK, FileStates, Ledger, Unbound
  <2>3. ASSUME NEW r \in Roots PROVE ~Mismatch(r)
    <3>1. Explained(r) /\ Len(attempts[r]) <= MaxAttempts
      BY <2>1 DEF RInv, Ledger
    <3>2. Latest(r).stage # "torn" /\ ~(Over(r) /\ Len(attempts[r]) = MaxAttempts)
      BY <1>2 DEF Blocked
    <3>3. ~Misnamed(r) /\ ~(Over(r) /\ directory[r] # Absent)
      BY <3>1 DEF Explained, Misnamed
    <3>4. Len(attempts[r]) \in Nat /\ MaxAttempts \in Nat
      BY <1>a, RootsAssumption DEF RootsTypeOK
    <3> QED
      BY <3>1, <3>2, <3>3, <3>4 DEF Mismatch
  <2> QED
    BY <2>2, <2>3
<1>3. ASSUME Between, Cohort(NoPhase), cohort, mount = 0, ~Blocked
      PROVE  \/ /\ checkpoint = records /\ audit # directory
                /\ \A r \in Roots : directory[r] # Absent
             \/ MayRecover
  <2>1. InOrder /\ checkpoint = records
    BY <1>3 DEF Ledger
  <2>2. /\ \E r \in Roots : directory[r] # Absent
        /\ \A r \in Roots : removal[r] = "done" => directory[r] = Absent
    BY <1>a, <1>3 DEF Before
  <2>3. CASE audit = NoAudit
    <3>1. \A r \in Roots : directory[r] # Absent
      BY <1>3, <2>3 DEF Blocked
    <3>2. audit # directory
      BY <2>2, <2>3 DEF NoAudit
    <3> QED
      BY <2>1, <3>1, <3>2
  <2>4. CASE audit # NoAudit
    <3>1. /\ \A r \in Roots : directory[r] \in {audit[r], Absent}
          /\ \A r \in Roots : directory[r] = Absent => removal[r] # "none"
          /\ \A r, s \in Roots : s < r /\ removal[r] # "none" => removal[s] = "done"
          /\ \A r \in Roots : removal[r] # "none" => claim = "whole"
      BY <2>1, <2>4 DEF InOrder
    <3>2. claim # "torn" /\ \A r \in Roots : removal[r] \in {"none", "intent", "done"}
      BY <1>a, <1>3 DEF Blocked, RootsTypeOK
    <3>3. \A r, s \in Roots : s > r => r < s
      BY DEF Roots
    <3>4. ChainHolds
      BY <2>2, <3>1, <3>2, <3>3 DEF ChainHolds
    <3> QED
      BY <1>3, <2>1, <2>2, <2>4, <3>1, <3>2, <3>4 DEF MayRecover
  <2> QED
    BY <2>3, <2>4
<1> QED
  BY <1>1, <1>2, <1>3 DEF RootsCanGoOn

(* Whatever was interrupted about the directories can be taken up again,   *)
(* but for what Blocked names: no removal stops at a root for want of a    *)
(* step, no progress file refuses the next materialization, and the        *)
(* residual directories can be audited or their removal goes on.           *)
THEOREM DirectoriesGoOn == RSpec => []RootsCanGoOn
<1>1. IInv /\ RInv /\ [RNext]_allVars => RInv'
  BY RootsStep
<1>2. IInv /\ RInv /\ Ledger /\ [RNext]_allVars => Ledger'
  BY LedgerStep
<1>3. RInv /\ Ledger => RootsCanGoOn
  BY RootsGoingOn
<1>4. RSpec => []IInv
  BY Composition, Invariance, PTL
<1> QED
  BY RootsInit, LedgerInit, <1>1, <1>2, <1>3, <1>4, PTL DEF RSpec

=============================================================================
