--------------------------- MODULE AssetScanProofs ---------------------------
(* Proofs about AssetScan and MonitorGuard, for any monitors, lock files,   *)
(* files, children and bounds.                                              *)
EXTENDS AssetScan, TLAPS

-----------------------------------------------------------------------------
(* The inductive invariant, by what it is about. *)

Labels == {"idle", "work", "install", "seal", "adjusted", "convert", "encoding", "hash",
           "converted", "discard", "failed", "verified", "uploading", "proof", "uploaded",
           "end"}

(* Where a worker is with a record that requires an adjusted source, and     *)
(* with one that is to be converted.                                         *)
Adjusting == {"install", "seal", "adjusted"}
Converting == {"convert", "encoding", "hash", "converted", "discard"}

(* A scanning monitor that was not evicted holds the only lock on the lock   *)
(* file, and the lease is its own, even if it has expired.                   *)
GuardInv ==
    /\ GuardTypeOK
    /\ \A p \in Monitors : proc[p] # "off" => fd[p] # NoFile
    /\ \A p, q \in Locked : p # q => fd[p] # fd[q]
    /\ \A p \in Scanning \ evicted : fd[p] = lockFile /\ lease.owner = p

AssetType ==
    /\ db \in Records
    /\ mem \in [Monitors -> Records]
    /\ pc \in [Monitors -> Labels]
    /\ result \in [Monitors -> Files]
    /\ output \in Files
    /\ source \in {"none", "installed", "synced"}
    /\ photos \subseteq Bytes

KidType ==
    kid \in [Kids -> [does : {"nothing", "encode", "upload"}, for : Monitors \union {None},
                      at : {"end", "spawned", "open", "unlinked", "sent"}, data : Files]]

(* Whoever waits for a child waits for one. *)
KidInv ==
    /\ KidType
    /\ \A k \in Kids : kid[k].at = "sent" => kid[k].data \in Bytes
    /\ \A k \in Kids : kid[k].for # None =>
          \/ kid[k].does = "encode" /\ pc[kid[k].for] = "encoding"
          \/ kid[k].does = "upload" /\ pc[kid[k].for] = "uploading"
    /\ \A j, k \in Kids : kid[j].for # None /\ kid[j].for = kid[k].for => j = k

ScanInv == \A p \in Monitors : pc[p] = "idle" <=> proc[p] # "scan"

PhotoInv ==
    /\ UploadIsProven
    /\ \A p \in Monitors : pc[p] = "proof" => result[p] \in photos
    /\ \A p \in Monitors : pc[p] = "uploaded" => mem[p].heic \in photos

SourceInv ==
    /\ db.adjusted => source = "synced"
    /\ \A p \in Monitors : mem[p].adjusted \/ pc[p] = "adjusted" => source = "synced"

HeicInv ==
    /\ db.state \in {"required", "nas"} => db.heic = None
    /\ \A p \in Monitors : mem[p].state \in {"required", "nas"} => mem[p].heic = None
    /\ \A p \in Monitors : pc[p] \in Adjusting => mem[p].state = "required"
    /\ \A p \in Monitors : pc[p] \in Converting => mem[p].state = "nas"

(* What it works on is the durable record. *)
MemoryInv == \A p \in Scanning \ evicted : mem[p] = db

AssetInv ==
    /\ AssetType /\ KidInv /\ ScanInv /\ PhotoInv /\ SourceInv /\ HeicInv /\ MemoryInv

IInv == GuardInv /\ AssetInv

LEMMA IInvTypes == IInv => TypeOK
BY DEF IInv, GuardInv, AssetInv, AssetType, KidInv, KidType, ScanInv, TypeOK, Labels

LEMMA FilesFacts ==
  /\ Bytes \subseteq Files /\ Part \in Files /\ None \in Files
  /\ None \notin Monitors
  /\ NoKid.for = None /\ NoKid.at = "end" /\ NoKid.does = "nothing"
  /\ NoKid \in [does : {"nothing", "encode", "upload"}, for : Monitors \union {None},
                at : {"end", "spawned", "open", "unlinked", "sent"}, data : Files]
  /\ NoRecord \in Records /\ NoRecord.state = "nas" /\ ~NoRecord.adjusted
  /\ NoRecord.heic = None
BY AssetAssumption DEF Files, NoKid, NoRecord, Fresh, Records

-----------------------------------------------------------------------------
(* The guard. *)

LEMMA FaultBound ==
  ASSUME faults \in 0 .. MaxFaults, NEW f, Fault(f) \/ UNCHANGED faults
  PROVE  faults' \in 0 .. MaxFaults
BY GuardAssumption DEF Fault

LEMMA GuardInvInit == GuardInit => GuardInv
BY GuardAssumption DEF GuardInit, GuardInv, GuardTypeOK, Locked, Scanning

(* Steps of the asset leave the guard alone, or take up a fault. *)
LEMMA GuardFrame ==
  ASSUME GuardInv, UNCHANGED <<lockFile, fd, proc, store, lease, evicted>>,
         faults' \in 0 .. MaxFaults
  PROVE  GuardInv'
BY DEF GuardInv, GuardTypeOK, Locked, Scanning

LEMMA GuardOpenLock ==
  ASSUME GuardInv, NEW p \in Monitors, OpenLock(p)
  PROVE  GuardInv'
<1>1. lockFile' \in LockFiles
  BY DEF OpenLock, GuardInv, GuardTypeOK, Unused
<1>2. GuardTypeOK'
  BY <1>1 DEF OpenLock, GuardInv, GuardTypeOK, Scanning
<1>3. Locked' = Locked /\ Scanning' = Scanning
  BY DEF OpenLock, GuardInv, GuardTypeOK, Locked, Scanning
<1>4. \A q \in Monitors : proc'[q] # "off" => fd'[q] # NoFile
  BY <1>1, GuardAssumption DEF OpenLock, GuardInv, GuardTypeOK
<1>5. \A q \in Locked : q # p /\ fd'[q] = fd[q]
  BY DEF OpenLock, GuardInv, GuardTypeOK, Locked
<1>6. \A q \in Scanning \ evicted : fd'[q] = lockFile'
  <2> TAKE q \in Scanning \ evicted
  <2>1. fd[q] = lockFile /\ fd[q] # NoFile /\ q \in Locked
    BY DEF GuardInv, Scanning, Locked
  <2> QED
    BY <2>1, <1>5 DEF OpenLock
<1> QED
  BY <1>2, <1>3, <1>4, <1>5, <1>6 DEF GuardInv, OpenLock

LEMMA GuardValidateLock ==
  ASSUME GuardInv, NEW p \in Monitors, ValidateLock(p)
  PROVE  GuardInv'
BY GuardAssumption DEF ValidateLock, GuardInv, GuardTypeOK, Locked, Scanning

LEMMA GuardFlock ==
  ASSUME GuardInv, NEW p \in Monitors, Flock(p)
  PROVE  GuardInv'
<1>1. CASE \A q \in Locked : fd[q] # fd[p]
  <2>1. Scanning' = Scanning /\ Locked' = Locked \union {p} /\ UNCHANGED fd
    BY <1>1 DEF Flock, GuardInv, GuardTypeOK, Locked, Scanning
  <2>2. GuardTypeOK'
    BY <1>1, <2>1 DEF Flock, GuardInv, GuardTypeOK
  <2>3. \A q \in Monitors : proc'[q] # "off" => fd'[q] # NoFile
    BY <1>1 DEF Flock, GuardInv, GuardTypeOK
  <2>4. \A q, r \in Locked' : q # r => fd'[q] # fd'[r]
    BY <1>1, <2>1 DEF GuardInv
  <2> QED
    BY <2>1, <2>2, <2>3, <2>4 DEF GuardInv, Flock
<1>2. CASE ~(\A q \in Locked : fd[q] # fd[p])
  BY <1>2, GuardAssumption DEF Flock, GuardInv, GuardTypeOK, Locked, Scanning
<1> QED
  BY <1>1, <1>2

LEMMA GuardHeartbeatLost ==
  ASSUME GuardInv, NEW p \in Monitors, HeartbeatLost(p)
  PROVE  GuardInv'
BY DEF HeartbeatLost, GuardInv, GuardTypeOK, Locked, Scanning

(* Who may scan holds the lock of the file, so that nobody else does. *)
LEMMA GuardBeginScan ==
  ASSUME GuardInv, NEW p \in Monitors, BeginScan(p)
  PROVE  GuardInv'
<1>1. Scanning' = Scanning \union {p} /\ Locked' = Locked /\ p \in Locked /\ p \notin Scanning
  BY DEF BeginScan, GuardInv, GuardTypeOK, Locked, Scanning
<1>2. GuardTypeOK'
  BY <1>1 DEF BeginScan, GuardInv, GuardTypeOK
<1>3. \A q \in Scanning \ evicted : FALSE
  BY <1>1 DEF BeginScan, ScanAllowed, GuardInv, Locked, Scanning
<1>4. \A q \in Monitors : proc'[q] # "off" => fd'[q] # NoFile
  BY DEF BeginScan, GuardInv, GuardTypeOK
<1>5. fd'[p] = lockFile' /\ lease'.owner = p
  BY DEF BeginScan, ScanAllowed
<1> QED
  BY <1>1, <1>2, <1>3, <1>4, <1>5 DEF GuardInv, BeginScan

LEMMA GuardEndScan ==
  ASSUME GuardInv, NEW p \in Monitors, EndScan(p)
  PROVE  GuardInv'
BY DEF EndScan, GuardInv, GuardTypeOK, Locked, Scanning

(* Processes that are gone, whatever becomes of a lease that was theirs. *)
LEMMA GuardGone ==
  ASSUME GuardInv, NEW P \in SUBSET Monitors, Gone(P), UNCHANGED lockFile,
         lease' \in [owner : Monitors \union {Nobody, Dead}, live : BOOLEAN],
         lease' = lease \/ lease.owner \in P, faults' \in 0 .. MaxFaults
  PROVE  GuardInv'
<1>1. Scanning' = Scanning \ P /\ Locked' = Locked \ P
  BY DEF Gone, GuardInv, GuardTypeOK, Locked, Scanning
<1>2. fd' \in [Monitors -> LockFiles \union {NoFile}]
  BY DEF Gone, GuardInv, GuardTypeOK
<1>3. proc' \in [Monitors -> {"off", "opened", "validated", "ready", "scan"}]
  BY DEF Gone, GuardInv, GuardTypeOK
<1>4. store' \in [Monitors -> {"none", "open", "failed"}]
  BY DEF Gone, GuardInv, GuardTypeOK
<1>5. GuardTypeOK'
  BY <1>1, <1>2, <1>3, <1>4 DEF Gone, GuardInv, GuardTypeOK
<1>6. \A q \in Monitors \ P : fd'[q] = fd[q] /\ proc'[q] = proc[q]
  BY DEF Gone
<1>7. \A q \in P : proc'[q] = "off"
  BY DEF Gone
<1>8. \A q \in Monitors : proc'[q] # "off" => fd'[q] # NoFile
  BY <1>6, <1>7 DEF GuardInv
<1>9. \A q, r \in Locked' : q # r => fd'[q] # fd'[r]
  BY <1>1, <1>6 DEF GuardInv, Locked
<1>10. \A q \in Scanning' \ evicted' : fd'[q] = lockFile' /\ lease'.owner = q
  BY <1>1, <1>6 DEF Gone, GuardInv, Scanning
<1> QED
  BY <1>5, <1>8, <1>9, <1>10 DEF GuardInv

LEMMA GuardLeave ==
  ASSUME GuardInv, NEW p \in Monitors, Leave(p)
  PROVE  GuardInv'
<1>1. lease' \in [owner : Monitors \union {Nobody, Dead}, live : BOOLEAN]
  BY DEF Leave, GuardInv, GuardTypeOK
<1>2. faults' \in 0 .. MaxFaults
  BY DEF Leave, GuardInv, GuardTypeOK
<1> QED
  BY <1>1, <1>2, GuardGone DEF Leave

LEMMA GuardDies ==
  ASSUME GuardInv, NEW P \in SUBSET Monitors, Dies(P), faults' \in 0 .. MaxFaults
  PROVE  GuardInv'
<1>1. lease' \in [owner : Monitors \union {Nobody, Dead}, live : BOOLEAN]
  BY DEF Dies, GuardInv, GuardTypeOK
<1> QED
  BY <1>1, GuardGone DEF Dies

LEMMA GuardLeaseExpires ==
  ASSUME GuardInv, LeaseExpires
  PROVE  GuardInv'
<1>1. faults' \in 0 .. MaxFaults
  BY FaultBound DEF LeaseExpires, GuardInv, GuardTypeOK
<1> QED
  BY <1>1 DEF LeaseExpires, GuardInv, GuardTypeOK, Locked, Scanning

LEMMA GuardReplaceLock ==
  ASSUME GuardInv, ReplaceLock
  PROVE  GuardInv'
<1>1. faults' \in 0 .. MaxFaults
  BY FaultBound DEF ReplaceLock, GuardInv, GuardTypeOK
<1> QED
  BY <1>1 DEF ReplaceLock, GuardInv, GuardTypeOK, Locked, Scanning, Unused

-----------------------------------------------------------------------------
(* The children, as their monitor goes on. *)

KidRecords ==
    [does : {"nothing", "encode", "upload"}, for : Monitors \union {None},
     at : {"end", "spawned", "open", "unlinked", "sent"}, data : Files]

(* No child is affected by a worker that waits for none. *)
LEMMA KidsStay ==
  ASSUME AssetType, KidInv, NEW p \in Monitors, NEW l, Goto(p, l), UNCHANGED kid,
         pc[p] \notin {"encoding", "uploading"}
  PROVE  KidInv'
<1>1. \A q \in Monitors : q # p => pc'[q] = pc[q]
  BY DEF Goto, AssetType
<1>2. \A k \in Kids : kid[k].for # p
  BY AssetAssumption DEF KidInv
<1>3. \A k \in Kids : kid[k].for \in Monitors \union {None}
  BY DEF KidInv, KidType
<1> QED
  BY <1>1, <1>2, <1>3 DEF KidInv, KidType

(* A child that goes on keeps whom it is for. *)
LEMMA KidsGoOn ==
  ASSUME KidInv, kid' \in [Kids -> KidRecords], UNCHANGED pc,
         \A k \in Kids : /\ kid'[k].for = kid[k].for /\ kid'[k].does = kid[k].does
                         /\ kid'[k].at = "sent" => kid'[k].data \in Bytes
  PROVE  KidInv'
BY DEF KidInv, KidType, KidRecords

LEMMA KidAdvances ==
  ASSUME KidInv, NEW k \in Kids, NEW l \in {"open", "sent"}, NEW d \in Files, UNCHANGED pc,
         kid' = [kid EXCEPT ![k].at = l, ![k].data = d], l = "sent" => d \in Bytes
  PROVE  KidInv'
<1>1. kid \in [Kids -> KidRecords]
  BY DEF KidInv, KidType, KidRecords
<1>2. kid' = [kid EXCEPT ![k] = [kid[k] EXCEPT !.at = l, !.data = d]]
  BY <1>1
<1>3. /\ [kid[k] EXCEPT !.at = l, !.data = d] \in KidRecords
      /\ [kid[k] EXCEPT !.at = l, !.data = d].for = kid[k].for
      /\ [kid[k] EXCEPT !.at = l, !.data = d].does = kid[k].does
      /\ [kid[k] EXCEPT !.at = l, !.data = d].at = l
      /\ [kid[k] EXCEPT !.at = l, !.data = d].data = d
  BY <1>1 DEF KidRecords
<1>4. kid' \in [Kids -> KidRecords]
  BY <1>1, <1>2, <1>3
<1>5. \A j \in Kids : /\ kid'[j].for = kid[j].for /\ kid'[j].does = kid[j].does
                      /\ kid'[j].at = "sent" => kid'[j].data \in Bytes
  <2> TAKE j \in Kids
  <2>1. CASE j = k
    BY <2>1, <1>1, <1>2, <1>3
  <2>2. CASE j # k
    BY <2>2, <1>1, <1>2 DEF KidInv
  <2> QED
    BY <2>1, <2>2
<1> QED
  BY <1>4, <1>5, KidsGoOn

LEMMA KidsUnlinked ==
  ASSUME AssetType, KidInv, NEW p \in Monitors, NEW l, Goto(p, l), RemoveOutput,
         pc[p] \notin {"encoding", "uploading"}
  PROVE  KidInv'
<1>1. kid \in [Kids -> KidRecords]
  BY DEF KidInv, KidType, KidRecords
<1>2. \A k \in Kids : kid'[k] = IF kid[k].at = "open" THEN [kid[k] EXCEPT !.at = "unlinked"]
                                                     ELSE kid[k]
  BY DEF RemoveOutput
<1>3. \A k \in Kids : /\ kid'[k] \in KidRecords
                      /\ kid'[k].for = kid[k].for /\ kid'[k].does = kid[k].does
                      /\ kid'[k].data = kid[k].data
                      /\ kid'[k].at = "sent" => kid[k].at = "sent"
  <2> TAKE k \in Kids
  <2>1. CASE kid[k].at = "open"
    BY <2>1, <1>1, <1>2 DEF KidRecords
  <2>2. CASE kid[k].at # "open"
    BY <2>2, <1>1, <1>2 DEF KidRecords
  <2> QED
    BY <2>1, <2>2
<1>4. kid' \in [Kids -> KidRecords]
  BY <1>3 DEF RemoveOutput
<1>5. \A q \in Monitors : q # p => pc'[q] = pc[q]
  BY DEF Goto, AssetType
<1>6. \A k \in Kids : kid[k].for # p /\ kid[k].for \in Monitors \union {None}
  BY <1>1, AssetAssumption DEF KidInv, KidRecords
<1> QED
  BY <1>3, <1>4, <1>5, <1>6 DEF KidInv, KidType, KidRecords

LEMMA KidSpawned ==
  ASSUME AssetType, KidInv, NEW p \in Monitors, NEW h \in Files,
         pc[p] \notin {"encoding", "uploading"},
         \/ Spawn(p, "encode", h) /\ Goto(p, "encoding")
         \/ Spawn(p, "upload", h) /\ Goto(p, "uploading")
  PROVE  KidInv'
<1>1. kid \in [Kids -> KidRecords]
  BY DEF KidInv, KidType, KidRecords
<1>2. PICK t \in {"encode", "upload"} :
         Spawn(p, t, h) /\ Goto(p, IF t = "encode" THEN "encoding" ELSE "uploading")
  OBVIOUS
<1> DEFINE new == [does |-> t, for |-> p, at |-> "spawned", data |-> h]
<1>3. PICK k \in Kids : kid[k] = NoKid /\ kid' = [kid EXCEPT ![k] = new]
  BY <1>2 DEF Spawn
<1>4. new \in KidRecords
  BY <1>2 DEF KidRecords
<1>5. kid' \in [Kids -> KidRecords]
  BY <1>1, <1>3, <1>4
<1>6. kid'[k] = new /\ \A j \in Kids : j # k => kid'[j] = kid[j]
  BY <1>1, <1>3
<1>7. \A q \in Monitors : q # p => pc'[q] = pc[q]
  BY <1>2 DEF Goto, AssetType
<1>8. pc'[p] = IF t = "encode" THEN "encoding" ELSE "uploading"
  BY <1>2 DEF Goto, AssetType
<1>9. \A j \in Kids : kid[j].for # p /\ kid[j].for \in Monitors \union {None}
  BY <1>1, AssetAssumption DEF KidInv, KidRecords
<1>10. \A j \in Kids : kid'[j].at = "sent" => kid'[j].data \in Bytes
  BY <1>6 DEF KidInv
<1>11. \A j \in Kids : kid'[j].for # None =>
          \/ kid'[j].does = "encode" /\ pc'[kid'[j].for] = "encoding"
          \/ kid'[j].does = "upload" /\ pc'[kid'[j].for] = "uploading"
  BY <1>2, <1>6, <1>7, <1>8, <1>9 DEF KidInv
<1>12. \A i, j \in Kids : kid'[i].for # None /\ kid'[i].for = kid'[j].for => i = j
  BY <1>6, <1>9 DEF KidInv
<1> QED
  BY <1>5, <1>10, <1>11, <1>12 DEF KidInv, KidType, KidRecords

(* The child that reports is the only one its monitor waits for. *)
LEMMA KidReports ==
  ASSUME AssetType, KidInv, NEW k \in Kids, NEW l \in Labels, Reports(k, l)
  PROVE  /\ KidInv'
         /\ pc' \in [Monitors -> Labels]
         /\ \A q \in Monitors : q # kid[k].for => pc'[q] = pc[q]
         /\ kid[k].for # None => pc'[kid[k].for] = l
<1>1. kid \in [Kids -> KidRecords]
  BY DEF KidInv, KidType, KidRecords
<1>2. kid' \in [Kids -> KidRecords] /\ kid'[k] = NoKid /\ \A j \in Kids : j # k => kid'[j] = kid[j]
  BY <1>1, FilesFacts DEF Reports, KidRecords
<1>3. kid[k].for \in Monitors \union {None}
  BY <1>1 DEF KidRecords
<1>4. pc' \in [Monitors -> Labels]
  BY <1>3 DEF Reports, AssetType
<1>5. \A q \in Monitors : q # kid[k].for => pc'[q] = pc[q]
  BY <1>3 DEF Reports, AssetType
<1>6. kid[k].for # None => pc'[kid[k].for] = l
  BY <1>3 DEF Reports, AssetType
<1>7. \A j \in Kids : kid'[j].at = "sent" => kid'[j].data \in Bytes
  BY <1>2, FilesFacts DEF KidInv
<1>8. \A j \in Kids : kid'[j].for # None =>
          /\ j # k /\ kid'[j] = kid[j] /\ kid[j].for \in Monitors /\ kid[j].for # kid[k].for
  BY <1>1, <1>2, FilesFacts DEF KidInv, KidRecords
<1>9. \A j \in Kids : kid'[j].for # None =>
          \/ kid'[j].does = "encode" /\ pc'[kid'[j].for] = "encoding"
          \/ kid'[j].does = "upload" /\ pc'[kid'[j].for] = "uploading"
  BY <1>5, <1>8 DEF KidInv
<1>10. \A i, j \in Kids : kid'[i].for # None /\ kid'[i].for = kid'[j].for => i = j
  BY <1>8 DEF KidInv
<1>11. KidInv'
  BY <1>2, <1>7, <1>9, <1>10 DEF KidInv, KidType, KidRecords
<1> QED
  BY <1>4, <1>5, <1>6, <1>11

-----------------------------------------------------------------------------
(* What keeps the invariant: lemmas on kinds of steps. *)

GuardKept == UNCHANGED <<lockFile, fd, proc, store, lease, evicted>>

(* The place q goes to is one its record and its result are fit for. *)
Arrives(q) ==
    /\ pc[q] # "idle" /\ pc'[q] # "idle"
    /\ pc'[q] = "adjusted" => source' = "synced"
    /\ pc'[q] = "proof" => result'[q] \in photos'
    /\ pc'[q] = "uploaded" => mem[q].heic \in photos'
    /\ pc'[q] \in Adjusting => mem[q].state = "required"
    /\ pc'[q] \in Converting => mem[q].state = "nas"

(* No step of a worker or a child changes a record, but for Persist. *)
LEMMA StepKeeps ==
  ASSUME IInv, GuardKept, faults' \in 0 .. MaxFaults,
         UNCHANGED <<db, mem>>, KidInv',
         pc' \in [Monitors -> Labels], result' \in [Monitors -> Files], output' \in Files,
         source' \in {"none", "installed", "synced"}, source = "synced" => source' = "synced",
         photos \subseteq photos', photos' \subseteq Bytes,
         \A q \in Monitors : (pc'[q] = pc[q] /\ result'[q] = result[q]) \/ Arrives(q)
  PROVE  IInv'
<1>1. GuardInv'
  BY GuardFrame DEF IInv, GuardKept
<1>2. AssetType'
  BY DEF IInv, AssetInv, AssetType
<1>3. ScanInv'
  BY DEF IInv, AssetInv, ScanInv, GuardKept, Arrives
<1>4. PhotoInv'
  BY DEF IInv, AssetInv, PhotoInv, UploadIsProven, Arrives
<1>5. SourceInv'
  BY DEF IInv, AssetInv, SourceInv, Arrives
<1>6. HeicInv'
  BY DEF IInv, AssetInv, HeicInv, Arrives
<1>7. MemoryInv'
  BY DEF IInv, AssetInv, MemoryInv, GuardKept, Scanning
<1> QED
  BY <1>1, <1>2, <1>3, <1>4, <1>5, <1>6, <1>7 DEF IInv, AssetInv

(* A worker goes on to another place. *)
LEMMA WorkKeeps ==
  ASSUME IInv, GuardKept, faults' \in 0 .. MaxFaults, UNCHANGED <<db, mem, photos>>,
         NEW p \in Monitors, NEW l \in Labels \ {"idle"}, Goto(p, l), pc[p] # "idle", KidInv',
         result' \in [Monitors -> Files], \A q \in Monitors \ {p} : result'[q] = result[q],
         output' \in Files,
         source' \in {"none", "installed", "synced"}, source = "synced" => source' = "synced",
         l = "adjusted" => source' = "synced",
         l # "proof",
         l = "uploaded" => mem[p].heic \in photos,
         l \in Adjusting => mem[p].state = "required",
         l \in Converting => mem[p].state = "nas"
  PROVE  IInv'
<1>1. pc \in [Monitors -> Labels] /\ photos \subseteq Bytes
  BY DEF IInv, AssetInv, AssetType
<1>2. pc' \in [Monitors -> Labels] /\ pc'[p] = l /\ \A q \in Monitors \ {p} : pc'[q] = pc[q]
  BY <1>1 DEF Goto
<1>3. Arrives(p)
  BY <1>2 DEF Arrives
<1>4. \A q \in Monitors : (pc'[q] = pc[q] /\ result'[q] = result[q]) \/ Arrives(q)
  BY <1>2, <1>3
<1> QED
  BY <1>1, <1>2, <1>4, StepKeeps

(* As above, where nothing but the place of the worker changes. *)
LEMMA PlaceKeeps ==
  ASSUME IInv, GuardKept, faults' \in 0 .. MaxFaults,
         UNCHANGED <<db, mem, result, output, kid, photos>>,
         NEW p \in Monitors, NEW l \in Labels \ {"idle"}, Goto(p, l),
         pc[p] \notin {"idle", "encoding", "uploading"},
         source' \in {"none", "installed", "synced"}, source = "synced" => source' = "synced",
         l = "adjusted" => source' = "synced",
         l # "proof",
         l = "uploaded" => mem[p].heic \in photos,
         l \in Adjusting => mem[p].state = "required",
         l \in Converting => mem[p].state = "nas"
  PROVE  IInv'
<1>1. KidInv'
  BY KidsStay DEF IInv, AssetInv
<1>2. result \in [Monitors -> Files] /\ output \in Files
  BY DEF IInv, AssetInv, AssetType
<1> QED
  BY <1>1, <1>2, WorkKeeps

(* A child reports. *)
LEMMA ReportKeeps ==
  ASSUME IInv, GuardKept, faults' \in 0 .. MaxFaults, UNCHANGED <<db, mem, source>>,
         NEW k \in Kids, kid[k] # NoKid, NEW l \in Labels, Reports(k, l),
         output' \in Files, photos \subseteq photos', photos' \subseteq Bytes,
         result' \in [Monitors -> Files],
         \A q \in Monitors : q # kid[k].for => result'[q] = result[q],
         \/ kid[k].does = "encode" /\ l \in {"hash", "discard"}
         \/ kid[k].does = "upload" /\ l \in {"failed", "end"}
         \/ /\ kid[k].does = "upload" /\ l = "proof"
            /\ kid[k].for # None => result'[kid[k].for] \in photos'
  PROVE  IInv'
<1>1. /\ KidInv'
      /\ pc' \in [Monitors -> Labels]
      /\ \A q \in Monitors : q # kid[k].for => pc'[q] = pc[q]
      /\ kid[k].for # None => pc'[kid[k].for] = l
  BY KidReports DEF IInv, AssetInv
<1>2. kid[k].for \in Monitors \union {None}
  BY DEF IInv, AssetInv, KidInv, KidType
<1>3. kid[k].for # None =>
          \/ kid[k].does = "encode" /\ pc[kid[k].for] = "encoding"
          \/ kid[k].does = "upload" /\ pc[kid[k].for] = "uploading"
  BY DEF IInv, AssetInv, KidInv
<1>4. kid[k].for # None => Arrives(kid[k].for)
  BY <1>1, <1>2, <1>3 DEF Arrives, IInv, AssetInv, HeicInv, Adjusting, Converting
<1>5. \A q \in Monitors : (pc'[q] = pc[q] /\ result'[q] = result[q]) \/ Arrives(q)
  BY <1>1, <1>2, <1>4, FilesFacts
<1>6. source \in {"none", "installed", "synced"}
  BY DEF IInv, AssetInv, AssetType
<1> QED
  BY <1>1, <1>5, <1>6, StepKeeps

(* A child that goes on without a report. *)
LEMMA KidKeeps ==
  ASSUME IInv, UNCHANGED guardVars, UNCHANGED <<db, mem, pc, result, source, photos>>,
         KidInv', output' \in Files
  PROVE  IInv'
<1>1. /\ pc \in [Monitors -> Labels] /\ result \in [Monitors -> Files]
      /\ source \in {"none", "installed", "synced"} /\ photos \subseteq Bytes
      /\ faults \in 0 .. MaxFaults
  BY DEF IInv, AssetInv, AssetType, GuardInv, GuardTypeOK
<1> QED
  BY <1>1, StepKeeps DEF guardVars, GuardKept

(* A durable change of the record, by the one monitor that may write. *)
LEMMA PersistKeeps ==
  ASSUME IInv, NEW p \in Monitors, NEW r \in Records, Persist(p, r),
         pc[p] \notin {"idle", "encoding", "uploading"},
         r.state = "uploaded" => r.heic \in photos,
         r.adjusted => source = "synced",
         r.state \in {"required", "nas"} => r.heic = None
  PROVE  IInv'
<1>1. AssetType /\ KidInv /\ ScanInv /\ PhotoInv /\ SourceInv /\ HeicInv /\ MemoryInv /\ GuardInv
  BY DEF IInv, AssetInv
<1>2. PICK l \in {"end", "work"} : Goto(p, l)
  BY DEF Persist
<1>3. pc' \in [Monitors -> Labels] /\ pc'[p] = l /\ \A q \in Monitors \ {p} : pc'[q] = pc[q]
  BY <1>1, <1>2 DEF Goto, AssetType, Labels
<1>4. result' \in [Monitors -> Files] /\ \A q \in Monitors \ {p} : result'[q] = result[q]
  BY <1>1, FilesFacts DEF Persist, AssetType
<1>5. GuardKept /\ faults' \in 0 .. MaxFaults /\ UNCHANGED <<output, source, kid, photos>>
  BY <1>1 DEF Persist, guardVars, GuardKept, GuardInv, GuardTypeOK
<1>6. KidInv'
  BY <1>1, <1>2, <1>5, KidsStay
<1>7. ScanInv'
  BY <1>1, <1>3, <1>5 DEF ScanInv, GuardKept
<1>8. GuardInv'
  BY <1>1, <1>5, GuardFrame DEF GuardKept
<1>9. CASE UNCHANGED <<db, mem>>
  <2>1. AssetType'
    BY <1>1, <1>3, <1>4, <1>5, <1>9 DEF AssetType
  <2>2. PhotoInv'
    BY <1>1, <1>3, <1>4, <1>5, <1>9 DEF PhotoInv, UploadIsProven
  <2>3. SourceInv'
    BY <1>1, <1>3, <1>5, <1>9 DEF SourceInv
  <2>4. HeicInv'
    BY <1>1, <1>3, <1>9 DEF HeicInv, Adjusting, Converting
  <2>5. MemoryInv'
    BY <1>1, <1>5, <1>9 DEF MemoryInv, GuardKept, Scanning
  <2> QED
    BY <1>6, <1>7, <1>8, <2>1, <2>2, <2>3, <2>4, <2>5 DEF IInv, AssetInv
<1>10. CASE Writable(p) /\ db' = r /\ mem' = [mem EXCEPT ![p] = r]
  <2>1. mem' \in [Monitors -> Records] /\ mem'[p] = r /\ \A q \in Monitors \ {p} : mem'[q] = mem[q]
    BY <1>1, <1>10 DEF AssetType
  <2>2. AssetType'
    BY <1>1, <1>3, <1>4, <1>5, <1>10, <2>1 DEF AssetType
  <2>3. PhotoInv'
    BY <1>1, <1>3, <1>4, <1>5, <1>10, <2>1 DEF PhotoInv, UploadIsProven
  <2>4. SourceInv'
    BY <1>1, <1>3, <1>5, <1>10, <2>1 DEF SourceInv
  <2>5. HeicInv'
    BY <1>1, <1>3, <1>10, <2>1 DEF HeicInv, Adjusting, Converting
  <2>6. \A q \in Scanning \ evicted : q = p
    BY <1>1, <1>10 DEF GuardInv, Writable
  <2>7. MemoryInv'
    BY <1>5, <1>10, <2>1, <2>6 DEF MemoryInv, GuardKept, Scanning
  <2> QED
    BY <1>6, <1>7, <1>8, <2>2, <2>3, <2>4, <2>5, <2>7 DEF IInv, AssetInv
<1> QED
  BY <1>9, <1>10 DEF Persist

(* Monitors that are no longer scanning, whatever it was that ended. *)
LEMMA ForgetKeeps ==
  ASSUME IInv, NEW P \in SUBSET Monitors, Forget(P), GuardInv',
         \A q \in P : proc'[q] # "scan",
         \A q \in Monitors \ P : proc'[q] = proc[q],
         evicted' = evicted \ P,
         UNCHANGED <<db, photos>>, KidInv', output' \in Files,
         source' \in {"none", "installed", "synced"}, source = "synced" => source' = "synced"
  PROVE  IInv'
<1>1. AssetType /\ KidInv /\ ScanInv /\ PhotoInv /\ SourceInv /\ HeicInv /\ MemoryInv
  BY DEF IInv, AssetInv
<1>2. \A q \in Monitors \ P : mem'[q] = mem[q] /\ pc'[q] = pc[q] /\ result'[q] = result[q]
  BY DEF Forget
<1>3. \A q \in P : mem'[q] = NoRecord /\ pc'[q] = "idle" /\ result'[q] = None
  BY DEF Forget
<1>4. mem' \in [Monitors -> Records]
  BY <1>1, FilesFacts DEF Forget, AssetType
<1>5. pc' \in [Monitors -> Labels]
  BY <1>1 DEF Forget, AssetType, Labels
<1>6. result' \in [Monitors -> Files]
  BY <1>1, FilesFacts DEF Forget, AssetType
<1>7. AssetType'
  BY <1>1, <1>4, <1>5, <1>6 DEF AssetType
<1>8. ScanInv'
  BY <1>1, <1>2, <1>3 DEF ScanInv
<1>9. PhotoInv'
  BY <1>1, <1>2, <1>3 DEF PhotoInv, UploadIsProven
<1>10. SourceInv'
  BY <1>1, <1>2, <1>3, FilesFacts DEF SourceInv
<1>11. HeicInv'
  BY <1>1, <1>2, <1>3, FilesFacts DEF HeicInv, Adjusting, Converting
<1>12. MemoryInv'
  BY <1>1, <1>2 DEF MemoryInv, Scanning
<1> QED
  BY <1>7, <1>8, <1>9, <1>10, <1>11, <1>12 DEF IInv, AssetInv

-----------------------------------------------------------------------------
(* The steps of a worker. *)

(* What every step of a worker finds. *)
LEMMA InvFacts ==
  ASSUME IInv
  PROVE  /\ \A p \in Monitors : mem[p] \in Records /\ pc[p] \in Labels /\ result[p] \in Files
         /\ db \in Records /\ output \in Files /\ source \in {"none", "installed", "synced"}
         /\ photos \subseteq Bytes /\ faults \in 0 .. MaxFaults
         /\ kid \in [Kids -> KidRecords] /\ result \in [Monitors -> Files]
         /\ \A f : Fault(f) \/ UNCHANGED faults => faults' \in 0 .. MaxFaults
BY FaultBound DEF IInv, AssetInv, AssetType, KidInv, KidType, KidRecords, GuardInv, GuardTypeOK

LEMMA KeepDownload ==
  ASSUME IInv, NEW p \in Monitors, Download(p)
  PROVE  IInv'
<1>1. PICK l \in {"install", "seal", "failed"} : Goto(p, l)
  BY DEF Download
<1>2. faults' \in 0 .. MaxFaults
  BY InvFacts DEF Download
<1>3. GuardKept /\ UNCHANGED <<db, mem, result, output, source, kid, photos>>
  BY DEF Download, GuardKept
<1>4. pc[p] = "work" /\ mem[p].state = "required"
  BY DEF Download
<1>5. l \in Labels \ {"idle"} /\ l \notin {"adjusted", "proof", "uploaded"} /\ l \notin Converting
  BY DEF Labels, Converting
<1> QED
  BY <1>1, <1>2, <1>3, <1>4, <1>5, InvFacts, PlaceKeeps

LEMMA KeepInstall ==
  ASSUME IInv, NEW p \in Monitors, Install(p)
  PROVE  IInv'
<1>1. Goto(p, "seal") /\ pc[p] = "install"
  BY DEF Install
<1>2. faults' \in 0 .. MaxFaults /\ GuardKept /\ UNCHANGED <<db, mem, result, output, kid, photos>>
  BY InvFacts DEF Install, GuardKept, guardVars
<1>3. /\ source' \in {"none", "installed", "synced"}
      /\ source = "synced" => source' = "synced"
  BY InvFacts DEF Install
<1>4. mem[p].state = "required"
  BY <1>1 DEF IInv, AssetInv, HeicInv, Adjusting
<1>5. "seal" \in Labels \ {"idle"} /\ "seal" \notin Converting
  BY DEF Labels, Converting
<1> QED
  BY <1>1, <1>2, <1>3, <1>4, <1>5, PlaceKeeps

LEMMA KeepSeal ==
  ASSUME IInv, NEW p \in Monitors, Seal(p)
  PROVE  IInv'
<1>1. PICK l \in {"failed", "adjusted"} : Goto(p, l) /\ (l = "adjusted" => source' = "synced")
  BY DEF Seal
<1>2. faults' \in 0 .. MaxFaults /\ GuardKept /\ UNCHANGED <<db, mem, result, output, kid, photos>>
  BY InvFacts DEF Seal, GuardKept, guardVars
<1>3. /\ source' \in {"none", "installed", "synced"}
      /\ source = "synced" => source' = "synced"
  BY InvFacts DEF Seal
<1>4. pc[p] = "seal" /\ mem[p].state = "required"
  BY DEF Seal, IInv, AssetInv, HeicInv, Adjusting
<1>5. l \in Labels \ {"idle"} /\ l \notin Converting
  BY DEF Labels, Converting
<1> QED
  BY <1>1, <1>2, <1>3, <1>4, <1>5, PlaceKeeps

LEMMA KeepSaveAdjusted ==
  ASSUME IInv, NEW p \in Monitors, SaveAdjusted(p)
  PROVE  IInv'
<1>0. pc[p] = "adjusted" /\ source = "synced" /\ mem[p].state = "required" /\ mem[p].heic = None
  BY DEF SaveAdjusted, IInv, AssetInv, SourceInv, HeicInv, Adjusting
<1>1. CASE Persist(p, [mem[p] EXCEPT !.state = "nas", !.adjusted = TRUE])
  <2> DEFINE r == [mem[p] EXCEPT !.state = "nas", !.adjusted = TRUE]
  <2>1. r \in Records /\ r.state = "nas" /\ r.heic = None
    BY <1>0, InvFacts DEF Records
  <2> QED
    BY <1>0, <1>1, <2>1, PersistKeeps
<1>2. CASE /\ mem' = [mem EXCEPT ![p] = db] /\ Goto(p, "end")
           /\ UNCHANGED <<guardVars, db, result, output, source, kid, photos>>
           /\ Writable(p) /\ db # mem[p]
  <2>1. GuardKept /\ faults' \in 0 .. MaxFaults
    BY <1>2, InvFacts DEF guardVars, GuardKept
  <2>2. pc' \in [Monitors -> Labels] /\ pc'[p] = "end" /\ \A q \in Monitors \ {p} : pc'[q] = pc[q]
    BY <1>2 DEF Goto, IInv, AssetInv, AssetType, Labels
  <2>3. mem' \in [Monitors -> Records] /\ mem'[p] = db /\ \A q \in Monitors \ {p} : mem'[q] = mem[q]
    BY <1>2 DEF IInv, AssetInv, AssetType
  <2>4. AssetType'
    BY <1>2, <2>2, <2>3 DEF IInv, AssetInv, AssetType
  <2>5. KidInv'
    BY <1>0, <1>2, KidsStay DEF IInv, AssetInv
  <2>6. ScanInv'
    BY <1>0, <2>1, <2>2 DEF IInv, AssetInv, ScanInv, GuardKept
  <2>7. PhotoInv'
    BY <1>2, <2>2, <2>3 DEF IInv, AssetInv, PhotoInv, UploadIsProven
  <2>8. SourceInv'
    BY <1>2, <2>2, <2>3 DEF IInv, AssetInv, SourceInv
  <2>9. HeicInv'
    BY <1>2, <2>2, <2>3 DEF IInv, AssetInv, HeicInv, Adjusting, Converting
  <2>10. MemoryInv'
    BY <1>2, <2>1, <2>3 DEF IInv, AssetInv, MemoryInv, GuardKept, Scanning
  <2>11. GuardInv'
    BY <2>1, GuardFrame DEF IInv, GuardKept
  <2> QED
    BY <2>4, <2>5, <2>6, <2>7, <2>8, <2>9, <2>10, <2>11 DEF IInv, AssetInv
<1> QED
  BY <1>1, <1>2 DEF SaveAdjusted

LEMMA KeepClean ==
  ASSUME IInv, NEW p \in Monitors, Clean(p)
  PROVE  IInv'
<1>1. Goto(p, "convert") /\ pc[p] = "work" /\ mem[p].state = "nas"
  BY DEF Clean
<1>2. /\ faults' \in 0 .. MaxFaults /\ GuardKept /\ UNCHANGED <<db, mem, result, source, photos>>
  BY InvFacts DEF Clean, GuardKept, guardVars
<1>3. KidInv'
  BY <1>1, KidsStay, KidsUnlinked DEF Clean, IInv, AssetInv
<1>4. output' \in Files
  BY InvFacts, FilesFacts DEF Clean, RemoveOutput
<1>5. "convert" \in Labels \ {"idle"} /\ "convert" \notin Adjusting
  BY DEF Labels, Adjusting
<1> QED
  BY <1>1, <1>2, <1>3, <1>4, <1>5, InvFacts, WorkKeeps

LEMMA KeepConvert ==
  ASSUME IInv, NEW p \in Monitors, Convert(p)
  PROVE  IInv'
<1>1. pc[p] = "convert" /\ mem[p].state = "nas"
  BY DEF Convert, IInv, AssetInv, HeicInv, Converting
<1>2. faults' \in 0 .. MaxFaults
  BY InvFacts DEF Convert
<1>3. GuardKept /\ UNCHANGED <<db, mem, result, output, source, photos>>
  BY DEF Convert, GuardKept
<1>4. {"encoding", "failed"} \subseteq Labels \ {"idle"} /\ "encoding" \notin Adjusting
      /\ "failed" \notin Adjusting /\ "failed" \notin Converting
  BY DEF Labels, Adjusting, Converting
<1>5. CASE Spawn(p, "encode", None) /\ Goto(p, "encoding")
  <2>1. KidInv'
    BY <1>1, <1>5, KidSpawned, FilesFacts DEF IInv, AssetInv
  <2> QED
    BY <1>1, <1>2, <1>3, <1>4, <1>5, <2>1, InvFacts, WorkKeeps
<1>6. CASE Goto(p, "failed") /\ UNCHANGED kid
  BY <1>1, <1>2, <1>3, <1>4, <1>6, InvFacts, PlaceKeeps
<1> QED
  BY <1>5, <1>6 DEF Convert

LEMMA KeepHash ==
  ASSUME IInv, NEW p \in Monitors, Hash(p)
  PROVE  IInv'
<1>1. pc[p] = "hash" /\ mem[p].state = "nas"
  BY DEF Hash, IInv, AssetInv, HeicInv, Converting
<1>2. PICK l \in {"converted", "discard"} : Goto(p, l)
  BY DEF Hash
<1>3. /\ faults' \in 0 .. MaxFaults /\ GuardKept
      /\ UNCHANGED <<db, mem, output, source, kid, photos>>
  BY InvFacts DEF Hash, GuardKept, guardVars
<1>4. result' \in [Monitors -> Files] /\ \A q \in Monitors \ {p} : result'[q] = result[q]
  BY InvFacts DEF Hash
<1>5. KidInv'
  BY <1>1, <1>2, <1>3, KidsStay DEF IInv, AssetInv
<1>6. l \in Labels \ {"idle"} /\ l \notin Adjusting
  BY DEF Labels, Adjusting
<1> QED
  BY <1>1, <1>2, <1>3, <1>4, <1>5, <1>6, InvFacts, WorkKeeps

LEMMA KeepSaveConverted ==
  ASSUME IInv, NEW p \in Monitors, SaveConverted(p)
  PROVE  IInv'
<1> DEFINE r == [With(p, "converted") EXCEPT !.heic = result[p]]
<1>1. pc[p] = "converted" /\ Persist(p, r)
  BY DEF SaveConverted
<1>2. r \in Records /\ r.state = "converted" /\ (r.adjusted => mem[p].adjusted)
  BY InvFacts DEF Records, With
<1>3. mem[p].adjusted => source = "synced"
  BY DEF IInv, AssetInv, SourceInv
<1> HIDE DEF r
<1> QED
  BY <1>1, <1>2, <1>3, PersistKeeps

LEMMA KeepDiscard ==
  ASSUME IInv, NEW p \in Monitors, Discard(p)
  PROVE  IInv'
<1>1. Goto(p, "failed") /\ pc[p] = "discard"
  BY DEF Discard
<1>2. faults' \in 0 .. MaxFaults /\ GuardKept /\ UNCHANGED <<db, mem, result, source, photos>>
  BY InvFacts DEF Discard, GuardKept, guardVars
<1>3. KidInv'
  BY <1>1, KidsUnlinked DEF Discard, IInv, AssetInv
<1>4. output' \in Files
  BY FilesFacts DEF Discard, RemoveOutput
<1>5. "failed" \in Labels \ {"idle"} /\ "failed" \notin Adjusting /\ "failed" \notin Converting
  BY DEF Labels, Adjusting, Converting
<1> QED
  BY <1>1, <1>2, <1>3, <1>4, <1>5, InvFacts, WorkKeeps

(* A record that is saved in state s, as it is. *)
LEMMA SaveKeeps ==
  ASSUME IInv, NEW p \in Monitors, NEW s \in {"failed", "verified", "uploaded"},
         pc[p] = s, Persist(p, With(p, s))
  PROVE  IInv'
<1>1. With(p, s) \in Records /\ With(p, s).state = s
      /\ With(p, s).heic = mem[p].heic /\ With(p, s).adjusted = mem[p].adjusted
  BY InvFacts DEF Records, With
<1>2. mem[p].adjusted => source = "synced"
  BY DEF IInv, AssetInv, SourceInv
<1>3. s = "uploaded" => mem[p].heic \in photos
  BY DEF IInv, AssetInv, PhotoInv
<1> QED
  BY <1>1, <1>2, <1>3, PersistKeeps

LEMMA KeepVerify ==
  ASSUME IInv, NEW p \in Monitors, Verify(p)
  PROVE  IInv'
<1>1. PICK l \in {"verified", "failed", "end"} : Goto(p, l)
  BY DEF Verify
<1>2. faults' \in 0 .. MaxFaults
  BY InvFacts DEF Verify
<1>3. GuardKept /\ UNCHANGED <<db, mem, result, output, source, kid, photos>> /\ pc[p] = "work"
  BY DEF Verify, GuardKept
<1>4. l \in Labels \ {"idle"} /\ l \notin {"adjusted", "proof", "uploaded"}
      /\ l \notin Converting /\ l \notin Adjusting
  BY DEF Labels, Converting, Adjusting
<1> QED
  BY <1>1, <1>2, <1>3, <1>4, InvFacts, PlaceKeeps

LEMMA KeepUpload ==
  ASSUME IInv, NEW p \in Monitors, Upload(p)
  PROVE  IInv'
<1>1. pc[p] = "work" /\ mem[p].heic \in Files
  BY InvFacts DEF Upload, Records
<1>2. /\ faults' \in 0 .. MaxFaults /\ GuardKept
      /\ UNCHANGED <<db, mem, result, output, source, photos>>
  BY InvFacts DEF Upload, GuardKept, guardVars
<1>3. \A l \in {"uploading", "end"} : l \in Labels \ {"idle"} /\ l \notin Adjusting /\ l \notin Converting
  BY DEF Labels, Adjusting, Converting
<1>4. CASE Spawn(p, "upload", mem[p].heic) /\ Goto(p, "uploading")
  <2>1. KidInv'
    BY <1>1, <1>4, KidSpawned DEF IInv, AssetInv
  <2> QED
    BY <1>1, <1>2, <1>3, <1>4, <2>1, InvFacts, WorkKeeps
<1>5. CASE Goto(p, "end") /\ UNCHANGED kid
  BY <1>1, <1>2, <1>3, <1>5, InvFacts, PlaceKeeps
<1> QED
  BY <1>4, <1>5 DEF Upload

LEMMA KeepCheckUpload ==
  ASSUME IInv, NEW p \in Monitors, CheckUpload(p)
  PROVE  IInv'
<1>1. PICK l \in {"uploaded", "end"} : Goto(p, l) /\ (l = "uploaded" => result[p] = mem[p].heic)
  BY DEF CheckUpload
<1>2. pc[p] = "proof" /\ result[p] \in photos
  BY DEF CheckUpload, IInv, AssetInv, PhotoInv
<1>3. /\ faults' \in 0 .. MaxFaults /\ GuardKept
      /\ UNCHANGED <<db, mem, result, output, source, kid, photos>>
  BY InvFacts DEF CheckUpload, GuardKept, guardVars
<1>4. l \in Labels \ {"idle"} /\ l \notin {"adjusted", "proof"}
      /\ l \notin Converting /\ l \notin Adjusting
  BY DEF Labels, Converting, Adjusting
<1> QED
  BY <1>1, <1>2, <1>3, <1>4, InvFacts, PlaceKeeps

LEMMA KeepWork ==
  ASSUME IInv, NEW p \in Monitors, Work(p)
  PROVE  IInv'
<1>1. CASE SaveFailed(p) \/ SaveVerified(p) \/ SaveUploaded(p)
  BY <1>1, SaveKeeps DEF SaveFailed, SaveVerified, SaveUploaded
<1> QED
  BY <1>1, KeepDownload, KeepInstall, KeepSeal, KeepSaveAdjusted, KeepClean, KeepConvert,
     KeepHash, KeepSaveConverted, KeepDiscard, KeepVerify, KeepUpload, KeepCheckUpload DEF Work

-----------------------------------------------------------------------------
(* The steps of a child. *)

LEMMA KeepEncoderOpens ==
  ASSUME IInv, NEW k \in Kids, EncoderOpens(k)
  PROVE  IInv'
<1>1. kid[k].data \in Files /\ kid \in [Kids -> KidRecords]
  BY InvFacts DEF KidRecords
<1>2. kid' = [kid EXCEPT ![k].at = "open", ![k].data = kid[k].data]
  BY <1>1 DEF EncoderOpens, KidRecords
<1>3. KidInv'
  BY <1>1, <1>2, KidAdvances DEF EncoderOpens, IInv, AssetInv
<1> QED
  BY <1>3, KidKeeps, FilesFacts DEF EncoderOpens

LEMMA KeepEncoderWrites ==
  ASSUME IInv, NEW k \in Kids, EncoderWrites(k)
  PROVE  IInv'
<1>1. kid[k] # NoKid /\ kid[k].does = "encode" /\ Reports(k, "hash")
  BY FilesFacts DEF EncoderWrites
<1>2. output' \in Files
  BY InvFacts, FilesFacts DEF EncoderWrites
<1>3. GuardKept /\ faults' \in 0 .. MaxFaults /\ UNCHANGED <<db, mem, source, photos, result>>
  BY InvFacts DEF EncoderWrites, guardVars, GuardKept
<1>4. "hash" \in Labels
  BY DEF Labels
<1> QED
  BY <1>1, <1>2, <1>3, <1>4, InvFacts, ReportKeeps

LEMMA KeepUploadOpens ==
  ASSUME IInv, NEW k \in Kids, UploadOpens(k)
  PROVE  IInv'
<1>1. kid[k].data \in Files /\ kid \in [Kids -> KidRecords]
  BY InvFacts DEF KidRecords
<1>2. CASE kid' = [kid EXCEPT ![k].at = "open"] /\ UNCHANGED pc
  <2>1. kid' = [kid EXCEPT ![k].at = "open", ![k].data = kid[k].data]
    BY <1>1, <1>2 DEF KidRecords
  <2>2. KidInv'
    BY <1>1, <1>2, <2>1, KidAdvances DEF IInv, AssetInv
  <2> QED
    BY <1>2, <2>2, KidKeeps, InvFacts DEF UploadOpens
<1>3. CASE Reports(k, "failed")
  <2>1. kid[k] # NoKid /\ kid[k].does = "upload" /\ "failed" \in Labels
    BY FilesFacts DEF UploadOpens, Labels
  <2>2. /\ GuardKept /\ faults' \in 0 .. MaxFaults
        /\ UNCHANGED <<db, mem, source, photos, result, output>>
    BY InvFacts DEF UploadOpens, guardVars, GuardKept
  <2> QED
    BY <1>3, <2>1, <2>2, InvFacts, ReportKeeps
<1> QED
  BY <1>2, <1>3 DEF UploadOpens

LEMMA KeepUploadStreams ==
  ASSUME IInv, NEW k \in Kids, UploadStreams(k)
  PROVE  IInv'
<1> DEFINE sent == IF kid[k].at = "open" THEN output ELSE kid[k].data
<1>1. CASE sent \in Bytes /\ kid' = [kid EXCEPT ![k].at = "sent", ![k].data = sent] /\ UNCHANGED pc
  <2>1. KidInv'
    BY <1>1, KidAdvances, FilesFacts DEF IInv, AssetInv
  <2> QED
    BY <1>1, <2>1, KidKeeps, InvFacts DEF UploadStreams
<1>2. ASSUME NEW l \in {"end", "failed"}, Reports(k, l)
      PROVE  IInv'
  <2>1. kid[k] # NoKid /\ kid[k].does = "upload" /\ l \in Labels
    BY FilesFacts DEF UploadStreams, Labels
  <2>2. /\ GuardKept /\ faults' \in 0 .. MaxFaults
        /\ UNCHANGED <<db, mem, source, photos, result, output>>
    BY InvFacts DEF UploadStreams, guardVars, GuardKept
  <2> QED
    BY <1>2, <2>1, <2>2, InvFacts, ReportKeeps
<1> QED
  BY <1>1, <1>2 DEF UploadStreams

LEMMA KeepUploadPuts ==
  ASSUME IInv, NEW k \in Kids, UploadPuts(k)
  PROVE  IInv'
<1>1. kid[k] # NoKid /\ kid[k].does = "upload" /\ Reports(k, "proof") /\ "proof" \in Labels
  BY FilesFacts DEF UploadPuts, Labels
<1>2. kid[k].data \in Bytes /\ kid[k].for \in Monitors \union {None}
  BY InvFacts DEF UploadPuts, IInv, AssetInv, KidInv, KidRecords
<1>3. photos \subseteq photos' /\ photos' \subseteq Bytes /\ kid[k].data \in photos'
  BY <1>2, InvFacts DEF UploadPuts
<1>4. /\ result' \in [Monitors -> Files]
      /\ \A q \in Monitors : q # kid[k].for => result'[q] = result[q]
      /\ kid[k].for # None => result'[kid[k].for] = kid[k].data
  BY <1>2, InvFacts, FilesFacts DEF UploadPuts
<1>5. GuardKept /\ faults' \in 0 .. MaxFaults /\ UNCHANGED <<db, mem, source, output>>
  BY InvFacts DEF UploadPuts, guardVars, GuardKept
<1> QED
  BY <1>1, <1>3, <1>4, <1>5, InvFacts, ReportKeeps

LEMMA KeepKidFails ==
  ASSUME IInv, NEW k \in Kids, KidFails(k)
  PROVE  IInv'
<1>1. /\ GuardKept /\ faults' \in 0 .. MaxFaults
      /\ UNCHANGED <<db, mem, source, result, output>> /\ kid[k] # NoKid
  BY InvFacts DEF KidFails, GuardKept
<1>2. photos \subseteq photos' /\ photos' \subseteq Bytes
  BY InvFacts DEF KidFails, IInv, AssetInv, KidInv
<1>3. CASE kid[k].does = "encode"
  <2>1. Reports(k, "discard") /\ "discard" \in Labels
    BY <1>3 DEF KidFails, Labels
  <2> QED
    BY <1>1, <1>2, <1>3, <2>1, InvFacts, ReportKeeps
<1>4. CASE kid[k].does = "upload"
  <2>1. Reports(k, "end") /\ "end" \in Labels
    BY <1>4 DEF KidFails, Labels
  <2> QED
    BY <1>1, <1>2, <1>4, <2>1, InvFacts, ReportKeeps
<1>5. CASE kid[k].does = "nothing"
  <2>1. Reports(k, "end") /\ kid[k].for = None
    BY <1>5, InvFacts DEF KidFails, IInv, AssetInv, KidInv
  <2>2. KidInv' /\ pc' = pc
    BY <2>1, KidReports DEF IInv, AssetInv, Reports, Labels
  <2> QED
    BY <1>1, <1>2, <2>2, InvFacts, StepKeeps DEF IInv, AssetInv, AssetType
<1> QED
  BY <1>3, <1>4, <1>5, InvFacts DEF KidRecords

-----------------------------------------------------------------------------
(* Scans, the guard, and what goes wrong. *)

LEMMA KeepStartScan ==
  ASSUME IInv, NEW p \in Monitors, StartScan(p)
  PROVE  IInv'
<1>1. AssetType /\ KidInv /\ ScanInv /\ PhotoInv /\ SourceInv /\ HeicInv /\ MemoryInv /\ GuardInv
  BY DEF IInv, AssetInv
<1>2. /\ BeginScan(p) /\ Goto(p, "work") /\ mem' = [mem EXCEPT ![p] = db]
      /\ UNCHANGED <<db, result, output, source, kid, photos>>
  BY DEF StartScan
<1>3. proc[p] = "ready" /\ evicted' = evicted /\ pc[p] = "idle" /\ proc'[p] = "scan"
      /\ \A q \in Monitors \ {p} : proc'[q] = proc[q]
  BY <1>1, <1>2 DEF BeginScan, ScanInv, GuardInv, GuardTypeOK
<1>4. pc' \in [Monitors -> Labels] /\ pc'[p] = "work" /\ \A q \in Monitors \ {p} : pc'[q] = pc[q]
  BY <1>1, <1>2 DEF Goto, AssetType, Labels
<1>5. mem' \in [Monitors -> Records] /\ mem'[p] = db /\ \A q \in Monitors \ {p} : mem'[q] = mem[q]
  BY <1>1, <1>2 DEF AssetType
<1>6. AssetType'
  BY <1>1, <1>2, <1>4, <1>5 DEF AssetType
<1>7. KidInv'
  BY <1>1, <1>2, <1>3, KidsStay
<1>8. ScanInv'
  BY <1>1, <1>3, <1>4 DEF ScanInv
<1>9. PhotoInv'
  BY <1>1, <1>2, <1>4, <1>5 DEF PhotoInv, UploadIsProven
<1>10. SourceInv'
  BY <1>1, <1>2, <1>4, <1>5 DEF SourceInv
<1>11. HeicInv'
  BY <1>1, <1>2, <1>4, <1>5 DEF HeicInv, Adjusting, Converting
<1>12. MemoryInv'
  BY <1>1, <1>2, <1>3, <1>5 DEF MemoryInv, Scanning
<1>13. GuardInv'
  BY <1>1, <1>2, GuardBeginScan
<1> QED
  BY <1>6, <1>7, <1>8, <1>9, <1>10, <1>11, <1>12, <1>13 DEF IInv, AssetInv

LEMMA KeepStopScan ==
  ASSUME IInv, NEW p \in Monitors, StopScan(p)
  PROVE  IInv'
<1>1. pc[p] \notin {"encoding", "uploading"}
  BY DEF StopScan, Finished, EndScan, Leave, IInv, AssetInv, ScanInv
<1>2. GuardInv'
  BY GuardEndScan, GuardLeave DEF StopScan, IInv
<1>3. proc'[p] # "scan" /\ evicted' = evicted \ {p}
      /\ \A q \in Monitors \ {p} : proc'[q] = proc[q]
  BY DEF StopScan, EndScan, Leave, Gone, IInv, GuardInv, GuardTypeOK
<1>4. Forget({p}) /\ UNCHANGED <<db, photos, output, source, kid>>
  BY DEF StopScan
<1>5. Goto(p, "idle")
  BY <1>4 DEF Forget, Goto, IInv, AssetInv, AssetType
<1>6. KidInv'
  BY <1>1, <1>4, <1>5, KidsStay DEF IInv, AssetInv
<1> QED
  BY <1>2, <1>3, <1>4, <1>6, InvFacts, ForgetKeeps

LEMMA KeepMonitorDies ==
  ASSUME IInv, NEW p \in Monitors, MonitorDies(p)
  PROVE  IInv'
<1>1. Dies({p}) /\ faults' \in 0 .. MaxFaults
  BY InvFacts DEF MonitorDies, Crash, OperatorStops
<1>2. GuardInv'
  BY <1>1, GuardDies DEF IInv
<1>3. proc'[p] # "scan" /\ evicted' = evicted \ {p}
      /\ \A q \in Monitors \ {p} : proc'[q] = proc[q]
  BY <1>1 DEF Dies, Gone
<1>4. Forget({p}) /\ UNCHANGED <<db, photos, output, source>>
  BY DEF MonitorDies
<1>5. kid \in [Kids -> KidRecords]
  BY InvFacts
<1>6. \A k \in Kids : kid'[k] = IF kid[k].for = p THEN [kid[k] EXCEPT !.for = None] ELSE kid[k]
  BY DEF MonitorDies
<1>7. \A k \in Kids : /\ kid'[k] \in KidRecords
                      /\ kid'[k].does = kid[k].does /\ kid'[k].at = kid[k].at
                      /\ kid'[k].data = kid[k].data
                      /\ kid'[k].for = IF kid[k].for = p THEN None ELSE kid[k].for
  <2> TAKE k \in Kids
  <2>1. CASE kid[k].for = p
    BY <2>1, <1>5, <1>6 DEF KidRecords
  <2>2. CASE kid[k].for # p
    BY <2>2, <1>5, <1>6
  <2> QED
    BY <2>1, <2>2
<1>8. kid' \in [Kids -> KidRecords]
  BY <1>7 DEF MonitorDies
<1>9. \A q \in Monitors \ {p} : pc'[q] = pc[q]
  BY <1>4 DEF Forget
<1>10. KidInv'
  BY <1>5, <1>7, <1>8, <1>9 DEF IInv, AssetInv, KidInv, KidType, KidRecords
<1> QED
  BY <1>2, <1>3, <1>4, <1>10, InvFacts, ForgetKeeps

LEMMA KeepPowerLoss ==
  ASSUME IInv, PowerLoss
  PROVE  IInv'
<1>1. Dies(Monitors) /\ faults' \in 0 .. MaxFaults
  BY InvFacts DEF PowerLoss
<1>2. GuardInv'
  BY <1>1, GuardDies DEF IInv
<1>3. evicted' = evicted \ Monitors /\ \A q \in Monitors : proc'[q] # "scan"
  BY <1>1 DEF Dies, Gone
<1>4. Forget(Monitors) /\ UNCHANGED <<db, photos>>
  BY DEF PowerLoss
<1>5. output' \in Files /\ source' \in {"none", "installed", "synced"}
      /\ (source = "synced" => source' = "synced")
  BY InvFacts, FilesFacts DEF PowerLoss
<1>6. KidInv'
  BY FilesFacts DEF PowerLoss, KidInv, KidType
<1> QED
  BY <1>2, <1>3, <1>4, <1>5, <1>6, ForgetKeeps

(* The guard moves, and the asset does not: no monitor's scan begins or ends. *)
LEMMA AssetFrame ==
  ASSUME IInv, GuardInv', UNCHANGED assetVars, Scanning' = Scanning, evicted \subseteq evicted',
         proc' \in [Monitors -> {"off", "opened", "validated", "ready", "scan"}]
  PROVE  IInv'
<1>1. AssetType' /\ KidInv' /\ PhotoInv' /\ SourceInv' /\ HeicInv'
  BY DEF IInv, AssetInv, assetVars, AssetType, KidInv, KidType, PhotoInv, UploadIsProven,
         SourceInv, HeicInv
<1>2. ScanInv' /\ MemoryInv'
  BY DEF IInv, AssetInv, assetVars, ScanInv, MemoryInv, Scanning
<1> QED
  BY <1>1, <1>2 DEF IInv, AssetInv

LEMMA KeepGuarding ==
  ASSUME IInv, NEW p \in Monitors, Guarding(p)
  PROVE  IInv'
<1>1. GuardInv'
  BY GuardOpenLock, GuardValidateLock, GuardFlock, GuardHeartbeatLost
     DEF Guarding, GuardStep, IInv
<1>2. Scanning' = Scanning /\ evicted' = evicted
  BY DEF Guarding, GuardStep, OpenLock, ValidateLock, Flock, HeartbeatLost, Scanning, IInv,
         GuardInv, GuardTypeOK
<1> QED
  BY <1>1, <1>2, AssetFrame DEF Guarding, GuardInv, GuardTypeOK

LEMMA KeepElsewhere ==
  ASSUME IInv, Elsewhere
  PROVE  IInv'
<1>1. GuardInv'
  BY GuardLeaseExpires, GuardReplaceLock DEF Elsewhere, IInv
<1>2. Scanning' = Scanning /\ evicted \subseteq evicted'
  BY DEF Elsewhere, LeaseExpires, ReplaceLock, Scanning
<1> QED
  BY <1>1, <1>2, AssetFrame DEF Elsewhere, GuardInv, GuardTypeOK

-----------------------------------------------------------------------------
(* The invariant is inductive. *)

LEMMA IInvInit == Init => IInv
<1> SUFFICES ASSUME Init PROVE IInv
  OBVIOUS
<1>1. GuardInv /\ Scanning = {}
  BY GuardInvInit DEF Init, GuardInit, Scanning
<1>2. db \in Records /\ db.state \in {"required", "nas"} /\ ~db.adjusted /\ db.heic = None
  <2>1. ASSUME NEW s \in {"required", "nas"}
        PROVE  /\ Fresh(s) \in Records /\ Fresh(s).state = s /\ ~Fresh(s).adjusted
               /\ Fresh(s).heic = None
    BY FilesFacts DEF Fresh, Records
  <2>2. PICK s \in {"required", "nas"} : db = Fresh(s)
    BY DEF Init
  <2> QED
    BY <2>1, <2>2
<1>3. AssetType
  BY <1>2, FilesFacts DEF Init, AssetType, Labels
<1>4. KidInv
  BY FilesFacts DEF Init, KidInv, KidType
<1>5. ScanInv
  BY DEF Init, GuardInit, ScanInv
<1>6. PhotoInv /\ SourceInv /\ HeicInv
  BY <1>2, FilesFacts DEF Init, PhotoInv, UploadIsProven, SourceInv, HeicInv, Adjusting, Converting
<1>7. MemoryInv
  BY <1>1 DEF MemoryInv
<1> QED
  BY <1>1, <1>3, <1>4, <1>5, <1>6, <1>7 DEF IInv, AssetInv

LEMMA IInvNext == IInv /\ [Next]_vars => IInv'
<1> SUFFICES ASSUME IInv, [Next]_vars PROVE IInv'
  OBVIOUS
<1>1. CASE UNCHANGED vars
  <2>1. GuardInv'
    BY <1>1, InvFacts, GuardFrame DEF vars, guardVars, IInv
  <2> QED
    BY <1>1, <2>1, AssetFrame DEF vars, guardVars, Scanning, GuardInv, GuardTypeOK
<1>2. ASSUME NEW p \in Monitors,
             Guarding(p) \/ StartScan(p) \/ Work(p) \/ StopScan(p) \/ MonitorDies(p)
      PROVE  IInv'
  BY <1>2, KeepGuarding, KeepStartScan, KeepWork, KeepStopScan, KeepMonitorDies
<1>3. ASSUME NEW k \in Kids, KidStep(k) \/ KidFails(k)
      PROVE  IInv'
  BY <1>3, KeepEncoderOpens, KeepEncoderWrites, KeepUploadOpens, KeepUploadStreams,
     KeepUploadPuts, KeepKidFails DEF KidStep
<1> QED
  BY <1>1, <1>2, <1>3, KeepElsewhere, KeepPowerLoss DEF Next

THEOREM Inductive == Spec => []IInv
<1> QED
  BY IInvInit, IInvNext, PTL DEF Spec

-----------------------------------------------------------------------------
(* What it shows. *)

(* Every variable keeps its type. *)
THEOREM TypeCorrect == Spec => []TypeOK
<1> QED
  BY Inductive, IInvTypes, PTL

(* Of the monitors that scan, all but those whose lock file was replaced     *)
(* during their scan are the same one: acquire_manifest_lock and the lease.  *)
THEOREM OneMonitorScans ==
  Spec => [](\A p, q \in Scanning \ evicted : p = q)
<1>1. IInv => \A p, q \in Scanning \ evicted : p = q
  BY DEF IInv, GuardInv
<1> QED
  BY <1>1, Inductive, PTL

(* An upload is recorded only if iCloud has a photo of the converted bytes:  *)
(* build_upload_proof.                                                       *)
THEOREM UploadProven == Spec => []UploadIsProven
<1>1. IInv => UploadIsProven
  BY DEF IInv, AssetInv, PhotoInv
<1> QED
  BY <1>1, Inductive, PTL

(* The file of a durable adjusted_source proof is there, and synced.          *)
THEOREM SourceKept == Spec => []AdjustedSourceKept
<1>1. IInv => AdjustedSourceKept
  BY DEF IInv, AssetInv, SourceInv, AdjustedSourceKept
<1> QED
  BY <1>1, Inductive, PTL

(* A converted file is removed only by a monitor whose lock was replaced: one *)
(* that was not evicted has the durable record in memory, without the proof.  *)
THEOREM HeicKept == Spec => ProvenHeicKept
<1>1. ASSUME IInv, NEW p \in Monitors, Clean(p) \/ Discard(p),
             output # None, output = db.heic, output' = None, p \notin evicted
      PROVE  FALSE
  <2>1. p \in Scanning
    BY <1>1 DEF Clean, Discard, IInv, AssetInv, ScanInv, Scanning
  <2>2. mem[p] = db
    BY <1>1, <2>1 DEF IInv, AssetInv, MemoryInv
  <2>3. CASE Clean(p)
    BY <1>1, <2>2, <2>3 DEF Clean
  <2>4. CASE Discard(p)
    BY <1>1, <2>2, <2>4 DEF Discard, IInv, AssetInv, HeicInv, Converting
  <2> QED
    BY <1>1, <2>3, <2>4
<1>2. IInv => \A p \in Monitors :
          (Clean(p) \/ Discard(p)) /\ output # None /\ output = db.heic /\ output' = None
              => p \in evicted
  BY <1>1
<1>3. IInv /\ [Next]_vars =>
          [\A p \in Monitors :
              (Clean(p) \/ Discard(p)) /\ output # None /\ output = db.heic /\ output' = None
                  => p \in evicted]_vars
  BY <1>2
<1> QED
  BY <1>3, Inductive, PTL DEF Spec, ProvenHeicKept
=============================================================================
