----------------------------- MODULE AssetScan -----------------------------
(***************************************************************************)
(* One asset on its way from a verified RAW to an uploaded HEIC, in the    *)
(* rolling scans of monitors that crash, sleep and are started again: the  *)
(* adjusted source (adjusted_source.rs), the conversion by child processes *)
(* into the output path (conversion_execution.rs), the verification, and   *)
(* the upload by a child process (monitor.rs, upload.rs).                  *)
(*                                                                         *)
(* Children are in process groups of their own and outlive a monitor that  *)
(* dies: an encoder may then write to the path of a later conversion, and  *)
(* an upload may still put its photo.  What the monitor trusts is only the *)
(* durable record, written under the lease of MonitorGuard.  A failed      *)
(* record is final here; RetryAdmission has what becomes of it.            *)
(***************************************************************************)
EXTENDS MonitorGuard

CONSTANTS
    Bytes,       \* complete HEIC files an encoder may produce
    Part,        \* the content of a file that is still being written
    None,        \* no file, no hash
    Kids         \* child processes that can be alive together

ASSUME AssetAssumption ==
    /\ Part \notin Bytes /\ None \notin Bytes /\ Part # None
    /\ Part \notin Monitors /\ None \notin Monitors

VARIABLES
    db,         \* the durable record of the asset
    mem,        \* the record in the manifest of each monitor's scan
    pc,         \* what the worker of each monitor is doing
    result,     \* the hash its conversion or upload returned
    output,     \* the content of the output path
    source,     \* the adjusted source: none, installed, or synced to disk
    kid,        \* the child processes
    photos      \* the photos in iCloud

assetVars == <<db, mem, pc, result, output, source, kid, photos>>
vars == <<guardVars, assetVars>>

Files == Bytes \union {Part, None}

Records == [state : {"required", "nas", "converted", "verified", "uploaded", "failed"},
            adjusted : BOOLEAN,    \* has an adjusted_source proof
            heic : Files]          \* the hash in its conversion and HEIC proofs

Fresh(s) == [state |-> s, adjusted |-> FALSE, heic |-> None]

NoRecord == Fresh("nas")

NoKid == [does |-> "nothing", for |-> None, at |-> "end", data |-> None]

(* An adjusted source is still required, or the RAW has its preview. *)
Init ==
    /\ GuardInit
    /\ db \in {Fresh("required"), Fresh("nas")}
    /\ mem = [p \in Monitors |-> NoRecord]
    /\ pc = [p \in Monitors |-> "idle"]
    /\ result = [p \in Monitors |-> None]
    /\ output = None
    /\ source = "none"
    /\ kid = [k \in Kids |-> NoKid]
    /\ photos = {}

-----------------------------------------------------------------------------
(* Building blocks. *)

Goto(p, l) == pc' = [pc EXCEPT ![p] = l]

(* A child that ends reports to its monitor, if that is still alive. *)
Reports(k, l) ==
    /\ pc' = IF kid[k].for = None THEN pc ELSE [pc EXCEPT ![kid[k].for] = l]
    /\ kid' = [kid EXCEPT ![k] = NoKid]

Spawn(p, task, hash) ==
    \E k \in Kids :
        /\ kid[k] = NoKid
        /\ kid' = [kid EXCEPT ![k] =
                       [does |-> task, for |-> p, at |-> "spawned", data |-> hash]]

(* Who has the removed file open keeps it, under no name. *)
RemoveOutput ==
    /\ output' = None
    /\ kid' = [k \in Kids |-> IF kid[k].at = "open" THEN [kid[k] EXCEPT !.at = "unlinked"]
                                                    ELSE kid[k]]

(* persist_asset_record: durable and in memory, or neither and the scan     *)
(* ends with an error.                                                      *)
Persist(p, r) ==
    /\ IF Writable(p)
       THEN /\ db' = r
            /\ mem' = [mem EXCEPT ![p] = r]
            /\ Goto(p, IF r.state = "failed" THEN "end" ELSE "work")
       ELSE /\ Goto(p, "end")
            /\ UNCHANGED <<db, mem>>
    /\ result' = [result EXCEPT ![p] = None]
    /\ UNCHANGED <<guardVars, output, source, kid, photos>>

With(p, s) == [mem[p] EXCEPT !.state = s]

-----------------------------------------------------------------------------
(* The adjusted source: CloudKitAdjustedSourceResolver::resolve.  The bytes  *)
(* belong to one change tag of the original, so that what an earlier attempt *)
(* installed is what is downloaded again; the staging directory has a new    *)
(* name each time and nobody else sees it.                                   *)

Download(p) ==
    /\ pc[p] = "work" /\ mem[p].state = "required"
    /\ \/ Goto(p, IF source = "none" THEN "install" ELSE "seal") /\ UNCHANGED faults
       \/ Goto(p, "failed") /\ Fault("error")
    /\ UNCHANGED <<lockFile, fd, proc, store, lease, evicted>>
    /\ UNCHANGED <<db, mem, result, output, source, kid, photos>>

(* A synced temporary file is renamed, never over an existing one. *)
Install(p) ==
    /\ pc[p] = "install"
    /\ source' = IF source = "none" THEN "installed" ELSE source
    /\ Goto(p, "seal")
    /\ UNCHANGED <<guardVars, db, mem, result, output, kid, photos>>

(* Mutant: the directory of an installed file is not synced. *)
Seal_NoSync(p) ==
    /\ pc[p] = "seal"
    /\ Goto(p, IF source = "none" THEN "failed" ELSE "adjusted")
    /\ UNCHANGED <<guardVars, db, mem, result, output, source, kid, photos>>

(* The file and its directory are synced, and it must still be there. *)
Seal(p) ==
    /\ pc[p] = "seal"
    /\ source' = IF source = "none" THEN "none" ELSE "synced"
    /\ Goto(p, IF source = "none" THEN "failed" ELSE "adjusted")
    /\ UNCHANGED <<guardVars, db, mem, result, output, kid, photos>>

(* persist_rolling_adjusted_source_exact_cas: only over the record that was  *)
(* read; whoever lost takes the durable one and leaves the asset alone.      *)
SaveAdjusted(p) ==
    /\ pc[p] = "adjusted"
    /\ IF Writable(p) /\ db # mem[p]
       THEN /\ mem' = [mem EXCEPT ![p] = db]
            /\ Goto(p, "end")
            /\ UNCHANGED <<guardVars, db, result, output, source, kid, photos>>
       ELSE Persist(p, [mem[p] EXCEPT !.state = "nas", !.adjusted = TRUE])

-----------------------------------------------------------------------------
(* The conversion: run_rolling_asset_conversion. *)

(* remove_stale_monitor_conversion_artifacts *)
Clean(p) ==
    /\ pc[p] = "work" /\ mem[p].state = "nas"
    /\ IF mem[p].heic = None THEN RemoveOutput ELSE UNCHANGED <<output, kid>>
    /\ Goto(p, "convert")
    /\ UNCHANGED <<guardVars, db, mem, result, source, photos>>

(* An output that exists is refused and left alone; then the RAW is staged,  *)
(* which may fail, and the commands run, here as one child.                  *)
Convert(p) ==
    /\ pc[p] = "convert"
    /\ LET clear == output = None /\ (mem[p].adjusted => source # "none") IN
       \/ clear /\ Spawn(p, "encode", None) /\ Goto(p, "encoding") /\ UNCHANGED faults
       \/ ~clear /\ Goto(p, "failed") /\ UNCHANGED <<kid, faults>>
       \/ clear /\ Goto(p, "failed") /\ Fault("error") /\ UNCHANGED kid
    /\ UNCHANGED <<lockFile, fd, proc, store, lease, evicted>>
    /\ UNCHANGED <<db, mem, result, output, source, photos>>

(* Encoders create the file or truncate what has its name. *)
EncoderOpens(k) ==
    /\ kid[k].does = "encode" /\ kid[k].at = "spawned"
    /\ output' = Part
    /\ kid' = [kid EXCEPT ![k].at = "open"]
    /\ UNCHANGED <<guardVars, db, mem, pc, result, source, photos>>

EncoderWrites(k) ==
    /\ kid[k].does = "encode" /\ kid[k].at \in {"open", "unlinked"}
    /\ IF kid[k].at = "open" THEN output' \in Bytes ELSE UNCHANGED output
    /\ Reports(k, "hash")
    /\ UNCHANGED <<guardVars, db, mem, result, source, photos>>

(* seal_conversion_output and inspect_output take what is at the path, unless *)
(* it is missing or empty.                                                    *)
Hash(p) ==
    /\ pc[p] = "hash"
    /\ \/ /\ output # None
          /\ result' = [result EXCEPT ![p] = output]
          /\ Goto(p, "converted")
       \/ output \in {None, Part} /\ Goto(p, "discard") /\ UNCHANGED result
    /\ UNCHANGED <<guardVars, db, mem, output, source, kid, photos>>

SaveConverted(p) ==
    /\ pc[p] = "converted"
    /\ Persist(p, [With(p, "converted") EXCEPT !.heic = result[p]])

(* remove_failed_output *)
Discard(p) ==
    /\ pc[p] = "discard"
    /\ RemoveOutput
    /\ Goto(p, "failed")
    /\ UNCHANGED <<guardVars, db, mem, result, source, photos>>

SaveFailed(p) ==
    pc[p] = "failed" /\ Persist(p, With(p, "failed"))

-----------------------------------------------------------------------------
(* The verification: run_rolling_asset_verify.  It looks at the pictures at  *)
(* the path and takes the hash from the conversion.  Only failures with a    *)
(* kind are recorded.                                                        *)
Verify(p) ==
    /\ pc[p] = "work" /\ mem[p].state = "converted"
    /\ \/ output \in Bytes /\ Goto(p, "verified") /\ UNCHANGED faults
       \/ output \in Bytes /\ Goto(p, "failed") /\ Fault("error")
       \/ output \notin Bytes /\ Goto(p, "end") /\ UNCHANGED faults
       \/ Goto(p, "end") /\ Fault("error")
    /\ UNCHANGED <<lockFile, fd, proc, store, lease, evicted>>
    /\ UNCHANGED <<db, mem, result, output, source, kid, photos>>

SaveVerified(p) ==
    pc[p] = "verified" /\ Persist(p, With(p, "verified"))

-----------------------------------------------------------------------------
(* The upload: run_rolling_asset_upload_with_child and the child. *)

(* The child is given a copy of the store, which only the owner of the lease *)
(* can make, and checks that it has the record it was asked to upload.        *)
Upload(p) ==
    /\ pc[p] = "work" /\ mem[p].state = "verified"
    /\ IF Writable(p)
       THEN Spawn(p, "upload", mem[p].heic) /\ Goto(p, "uploading")
       ELSE Goto(p, "end") /\ UNCHANGED kid
    /\ UNCHANGED <<guardVars, db, mem, result, output, source, photos>>

(* VerifiedUploadSource::from_verified_heic.  No two partial files are alike. *)
UploadOpens(k) ==
    /\ kid[k].does = "upload" /\ kid[k].at = "spawned"
    /\ IF output \in Bytes /\ output = kid[k].data
       THEN kid' = [kid EXCEPT ![k].at = "open"] /\ UNCHANGED pc
       ELSE Reports(k, "failed")
    /\ UNCHANGED <<guardVars, db, mem, result, output, source, photos>>

(* The open file is streamed as it is now.  A partial one has another size:  *)
(* UnsafeHeicSource leaves the record, a streamed size mismatch fails it.     *)
UploadStreams(k) ==
    /\ kid[k].does = "upload" /\ kid[k].at \in {"open", "unlinked"}
    /\ LET sent == IF kid[k].at = "open" THEN output ELSE kid[k].data IN
       IF sent \in Bytes
       THEN kid' = [kid EXCEPT ![k].at = "sent", ![k].data = sent] /\ UNCHANGED pc
       ELSE Reports(k, "end") \/ Reports(k, "failed")
    /\ UNCHANGED <<guardVars, db, mem, result, output, source, photos>>

(* Mutant: a duplicate is an error, as any other 409 is. *)
UploadPuts_Conflict(k) ==
    /\ kid[k].does = "upload" /\ kid[k].at = "sent"
    /\ photos' = photos \union {kid[k].data}
    /\ Reports(k, IF kid[k].data \in photos THEN "end" ELSE "proof")
    /\ result' = IF kid[k].for = None THEN result
                 ELSE [result EXCEPT ![kid[k].for] = kid[k].data]
    /\ UNCHANGED <<guardVars, db, mem, output, source>>

(* putAsset makes a photo.  For bytes that are in the library already it      *)
(* answers 409 with the ids of that photo, which parse_put_asset_response     *)
(* takes as the success it is.                                                *)
UploadPuts(k) ==
    /\ kid[k].does = "upload" /\ kid[k].at = "sent"
    /\ photos' = photos \union {kid[k].data}
    /\ Reports(k, "proof")
    /\ result' = IF kid[k].for = None THEN result
                 ELSE [result EXCEPT ![kid[k].for] = kid[k].data]
    /\ UNCHANGED <<guardVars, db, mem, output, source>>

(* Mutant: neither what was sent nor the file is compared with the record. *)
CheckUpload_Trusts(p) ==
    /\ pc[p] = "proof"
    /\ Goto(p, "uploaded")
    /\ UNCHANGED <<guardVars, db, mem, result, output, source, kid, photos>>

(* build_upload_proof: the streamed hash is the verified one, and so is the  *)
(* file's, still.  A mismatch leaves the record for the next scan.           *)
CheckUpload(p) ==
    /\ pc[p] = "proof"
    /\ Goto(p, IF result[p] = mem[p].heic /\ output = mem[p].heic THEN "uploaded" ELSE "end")
    /\ UNCHANGED <<guardVars, db, mem, result, output, source, kid, photos>>

SaveUploaded(p) ==
    pc[p] = "uploaded" /\ Persist(p, With(p, "uploaded"))

-----------------------------------------------------------------------------
(* Scans, and what goes wrong. *)

StartScan(p) ==
    /\ BeginScan(p)
    /\ mem' = [mem EXCEPT ![p] = db]
    /\ Goto(p, "work")
    /\ UNCHANGED <<db, result, output, source, kid, photos>>

(* The worker is done with the asset, or was refused by the store. *)
Finished(p) ==
    pc[p] = "end" \/ (pc[p] = "work" /\ mem[p].state \in {"uploaded", "failed"})

Forget(P) ==
    /\ mem' = [p \in Monitors |-> IF p \in P THEN NoRecord ELSE mem[p]]
    /\ pc' = [p \in Monitors |-> IF p \in P THEN "idle" ELSE pc[p]]
    /\ result' = [p \in Monitors |-> IF p \in P THEN None ELSE result[p]]

StopScan(p) ==
    /\ \/ EndScan(p) /\ Finished(p)
       \/ Leave(p) /\ (proc[p] = "scan" => Finished(p))
    /\ Forget({p})
    /\ UNCHANGED <<db, output, source, kid, photos>>

(* Its children go on by themselves. *)
MonitorDies(p) ==
    /\ Crash(p) \/ OperatorStops(p)
    /\ Forget({p})
    /\ kid' = [k \in Kids |-> IF kid[k].for = p THEN [kid[k] EXCEPT !.for = None] ELSE kid[k]]
    /\ UNCHANGED <<db, output, source, photos>>

(* A command fails, or runs into its timeout and is killed with its group;  *)
(* or the answer of putAsset, with or without its photo, is lost.            *)
KidFails(k) ==
    /\ kid[k] # NoKid
    /\ \/ UNCHANGED photos
       \/ kid[k].at = "sent" /\ photos' = photos \union {kid[k].data}
    /\ Reports(k, IF kid[k].does = "encode" THEN "discard" ELSE "end")
    /\ Fault("error")
    /\ UNCHANGED <<lockFile, fd, proc, store, lease, evicted>>
    /\ UNCHANGED <<db, mem, result, output, source>>

(* What was not synced may be lost: here the name of a file whose directory  *)
(* was not.  The database commits are synced.                                *)
PowerLoss ==
    /\ \E p \in Monitors : proc[p] # "off"
    /\ Dies(Monitors) /\ Fault("power")
    /\ Forget(Monitors)
    /\ kid' = [k \in Kids |-> NoKid]
    /\ output' \in {output, None}
    /\ source' \in IF source = "installed" THEN {"none", "installed"} ELSE {source}
    /\ UNCHANGED <<db, photos>>

Work(p) ==
    \/ Download(p) \/ Install(p) \/ Seal(p) \/ SaveAdjusted(p)
    \/ Clean(p) \/ Convert(p) \/ Hash(p) \/ SaveConverted(p)
    \/ Discard(p) \/ SaveFailed(p)
    \/ Verify(p) \/ SaveVerified(p)
    \/ Upload(p) \/ CheckUpload(p) \/ SaveUploaded(p)

KidStep(k) ==
    \/ EncoderOpens(k) \/ EncoderWrites(k)
    \/ UploadOpens(k) \/ UploadStreams(k) \/ UploadPuts(k)

Guarding(p) == GuardStep(p) /\ UNCHANGED assetVars

Elsewhere == (LeaseExpires \/ ReplaceLock) /\ UNCHANGED assetVars

Next ==
    \/ \E p \in Monitors :
          Guarding(p) \/ StartScan(p) \/ Work(p) \/ StopScan(p) \/ MonitorDies(p)
    \/ \E k \in Kids : KidStep(k) \/ KidFails(k)
    \/ Elsewhere \/ PowerLoss

Spec == Init /\ [][Next]_vars

(* Threads and children run, time goes on, a monitor that ended is started  *)
(* again, and somebody stops one that can never scan again.                 *)
FairSpec ==
    /\ Spec
    /\ \A p \in Monitors :
          /\ WF_vars(OpenLock(p) /\ UNCHANGED assetVars)
          /\ WF_vars(ValidateLock(p) /\ UNCHANGED assetVars)
          /\ WF_vars(Flock(p) /\ UNCHANGED assetVars)
          /\ WF_vars(HeartbeatLost(p) /\ UNCHANGED assetVars)
          /\ WF_vars(StartScan(p)) /\ WF_vars(Work(p)) /\ WF_vars(StopScan(p))
          /\ WF_vars(MonitorDies(p) /\ UNCHANGED faults)
    /\ \A k \in Kids : WF_vars(KidStep(k))
    /\ WF_vars(LeaseExpires /\ ~Renewed /\ UNCHANGED assetVars)

-----------------------------------------------------------------------------
TypeOK ==
    /\ GuardTypeOK
    /\ db \in Records
    /\ mem \in [Monitors -> Records]
    /\ pc \in [Monitors -> {"idle", "work", "install", "seal", "adjusted", "convert",
                            "encoding", "hash", "converted", "discard", "failed", "verified",
                            "uploading", "proof", "uploaded", "end"}]
    /\ result \in [Monitors -> Files]
    /\ output \in Files
    /\ source \in {"none", "installed", "synced"}
    /\ kid \in [Kids -> [does : {"nothing", "encode", "upload"}, for : Monitors \union {None},
                         at : {"end", "spawned", "open", "unlinked", "sent"}, data : Files]]
    /\ photos \subseteq Bytes
    /\ \A p \in Monitors : pc[p] = "idle" <=> proc[p] # "scan"

(* No monitor removes the file a durable conversion proof names, unless its  *)
(* own lock file was replaced during its scan: neither the removal of stale  *)
(* artifacts nor that of a failed output checks the lease.                   *)
ProvenHeicKept ==
    [][\A p \in Monitors :
          (Clean(p) \/ Discard(p)) /\ output # None /\ output = db.heic /\ output' = None
              => p \in evicted]_vars

(* A record is uploaded only if iCloud has a photo of the bytes that were    *)
(* converted, whoever wrote to the file meanwhile and whatever answers were   *)
(* lost.                                                                      *)
UploadIsProven ==
    db.state = "uploaded" => db.heic \in photos

(* The file of a durable adjusted_source proof survives a loss of power. *)
AdjustedSourceKept ==
    db.adjusted => source # "none"

(* A converted file may lose its name: only its content was synced. *)
OutputGone ==
    db.state = "converted" /\ output \notin Bytes

(* After finitely many faults the asset is uploaded, with one photo for all  *)
(* attempts that put the same bytes, or its failure is recorded.              *)
AssetIsDecided ==
    <>[](db.state \in {"uploaded", "failed"} \/ OutputGone)
=============================================================================
