----------------------------- MODULE StateStore -----------------------------
(***************************************************************************)
(* The SQLite sidecar of the manifest (src/state_store.rs): the writer     *)
(* lease that fences every mutation, the asset rows, the JSON checkpoint   *)
(* next to the database, and the handles (AssetStateStore values together  *)
(* with the Manifest their caller keeps in memory) that use them.          *)
(*                                                                         *)
(* Every mutation of the code runs in one BEGIN IMMEDIATE transaction, so  *)
(* at most one is open at a time.  A transaction is two steps here, Begin  *)
(* (validate the lease, check the rows, prepare the change) and Commit,    *)
(* because time passes, processes die and, for an export, the JSON file is *)
(* replaced in between.  The steps that only touch the lease have nothing  *)
(* in between that another handle could see and are one action each.       *)
(***************************************************************************)
EXTENDS Integers

CONSTANTS Handles,   \* open stores: processes, or worker threads of one process
          Owners,    \* writer owner ids
          Assets,    \* asset ids
          Bodies,    \* what a record says besides its updated_at
          NoOwner,   \* the empty owner id of a released lease
          Absent,    \* an asset without a row
          NoHandle,  \* no transaction is open
          ClockSetBack, \* whether the wall clock may be set back
          Ttl,       \* lease time to live, in clock ticks
          MaxTime,   \* bound: the clock stays within 0..MaxTime
          MaxEpoch   \* bound: no lease is granted beyond this epoch

ASSUME ConstantsAssumption ==
    /\ NoOwner \notin Owners
    /\ NoHandle \notin Handles
    /\ Absent \notin [at : Nat, body : Bodies]
    /\ ClockSetBack \in BOOLEAN
    /\ Ttl \in Nat \ {0}
    /\ MaxTime \in Nat \ {0}
    /\ MaxEpoch \in Nat \ {0}

VARIABLES
    now,         \* the wall clock, which may also be set back
    schema,      \* PRAGMA user_version: 0 no database, 1 legacy, 2 current
    lease,       \* the single row of writer_lease
    rows,        \* the assets table
    imported,    \* json_import_metadata.imported_once
    checkpoint,  \* the manifest JSON file
    phase,       \* the life of a handle
    token,       \* the WriterLeaseToken of a handle
    cache,       \* the Manifest in memory of a handle's caller
    seen,        \* the rows a handle last read or wrote, what a CAS expects
    txn,         \* the open IMMEDIATE transaction and the change it prepared
    rowEpoch     \* history: the epoch of the token that wrote each row

database == <<schema, lease, rows, imported, rowEpoch>>
handleVars == <<phase, token, cache, seen>>
vars == <<now, database, checkpoint, handleVars, txn>>

-----------------------------------------------------------------------------
Records == [at : Nat, body : Bodies]
Tables == [Assets -> Records \union {Absent}]
Leases == [owner : Owners \union {NoOwner}, epoch : Nat, expires : Nat]
Tokens == [owner : Owners \union {NoOwner}, epoch : Nat]
Kinds == {"none", "import", "upsert", "cas", "export", "published"}

NoTable == [a \in Assets |-> Absent]
NoToken == [owner |-> NoOwner, epoch |-> 0]
FreshLease == [owner |-> NoOwner, epoch |-> 0, expires |-> 0]
NoTxn == [by |-> NoHandle, kind |-> "none", batch |-> {},
          lease |-> FreshLease, rows |-> NoTable]
Idle == txn.by = NoHandle

Later(s, t) == IF s > t THEN s ELSE t

(* The condition of the ON CONFLICT clause of upsert_encoded_record. *)
Newer(new, old) == old # Absent => (new # Absent /\ new.at > old.at)

-----------------------------------------------------------------------------
(* The writer lease. *)

(* Mutant: an expired lease still blocks other owners. *)
Acquirable_ExpiryIgnored(o) == lease.owner \in {o, NoOwner}

Acquirable(o) ==
    \/ lease.owner \in {o, NoOwner}
    \/ lease.expires <= now

(* Mutant: a released lease is taken without a new epoch. *)
Acquired_KeepsReleasedEpoch(o) ==
    IF lease.owner \in {o, NoOwner}
    THEN [lease EXCEPT !.owner = o, !.expires = Later(lease.expires, now + Ttl)]
    ELSE [owner |-> o, epoch |-> lease.epoch + 1, expires |-> now + Ttl]

Acquired(o) ==
    IF lease.owner = o /\ lease.expires > now
    THEN [lease EXCEPT !.expires = Later(lease.expires, now + Ttl)]
    ELSE [owner |-> o, epoch |-> lease.epoch + 1, expires |-> now + Ttl]

Validates(tok) ==
    /\ lease.owner = tok.owner
    /\ lease.epoch = tok.epoch
    /\ lease.expires > now

Renewed == [lease EXCEPT !.expires = Later(lease.expires, now + Ttl)]

(* Mutant: a release starts the epochs over. *)
Released_ResetsEpoch(tok) ==
    IF lease.owner = tok.owner /\ lease.epoch = tok.epoch THEN FreshLease ELSE lease

Released(tok) ==
    IF lease.owner = tok.owner /\ lease.epoch = tok.epoch
    THEN [lease EXCEPT !.owner = NoOwner, !.expires = 0]
    ELSE lease

(* Mutant: a batch is not checked before its conditional upserts. *)
Acceptable_Unchecked(request, persisted) == TRUE

(* validate_requested_record: neither newer than the request, nor equally old and different. *)
Acceptable(request, persisted) ==
    persisted # Absent => (request.at > persisted.at \/ request = persisted)

(* Mutant: the upsert has no condition. *)
Upserted_Unconditional(old, new) ==
    [a \in Assets |-> IF new[a] # Absent THEN new[a] ELSE old[a]]

Upserted(old, new) ==
    [a \in Assets |-> IF new[a] # Absent /\ Newer(new[a], old[a]) THEN new[a] ELSE old[a]]

-----------------------------------------------------------------------------
(* Before any writer of this version: no database yet, or a legacy one that *)
(* an older program filled together with its JSON manifest.                 *)
Init ==
    /\ now = 1
    /\ schema \in {0, 1}
    /\ lease = FreshLease
    /\ rows \in [Assets -> [at : {0}, body : Bodies] \union {Absent}]
    /\ schema = 0 => rows = NoTable
    /\ imported = FALSE
    /\ checkpoint \in [Assets -> [at : {0}, body : Bodies] \union {Absent}]
    /\ phase = [h \in Handles |-> "closed"]
    /\ token = [h \in Handles |-> NoToken]
    /\ cache = [h \in Handles |-> NoTable]
    /\ seen = [h \in Handles |-> NoTable]
    /\ txn = NoTxn
    /\ rowEpoch = [a \in Assets |-> 0]

-----------------------------------------------------------------------------
(* Opening, renewing and giving up a writer. *)

MigrateSchemaOnly ==
    /\ schema = 1
    /\ Idle
    /\ rows # NoTable
    /\ schema' = 2
    /\ lease' = [FreshLease EXCEPT !.epoch = 1]
    /\ imported' = TRUE
    /\ UNCHANGED <<now, rows, checkpoint, handleVars, txn, rowEpoch>>

(* Mutant: the lease is granted while another connection's transaction is open. *)
OpenWriter_NotImmediate(h, o) ==
    /\ phase[h] = "closed"
    /\ schema # 1
    /\ Acquirable(o)
    /\ Acquired(o).epoch <= MaxEpoch
    /\ schema' = 2
    /\ lease' = Acquired(o)
    /\ token' = [token EXCEPT ![h] = [owner |-> o, epoch |-> Acquired(o).epoch]]
    /\ phase' = [phase EXCEPT ![h] = "verifying"]
    /\ UNCHANGED <<now, rows, imported, checkpoint, cache, seen, txn, rowEpoch>>

OpenWriter(h, o) ==
    /\ phase[h] = "closed"
    /\ schema # 1
    /\ Idle
    /\ Acquirable(o)
    /\ Acquired(o).epoch <= MaxEpoch
    /\ schema' = 2
    /\ lease' = Acquired(o)
    /\ token' = [token EXCEPT ![h] = [owner |-> o, epoch |-> Acquired(o).epoch]]
    /\ phase' = [phase EXCEPT ![h] = "verifying"]
    /\ UNCHANGED <<now, rows, imported, checkpoint, cache, seen, txn, rowEpoch>>

IntegrityPasses(h) ==
    /\ phase[h] = "verifying"
    /\ phase' = [phase EXCEPT ![h] = "opened"]
    /\ UNCHANGED <<now, database, checkpoint, token, cache, seen, txn>>

(* Everything a handle knew ends with it. *)
Forget(h) ==
    /\ phase' = [phase EXCEPT ![h] = "closed"]
    /\ token' = [token EXCEPT ![h] = NoToken]
    /\ cache' = [cache EXCEPT ![h] = NoTable]
    /\ seen' = [seen EXCEPT ![h] = NoTable]

(* A failed integrity check and a drop both release the lease, whatever the *)
(* heartbeat found.                                                         *)
Close(h) ==
    /\ phase[h] # "closed"
    /\ Idle
    /\ lease' = Released(token[h])
    /\ Forget(h)
    /\ UNCHANGED <<now, schema, rows, imported, checkpoint, txn, rowEpoch>>

RenewWriterLease(h) ==
    /\ phase[h] \in {"opened", "loaded"}
    /\ Idle
    /\ Validates(token[h])
    /\ lease' = Renewed
    /\ UNCHANGED <<now, schema, rows, imported, checkpoint, handleVars, txn, rowEpoch>>

(* Any error of the heartbeat's renewal, fencing or I/O, is recorded in the token. *)
HeartbeatFails(h) ==
    /\ phase[h] \in {"opened", "loaded"}
    /\ phase' = [phase EXCEPT ![h] = "lost"]
    /\ UNCHANGED <<now, database, checkpoint, token, cache, seen, txn>>

(* The process dies: its transaction is rolled back, its lease is left behind. *)
Crash(h) ==
    /\ phase[h] # "closed"
    /\ Forget(h)
    /\ txn' = IF txn.by = h THEN NoTxn ELSE txn
    /\ UNCHANGED <<now, database, checkpoint>>

-----------------------------------------------------------------------------
(* The manifest in memory. *)

(* load() reads the committed rows and does not look at the lease. *)
Load(h) ==
    /\ phase[h] \in {"opened", "loaded"}
    /\ txn.by # h
    /\ phase' = [phase EXCEPT ![h] = "loaded"]
    /\ cache' = [cache EXCEPT ![h] = rows]
    /\ seen' = [seen EXCEPT ![h] = rows]
    /\ UNCHANGED <<now, database, checkpoint, token, txn>>

(* Every change of a record stamps it with the wall clock. *)
Edit(h, a, b) ==
    /\ phase[h] = "loaded"
    /\ txn.by # h
    /\ cache' = [cache EXCEPT ![h][a] = [at |-> now, body |-> b]]
    /\ UNCHANGED <<now, database, checkpoint, phase, token, seen, txn>>

-----------------------------------------------------------------------------
(* Transactions. *)

Begin(h, kind, S, newRows) ==
    /\ Idle
    /\ Validates(token[h])
    /\ txn' = [by |-> h, kind |-> kind, batch |-> S, lease |-> Renewed, rows |-> newRows]
    /\ UNCHANGED <<now, database, checkpoint, handleVars>>

(* Mutant: the JSON manifest is read back on every start. *)
BeginLoadOrImport_EveryTime(h) ==
    /\ phase[h] \in {"opened", "loaded"}
    /\ Begin(h, "import", {}, Upserted(rows, checkpoint))

BeginLoadOrImport(h) ==
    /\ phase[h] \in {"opened", "loaded"}
    /\ Begin(h, "import", {}, IF imported THEN rows ELSE Upserted(rows, checkpoint))

(* persist_record, persist_records_atomic and persist_manifest_records: one *)
(* record, some records, all records of the manifest.                       *)
BeginPersistRecords(h, S) ==
    /\ phase[h] = "loaded"
    /\ \A a \in S : cache[h][a] # Absent /\ Acceptable(cache[h][a], rows[a])
    /\ Begin(h, "upsert", S,
             Upserted(rows, [a \in Assets |-> IF a \in S THEN cache[h][a] ELSE Absent]))

BeginExactCas(h, S) ==
    /\ phase[h] = "loaded"
    /\ \A a \in S : seen[h][a] # Absent /\ rows[a] = seen[h][a]
    /\ Begin(h, "cas", S, [a \in Assets |-> IF a \in S THEN cache[h][a] ELSE rows[a]])

BeginExportJson(h) ==
    /\ phase[h] = "loaded"
    /\ Begin(h, "export", {}, rows)

(* Mutant: the export writes the caller's manifest instead of the table. *)
PublishJson_FromMemory(h) ==
    /\ txn.by = h
    /\ txn.kind = "export"
    /\ checkpoint' = cache[h]
    /\ txn' = [txn EXCEPT !.kind = "published"]
    /\ UNCHANGED <<now, database, handleVars>>

(* The JSON file is replaced by rename while the transaction is still open. *)
PublishJson(h) ==
    /\ txn.by = h
    /\ txn.kind = "export"
    /\ checkpoint' = txn.rows
    /\ txn' = [txn EXCEPT !.kind = "published"]
    /\ UNCHANGED <<now, database, handleVars>>

Commit(h) ==
    /\ txn.by = h
    /\ txn.kind # "export"
    /\ lease' = txn.lease
    /\ rows' = txn.rows
    /\ rowEpoch' = [a \in Assets |-> IF txn.rows[a] = rows[a] THEN rowEpoch[a]
                                                              ELSE token[h].epoch]
    /\ imported' = (imported \/ txn.kind = "import")
    /\ IF txn.kind = "import"
       THEN /\ phase' = [phase EXCEPT ![h] = IF @ = "opened" THEN "loaded" ELSE @]
            /\ cache' = [cache EXCEPT ![h] = txn.rows]
            /\ seen' = [seen EXCEPT ![h] = txn.rows]
       ELSE /\ seen' = [seen EXCEPT ![h] = [a \in Assets |-> IF a \in txn.batch
                                                             THEN txn.rows[a] ELSE @[a]]]
            /\ UNCHANGED <<phase, cache>>
    /\ txn' = NoTxn
    /\ UNCHANGED <<now, schema, checkpoint, token>>

(* A statement, the publication or the commit fails and the call returns the error. *)
Rollback(h) ==
    /\ txn.by = h
    /\ txn' = NoTxn
    /\ UNCHANGED <<now, database, checkpoint, handleVars>>

-----------------------------------------------------------------------------
(* SystemTime::now() is not monotonic. *)
SetClock(t) ==
    /\ t \in 0..MaxTime
    /\ now' = t
    /\ UNCHANGED <<database, checkpoint, handleVars, txn>>

Tick == SetClock(now + 1)

SetBack == ClockSetBack /\ SetClock(now - 1)

Next ==
    \/ MigrateSchemaOnly
    \/ \E h \in Handles, o \in Owners : OpenWriter(h, o)
    \/ \E h \in Handles :
          \/ IntegrityPasses(h)
          \/ Close(h)
          \/ RenewWriterLease(h)
          \/ HeartbeatFails(h)
          \/ Crash(h)
          \/ Load(h)
          \/ BeginLoadOrImport(h)
          \/ BeginExportJson(h)
          \/ PublishJson(h)
          \/ Commit(h)
          \/ Rollback(h)
    \/ \E h \in Handles, a \in Assets, b \in Bodies : Edit(h, a, b)
    \/ \E h \in Handles, S \in (SUBSET Assets) \ {{}} :
          BeginPersistRecords(h, S) \/ BeginExactCas(h, S)
    \/ Tick
    \/ SetBack

Spec == Init /\ [][Next]_vars

(* Time goes on, and a process that is not running is started again (the    *)
(* launchd job of src/service.rs) with the fresh owner id that               *)
(* acquire_monitor_run_guard draws, so with another one than the lease has.  *)
(* Nothing is assumed of a running writer.                                   *)
OpenUnderFreshOwner ==
    \E h \in Handles, o \in Owners : o # lease.owner /\ OpenWriter(h, o)

FairSpec ==
    /\ Spec
    /\ WF_vars(Tick)
    /\ WF_vars(OpenUnderFreshOwner)

-----------------------------------------------------------------------------
TypeOK ==
    /\ now \in Nat
    /\ schema \in {0, 1, 2}
    /\ lease \in Leases
    /\ rows \in Tables
    /\ imported \in BOOLEAN
    /\ checkpoint \in Tables
    /\ phase \in [Handles -> {"closed", "verifying", "opened", "loaded", "lost"}]
    /\ token \in [Handles -> Tokens]
    /\ cache \in [Handles -> Tables]
    /\ seen \in [Handles -> Tables]
    /\ txn \in [by : Handles \union {NoHandle}, kind : Kinds, batch : SUBSET Assets,
               lease : Leases, rows : Tables]
    /\ rowEpoch \in [Assets -> Nat]

(* An epoch belongs to one owner for ever: two live handles whose tokens     *)
(* carry the same epoch were opened by the same owner, and the owner in the  *)
(* lease row is the one its epoch was granted to.  This is what lets         *)
(* validate_writer_lease tell a paused writer from the one that replaced it, *)
(* across expiry, release, reacquisition and clock steps.                    *)
EpochHasOneOwner ==
    /\ \A h \in Handles : token[h].epoch <= lease.epoch
    /\ \A g, h \in Handles :
          (phase[g] # "closed" /\ phase[h] # "closed" /\ token[g].epoch = token[h].epoch)
             => token[g].owner = token[h].owner
    /\ \A h \in Handles :
          (phase[h] # "closed" /\ token[h].epoch = lease.epoch)
             => lease.owner \in {token[h].owner, NoOwner}

(* While a transaction is open its handle still holds the lease row, however *)
(* long it has been paused since validate_writer_lease and wherever the      *)
(* clock is now; the rows an export copies are the committed ones.           *)
TransactionIsFenced ==
    ~Idle => /\ phase[txn.by] # "closed"
             /\ lease.owner = token[txn.by].owner
             /\ lease.epoch = token[txn.by].epoch
             /\ txn.lease.owner = lease.owner
             /\ txn.lease.epoch = lease.epoch
             /\ txn.kind \in {"export", "published"} => txn.rows = rows

Superseded(h) ==
    /\ phase[h] # "closed"
    /\ lease.owner # token[h].owner \/ lease.epoch # token[h].epoch

(* A writer that lost the lease row never gets it back with the same token:  *)
(* its only way on is to be closed and opened again.                         *)
SupersededForEver ==
    [][\A h \in Handles :
          Superseded(h) => phase'[h] = "closed" \/ Superseded(h)']_vars

(* A committed row is replaced by a strictly newer one, or by an exact       *)
(* compare-and-swap whose handle had read precisely the row it replaces: no  *)
(* stale cache, no late worker and no import of an old JSON manifest takes a *)
(* row back.                                                                 *)
RowsOnlyAdvance ==
    [][\A a \in Assets : rows'[a] # rows[a] =>
          \/ Newer(rows'[a], rows[a])
          \/ txn.kind = "cas" /\ seen[txn.by][a] = rows[a]]_vars

(* A call that reports success has stored what its caller asked for, the     *)
(* whole batch of it: the conditional upsert, which silently keeps a row     *)
(* that is not older, never skips a record of a committed batch.             *)
SuccessMeansStored ==
    [][\A h \in Handles : Commit(h) =>
          \A a \in txn.batch : rows'[a] = cache[h][a]]_vars

(* The JSON manifest is imported at most once in the life of a database, and *)
(* never into a migrated one, whatever crashes happen around the import:     *)
(* later copies of it, which may be older than the rows, are not read back.  *)
ImportedAtMostOnce ==
    [][imported => imported' /\ (txn.kind = "import" => rows' = rows)]_vars

(* The lease of a writer that died is not a lock for ever: some handle takes *)
(* it over once it has expired.  The two bounds only keep the counters of    *)
(* the model finite.                                                         *)
Abandoned(o) ==
    /\ lease.owner = o
    /\ \A h \in Handles : token[h] # [owner |-> o, epoch |-> lease.epoch]
    /\ lease.expires <= MaxTime
    /\ lease.epoch < MaxEpoch

AbandonedLeaseIsTakenOver ==
    \A o \in Owners : Abandoned(o) ~> ~Abandoned(o)

(* The detailed store implements the abstract one: epochs only grow, each    *)
(* write is made by the current epoch, and a published checkpoint is a copy  *)
(* of the table as committed at that moment.                                 *)
Fenced == INSTANCE FencedStore WITH epoch <- lease.epoch

ImplementsFencedStore == Fenced!Spec
=============================================================================
