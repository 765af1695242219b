-------------------------- MODULE StateStoreProofs --------------------------
(***************************************************************************)
(* Theorems about StateStore, for every set of handles, owners, assets and *)
(* bodies, every lease time and every bound.                               *)
(***************************************************************************)
EXTENDS StateStore, TLAPS

(* What the lease arithmetic returns. *)
LEMMA LeaseTypes ==
    ASSUME TypeOK
    PROVE  /\ Renewed \in Leases
           /\ Renewed.owner = lease.owner
           /\ Renewed.epoch = lease.epoch
           /\ \A o \in Owners : Acquired(o) \in Leases
           /\ \A tok \in Tokens : Released(tok) \in Leases
<1> USE ConstantsAssumption DEF TypeOK, Leases, Tokens, Later
<1>1. /\ now + Ttl \in Nat
      /\ lease.owner \in Owners \union {NoOwner}
      /\ lease.epoch \in Nat
      /\ lease.expires \in Nat
  OBVIOUS
<1>2. /\ Renewed \in Leases
      /\ Renewed.owner = lease.owner
      /\ Renewed.epoch = lease.epoch
  BY <1>1 DEF Renewed
<1>3. \A o \in Owners : Acquired(o) \in Leases
  BY <1>1 DEF Acquired
<1>4. \A tok \in Tokens : Released(tok) \in Leases
  BY <1>1 DEF Released
<1> QED BY <1>2, <1>3, <1>4

(* Conditional upserts keep tables tables. *)
LEMMA UpsertedType ==
    ASSUME NEW old \in Tables, NEW new \in Tables
    PROVE  Upserted(old, new) \in Tables
BY DEF Upserted, Tables

(* The types of what a transaction prepares. *)
LEMMA TxnType ==
    ASSUME TypeOK, NEW h \in Handles, NEW kind \in Kinds, NEW S \in SUBSET Assets,
           NEW newRows \in Tables, Begin(h, kind, S, newRows)
    PROVE  TypeOK'
BY LeaseTypes DEF TypeOK, Begin, database, handleVars, Validates

(* The initial database, files and handles have their types. *)
LEMMA TypeInit == Init => TypeOK
<1> SUFFICES ASSUME Init PROVE TypeOK
  OBVIOUS
<1>1. [Assets -> [at : {0}, body : Bodies] \union {Absent}] \subseteq Tables
  BY DEF Tables, Records
<1>2. NoTable \in Tables /\ NoToken \in Tokens /\ FreshLease \in Leases
  BY DEF NoTable, Tables, NoToken, Tokens, FreshLease, Leases
<1>3. NoTxn \in [by : Handles \union {NoHandle}, kind : Kinds, batch : SUBSET Assets,
                 lease : Leases, rows : Tables]
  BY <1>2 DEF NoTxn, Kinds
<1> QED BY <1>1, <1>2, <1>3 DEF Init, TypeOK

(* Type correctness of the state store: every value the database, the JSON   *)
(* file, the tokens and the caches of src/state_store.rs can take.           *)
THEOREM TypeCorrect == Spec => []TypeOK
<1>1. Init => TypeOK
  BY TypeInit
<1>2. TypeOK /\ [Next]_vars => TypeOK'
  <2> SUFFICES ASSUME TypeOK, [Next]_vars PROVE TypeOK'
    OBVIOUS
  <2> NoTable \in Tables /\ NoToken \in Tokens /\ NoTxn.lease \in Leases
    BY DEF NoTable, Tables, NoToken, Tokens, NoTxn, FreshLease, Leases
  <2> NoTxn \in [by : Handles \union {NoHandle}, kind : Kinds, batch : SUBSET Assets,
                 lease : Leases, rows : Tables]
    BY DEF NoTxn, Kinds, FreshLease, Leases, NoTable, Tables
  <2>1. CASE MigrateSchemaOnly
    BY <2>1 DEF MigrateSchemaOnly, TypeOK, FreshLease, Leases, handleVars
  <2>2. ASSUME NEW h \in Handles, NEW o \in Owners, OpenWriter(h, o) PROVE TypeOK'
    <3>1. Acquired(o) \in Leases
      BY LeaseTypes
    <3>2. [owner |-> o, epoch |-> Acquired(o).epoch] \in Tokens
      BY <3>1 DEF Leases, Tokens
    <3> QED BY <2>2, <3>1, <3>2 DEF OpenWriter, TypeOK
  <2>3. ASSUME NEW h \in Handles, IntegrityPasses(h) PROVE TypeOK'
    BY <2>3 DEF IntegrityPasses, TypeOK, database
  <2>4. ASSUME NEW h \in Handles, Close(h) PROVE TypeOK'
    <3>1. Released(token[h]) \in Leases
      BY LeaseTypes DEF TypeOK
    <3> QED BY <2>4, <3>1 DEF Close, Forget, TypeOK
  <2>5. ASSUME NEW h \in Handles, RenewWriterLease(h) PROVE TypeOK'
    BY <2>5, LeaseTypes DEF RenewWriterLease, TypeOK, handleVars
  <2>6. ASSUME NEW h \in Handles, HeartbeatFails(h) PROVE TypeOK'
    BY <2>6 DEF HeartbeatFails, TypeOK, database
  <2>7. ASSUME NEW h \in Handles, Crash(h) PROVE TypeOK'
    BY <2>7 DEF Crash, Forget, TypeOK, database
  <2>8. ASSUME NEW h \in Handles, Load(h) PROVE TypeOK'
    BY <2>8 DEF Load, TypeOK, database
  <2>9. ASSUME NEW h \in Handles, NEW a \in Assets, NEW b \in Bodies, Edit(h, a, b)
        PROVE  TypeOK'
    <3>1. [at |-> now, body |-> b] \in Records
      BY DEF TypeOK, Records
    <3>2. [cache[h] EXCEPT ![a] = [at |-> now, body |-> b]] \in Tables
      BY <3>1 DEF TypeOK, Tables
    <3> QED BY <2>9, <3>2 DEF Edit, TypeOK, database
  <2>10. ASSUME NEW h \in Handles, BeginLoadOrImport(h) PROVE TypeOK'
    <3>1. (IF imported THEN rows ELSE Upserted(rows, checkpoint)) \in Tables
      BY UpsertedType DEF TypeOK
    <3> QED BY <2>10, <3>1, TxnType DEF BeginLoadOrImport, Kinds
  <2>11. ASSUME NEW h \in Handles, NEW S \in (SUBSET Assets) \ {{}},
                BeginPersistRecords(h, S)
         PROVE  TypeOK'
    <3>1. [a \in Assets |-> IF a \in S THEN cache[h][a] ELSE Absent] \in Tables
      BY DEF TypeOK, Tables
    <3>2. Upserted(rows, [a \in Assets |-> IF a \in S THEN cache[h][a] ELSE Absent])
             \in Tables
      BY <3>1, UpsertedType DEF TypeOK
    <3> QED BY <2>11, <3>2, TxnType DEF BeginPersistRecords, Kinds
  <2>12. ASSUME NEW h \in Handles, NEW S \in (SUBSET Assets) \ {{}}, BeginExactCas(h, S)
         PROVE  TypeOK'
    <3>1. [a \in Assets |-> IF a \in S THEN cache[h][a] ELSE rows[a]] \in Tables
      BY DEF TypeOK, Tables
    <3> QED BY <2>12, <3>1, TxnType DEF BeginExactCas, Kinds
  <2>13. ASSUME NEW h \in Handles, BeginExportJson(h) PROVE TypeOK'
    BY <2>13, TxnType DEF BeginExportJson, Kinds, TypeOK
  <2>14. ASSUME NEW h \in Handles, PublishJson(h) PROVE TypeOK'
    BY <2>14 DEF PublishJson, TypeOK, database, handleVars, Kinds
  <2>15. ASSUME NEW h \in Handles, Commit(h) PROVE TypeOK'
    <3> USE <2>15 DEF Commit, TypeOK
    <3>1. /\ lease' \in Leases
          /\ rows' \in Tables
          /\ txn' = NoTxn
          /\ imported' \in BOOLEAN
      OBVIOUS
    <3>2. token[h].epoch \in Nat
      BY DEF Tokens
    <3>3. rowEpoch' \in [Assets -> Nat]
      BY <3>2
    <3>4. /\ phase' \in [Handles -> {"closed", "verifying", "opened", "loaded", "lost"}]
          /\ cache' \in [Handles -> Tables]
      OBVIOUS
    <3>5. seen' \in [Handles -> Tables]
      <4>1. [a \in Assets |-> IF a \in txn.batch THEN txn.rows[a] ELSE seen[h][a]]
               \in Tables
        BY DEF Tables
      <4> QED BY <4>1
    <3> QED BY <3>1, <3>3, <3>4, <3>5
  <2>16. ASSUME NEW h \in Handles, Rollback(h) PROVE TypeOK'
    BY <2>16 DEF Rollback, TypeOK, database, handleVars
  <2>17. ASSUME Tick \/ SetBack PROVE TypeOK'
    BY <2>17, ConstantsAssumption DEF Tick, SetBack, SetClock, TypeOK, database, handleVars
  <2>18. CASE UNCHANGED vars
    BY <2>18 DEF vars, database, handleVars, TypeOK
  <2> QED
    BY <2>1, <2>2, <2>3, <2>4, <2>5, <2>6, <2>7, <2>8, <2>9, <2>10, <2>11, <2>12,
       <2>13, <2>14, <2>15, <2>16, <2>17, <2>18 DEF Next
<1> QED BY <1>1, <1>2, PTL DEF Spec

-----------------------------------------------------------------------------
(* EpochHasOneOwner is not inductive alone: a migration starts the epochs    *)
(* over, which is harmless only because nobody can have opened a legacy      *)
(* database, and a release empties the owner, which no live token may share. *)
LegacyIsUnopened ==
    schema # 2 => lease = FreshLease /\ \A h \in Handles : phase[h] = "closed"

LiveTokensAreOwned ==
    \A h \in Handles : phase[h] # "closed" => token[h].owner \in Owners

LeaseInv ==
    /\ TypeOK
    /\ LegacyIsUnopened
    /\ LiveTokensAreOwned
    /\ EpochHasOneOwner
    /\ TransactionIsFenced

(* What acquiring does to the lease row: the same epoch only for its owner. *)
LEMMA AcquiredLease ==
    ASSUME TypeOK, NEW o \in Owners
    PROVE  /\ Acquired(o).owner = o
           /\ \/ Acquired(o).epoch = lease.epoch + 1
              \/ Acquired(o).epoch = lease.epoch /\ lease.owner = o
BY DEF Acquired, TypeOK, Leases

(* Releasing never changes the epoch. *)
LEMMA ReleasedLease ==
    ASSUME TypeOK, NEW tok \in Tokens
    PROVE  /\ Released(tok).epoch = lease.epoch
           /\ Released(tok).owner \in {lease.owner, NoOwner}
BY DEF Released, TypeOK, Leases

(* Opening a transaction puts the lease row and the token in agreement. *)
LEMMA BeginFences ==
    ASSUME LeaseInv, NEW h \in Handles, NEW kind \in Kinds, NEW S \in SUBSET Assets,
           NEW newRows \in Tables, phase[h] # "closed",
           kind \in {"export", "published"} => newRows = rows,
           Begin(h, kind, S, newRows)
    PROVE  LeaseInv'
<1>1. TypeOK'
  BY TxnType DEF LeaseInv
<1>2. UNCHANGED <<schema, lease, rows, phase, token>>
  BY DEF Begin, database, handleVars
<1>3. LegacyIsUnopened' /\ LiveTokensAreOwned' /\ EpochHasOneOwner'
  BY <1>2 DEF LeaseInv, LegacyIsUnopened, LiveTokensAreOwned, EpochHasOneOwner
<1>4. TransactionIsFenced'
  BY <1>2, LeaseTypes DEF LeaseInv, TransactionIsFenced, Begin, Validates
<1> QED BY <1>1, <1>3, <1>4 DEF LeaseInv

(* The steps that leave the lease, the tokens and the transaction alone. *)
LEMMA LeaseUntouched ==
    ASSUME LeaseInv, TypeOK', UNCHANGED <<schema, lease, token, txn, rows>>,
           phase' \in [Handles -> {"closed", "verifying", "opened", "loaded", "lost"}],
           \A h \in Handles : phase'[h] = "closed" <=> phase[h] = "closed"
    PROVE  LeaseInv'
<1>1. LegacyIsUnopened' /\ LiveTokensAreOwned' /\ EpochHasOneOwner'
  BY DEF LeaseInv, LegacyIsUnopened, LiveTokensAreOwned, EpochHasOneOwner
<1>2. txn.by \in Handles \union {NoHandle}
  BY DEF LeaseInv, TypeOK
<1>3. TransactionIsFenced'
  BY <1>2 DEF LeaseInv, TransactionIsFenced, Idle
<1> QED BY <1>1, <1>3 DEF LeaseInv

LEMMA LeaseInvStep == LeaseInv /\ TypeOK' /\ [Next]_vars => LeaseInv'
<1> SUFFICES ASSUME LeaseInv, TypeOK', [Next]_vars PROVE LeaseInv'
  OBVIOUS
<1> USE ConstantsAssumption
<1>t. TypeOK
  BY DEF LeaseInv
<1>i. NoTxn.by = NoHandle
  BY DEF NoTxn
<1>1. CASE MigrateSchemaOnly
  <2>1. \A h \in Handles : phase[h] = "closed" /\ token[h].epoch = 0
    BY <1>1 DEF LeaseInv, LegacyIsUnopened, MigrateSchemaOnly, EpochHasOneOwner,
                FreshLease, TypeOK, Tokens
  <2>2. lease'.epoch = 1 /\ schema' = 2 /\ UNCHANGED <<phase, token, txn>>
    BY <1>1 DEF MigrateSchemaOnly, FreshLease, handleVars
  <2>3. LegacyIsUnopened' /\ LiveTokensAreOwned' /\ EpochHasOneOwner'
    BY <2>1, <2>2 DEF LegacyIsUnopened, LiveTokensAreOwned, EpochHasOneOwner
  <2>4. TransactionIsFenced'
    BY <1>1, <2>2 DEF MigrateSchemaOnly, TransactionIsFenced, Idle
  <2> QED BY <2>3, <2>4 DEF LeaseInv
<1>2. ASSUME NEW h \in Handles, NEW o \in Owners, OpenWriter(h, o) PROVE LeaseInv'
  <2>1. /\ phase[h] = "closed"
        /\ Idle
        /\ schema' = 2
        /\ lease' = Acquired(o)
        /\ token' = [token EXCEPT ![h] = [owner |-> o, epoch |-> Acquired(o).epoch]]
        /\ phase' = [phase EXCEPT ![h] = "verifying"]
        /\ txn' = txn
    BY <1>2 DEF OpenWriter
  <2>2. /\ lease'.owner = o
        /\ \/ lease'.epoch = lease.epoch + 1
           \/ lease'.epoch = lease.epoch /\ lease.owner = o
    BY <2>1, <1>t, AcquiredLease
  <2>3. /\ token'[h] = [owner |-> o, epoch |-> lease'.epoch]
        /\ \A g \in Handles \ {h} : token'[g] = token[g] /\ phase'[g] = phase[g]
    BY <2>1, <1>t DEF TypeOK
  <2>4. lease.epoch \in Nat /\ \A g \in Handles : token[g].epoch \in Nat
    BY <1>t DEF TypeOK, Leases, Tokens
  <2>5. LegacyIsUnopened' /\ LiveTokensAreOwned'
    BY <2>1, <2>3 DEF LeaseInv, LegacyIsUnopened, LiveTokensAreOwned
  <2>6. \A g \in Handles : token'[g].epoch <= lease'.epoch
    BY <2>2, <2>3, <2>4 DEF LeaseInv, EpochHasOneOwner
  <2>7. \A g \in Handles \ {h} :
           (phase'[g] # "closed" /\ token'[g].epoch = lease'.epoch)
              => token'[g].owner = o
    BY <2>2, <2>3, <2>4 DEF LeaseInv, EpochHasOneOwner
  <2>8. EpochHasOneOwner'
    BY <2>2, <2>3, <2>6, <2>7 DEF LeaseInv, EpochHasOneOwner
  <2>9. TransactionIsFenced'
    BY <2>1 DEF TransactionIsFenced, Idle
  <2> QED BY <2>5, <2>8, <2>9 DEF LeaseInv
<1>3. ASSUME NEW h \in Handles, IntegrityPasses(h) \/ HeartbeatFails(h) \/ Load(h)
      PROVE  LeaseInv'
  BY <1>3, <1>t, LeaseUntouched
     DEF IntegrityPasses, HeartbeatFails, Load, database, TypeOK
<1>4. ASSUME NEW h \in Handles, Close(h) PROVE LeaseInv'
  <2>1. /\ Idle
        /\ lease' = Released(token[h])
        /\ phase' = [phase EXCEPT ![h] = "closed"]
        /\ token' = [token EXCEPT ![h] = NoToken]
        /\ schema' = schema
        /\ txn' = txn
    BY <1>4 DEF Close, Forget
  <2>2. lease'.epoch = lease.epoch /\ lease'.owner \in {lease.owner, NoOwner}
    BY <2>1, <1>t, ReleasedLease DEF TypeOK
  <2>3. /\ phase'[h] = "closed" /\ token'[h].epoch = 0
        /\ \A g \in Handles \ {h} : token'[g] = token[g] /\ phase'[g] = phase[g]
    BY <2>1, <1>t DEF TypeOK, NoToken
  <2>4. lease.epoch \in Nat
    BY <1>t DEF TypeOK, Leases
  <2>5. schema = 2
    BY <1>4 DEF Close, LeaseInv, LegacyIsUnopened
  <2>6. LegacyIsUnopened' /\ LiveTokensAreOwned'
    BY <2>1, <2>3, <2>5 DEF LeaseInv, LegacyIsUnopened, LiveTokensAreOwned
  <2>7. EpochHasOneOwner'
    BY <2>2, <2>3, <2>4 DEF LeaseInv, EpochHasOneOwner
  <2>8. TransactionIsFenced'
    BY <2>1 DEF TransactionIsFenced, Idle
  <2> QED BY <2>6, <2>7, <2>8 DEF LeaseInv
<1>5. ASSUME NEW h \in Handles, RenewWriterLease(h) PROVE LeaseInv'
  <2>1. /\ Idle
        /\ phase[h] # "closed"
        /\ lease'.owner = lease.owner /\ lease'.epoch = lease.epoch
        /\ UNCHANGED <<schema, phase, token, txn>>
    BY <1>5, <1>t, LeaseTypes DEF RenewWriterLease, handleVars
  <2>2. LegacyIsUnopened' /\ LiveTokensAreOwned' /\ EpochHasOneOwner'
    BY <2>1 DEF LeaseInv, LegacyIsUnopened, LiveTokensAreOwned, EpochHasOneOwner
  <2>3. TransactionIsFenced'
    BY <2>1 DEF TransactionIsFenced, Idle
  <2> QED BY <2>2, <2>3 DEF LeaseInv
<1>6. ASSUME NEW h \in Handles, Crash(h) PROVE LeaseInv'
  <2>1. /\ phase' = [phase EXCEPT ![h] = "closed"]
        /\ token' = [token EXCEPT ![h] = NoToken]
        /\ txn' = IF txn.by = h THEN NoTxn ELSE txn
        /\ UNCHANGED <<schema, lease, rows>>
    BY <1>6 DEF Crash, Forget, database
  <2>2. /\ phase'[h] = "closed" /\ token'[h].epoch = 0
        /\ \A g \in Handles \ {h} : token'[g] = token[g] /\ phase'[g] = phase[g]
    BY <2>1, <1>t DEF TypeOK, NoToken
  <2>3. lease.epoch \in Nat
    BY <1>t DEF TypeOK, Leases
  <2>4. LegacyIsUnopened' /\ LiveTokensAreOwned'
    BY <2>1, <2>2 DEF LeaseInv, LegacyIsUnopened, LiveTokensAreOwned
  <2>5. EpochHasOneOwner'
    BY <2>1, <2>2, <2>3 DEF LeaseInv, EpochHasOneOwner
  <2>6. TransactionIsFenced'
    <3>1. CASE txn.by = h
      BY <3>1, <2>1, <1>i DEF TransactionIsFenced, Idle
    <3>2. CASE txn.by # h
      BY <3>2, <2>1, <2>2, <1>t DEF LeaseInv, TransactionIsFenced, Idle, TypeOK
    <3> QED BY <3>1, <3>2
  <2> QED BY <2>4, <2>5, <2>6 DEF LeaseInv
<1>7. ASSUME NEW h \in Handles, NEW a \in Assets, NEW b \in Bodies, Edit(h, a, b)
      PROVE  LeaseInv'
  BY <1>7, <1>t, LeaseUntouched DEF Edit, database, TypeOK
<1>8. ASSUME NEW h \in Handles, BeginLoadOrImport(h) PROVE LeaseInv'
  <2>1. (IF imported THEN rows ELSE Upserted(rows, checkpoint)) \in Tables
    BY <1>t, UpsertedType DEF TypeOK
  <2> QED BY <1>8, <2>1, BeginFences DEF BeginLoadOrImport, Kinds
<1>9. ASSUME NEW h \in Handles, NEW S \in (SUBSET Assets) \ {{}},
             BeginPersistRecords(h, S)
      PROVE  LeaseInv'
  <2>1. [a \in Assets |-> IF a \in S THEN cache[h][a] ELSE Absent] \in Tables
    BY <1>t DEF TypeOK, Tables
  <2>2. Upserted(rows, [a \in Assets |-> IF a \in S THEN cache[h][a] ELSE Absent])
           \in Tables
    BY <2>1, <1>t, UpsertedType DEF TypeOK
  <2> QED BY <1>9, <2>2, BeginFences DEF BeginPersistRecords, Kinds
<1>10. ASSUME NEW h \in Handles, NEW S \in (SUBSET Assets) \ {{}}, BeginExactCas(h, S)
       PROVE  LeaseInv'
  <2>1. [a \in Assets |-> IF a \in S THEN cache[h][a] ELSE rows[a]] \in Tables
    BY <1>t DEF TypeOK, Tables
  <2> QED BY <1>10, <2>1, BeginFences DEF BeginExactCas, Kinds
<1>11. ASSUME NEW h \in Handles, BeginExportJson(h) PROVE LeaseInv'
  BY <1>11, <1>t, BeginFences DEF BeginExportJson, Kinds, TypeOK
<1>12. ASSUME NEW h \in Handles, PublishJson(h) PROVE LeaseInv'
  <2>1. /\ txn' = [txn EXCEPT !.kind = "published"]
        /\ txn.kind = "export"
        /\ UNCHANGED <<schema, lease, rows, phase, token>>
    BY <1>12 DEF PublishJson, database, handleVars
  <2>2. LegacyIsUnopened' /\ LiveTokensAreOwned' /\ EpochHasOneOwner'
    BY <2>1 DEF LeaseInv, LegacyIsUnopened, LiveTokensAreOwned, EpochHasOneOwner
  <2>3. TransactionIsFenced'
    BY <2>1, <1>t DEF LeaseInv, TransactionIsFenced, Idle, TypeOK
  <2> QED BY <2>2, <2>3 DEF LeaseInv
<1>13. ASSUME NEW h \in Handles, Commit(h) PROVE LeaseInv'
  <2>1. /\ txn.by = h /\ lease' = txn.lease /\ txn' = NoTxn
        /\ UNCHANGED <<schema, token>>
        /\ \A g \in Handles : phase'[g] = "closed" <=> phase[g] = "closed"
    BY <1>13, <1>t DEF Commit, TypeOK
  <2>2. lease'.owner = lease.owner /\ lease'.epoch = lease.epoch /\ phase[h] # "closed"
    BY <2>1 DEF LeaseInv, TransactionIsFenced, Idle
  <2>3. LegacyIsUnopened' /\ LiveTokensAreOwned' /\ EpochHasOneOwner'
    BY <2>1, <2>2 DEF LeaseInv, LegacyIsUnopened, LiveTokensAreOwned, EpochHasOneOwner
  <2>4. TransactionIsFenced'
    BY <2>1, <1>i DEF TransactionIsFenced, Idle
  <2> QED BY <2>3, <2>4 DEF LeaseInv
<1>14. ASSUME NEW h \in Handles, Rollback(h) PROVE LeaseInv'
  <2>1. txn' = NoTxn /\ UNCHANGED <<schema, lease, rows, phase, token>>
    BY <1>14 DEF Rollback, database, handleVars
  <2>2. LegacyIsUnopened' /\ LiveTokensAreOwned' /\ EpochHasOneOwner'
    BY <2>1 DEF LeaseInv, LegacyIsUnopened, LiveTokensAreOwned, EpochHasOneOwner
  <2>3. TransactionIsFenced'
    BY <2>1, <1>i DEF TransactionIsFenced, Idle
  <2> QED BY <2>2, <2>3 DEF LeaseInv
<1>15. ASSUME Tick \/ SetBack \/ UNCHANGED vars PROVE LeaseInv'
  BY <1>15, <1>t, LeaseUntouched
     DEF Tick, SetBack, SetClock, vars, database, handleVars, TypeOK
<1> QED
  BY <1>1, <1>2, <1>3, <1>4, <1>5, <1>6, <1>7, <1>8, <1>9, <1>10, <1>11, <1>12, <1>13,
     <1>14, <1>15 DEF Next

LEMMA LeaseInvInit == Init => LeaseInv
<1> SUFFICES ASSUME Init, TypeOK PROVE LeaseInv
  BY TypeInit
<1> QED
  BY DEF Init, LeaseInv, LegacyIsUnopened, LiveTokensAreOwned, EpochHasOneOwner,
         TransactionIsFenced, Idle, NoTxn, NoToken, FreshLease

(* The lease invariants of src/state_store.rs hold in every reachable state. *)
LEMMA LeaseInvHolds == Spec => []LeaseInv
BY LeaseInvInit, LeaseInvStep, TypeCorrect, PTL DEF Spec

(* An epoch number is never granted to two owners, so a token whose epoch is *)
(* current names the owner validate_writer_lease must find in the row.       *)
THEOREM EpochsAreUnambiguous == Spec => []EpochHasOneOwner
BY LeaseInvHolds, PTL DEF LeaseInv

(* No pause between validate_writer_lease and COMMIT lets another owner in:  *)
(* the open transaction's handle holds the lease row until it ends.          *)
THEOREM TransactionsAreFenced == Spec => []TransactionIsFenced
BY LeaseInvHolds, PTL DEF LeaseInv

-----------------------------------------------------------------------------
(* A step that puts a different row in the table is the Commit of a handle   *)
(* whose transaction prepared it.                                            *)
LEMMA OnlyCommitsWrite ==
    ASSUME Next, rows' # rows
    PROVE  \E h \in Handles : Commit(h)
BY DEF Next, MigrateSchemaOnly, OpenWriter, IntegrityPasses, Close, RenewWriterLease,
       HeartbeatFails, Crash, Load, Edit, BeginLoadOrImport, BeginPersistRecords,
       BeginExactCas, BeginExportJson, Begin, PublishJson, Rollback, Tick, SetBack,
       SetClock, database

(* What an open transaction has prepared, relative to the committed rows and *)
(* to what its handle holds in memory.                                       *)
PreparedRowsAreSound ==
    ~Idle =>
        /\ txn.kind # "none"
        /\ txn.kind \in {"import", "upsert"} =>
              \A a \in Assets : txn.rows[a] # rows[a] => Newer(txn.rows[a], rows[a])
        /\ txn.kind = "cas" =>
              \A a \in Assets : txn.rows[a] # rows[a] => seen[txn.by][a] = rows[a]
        /\ \A a \in txn.batch : txn.rows[a] = cache[txn.by][a]

StoreInv == LeaseInv /\ PreparedRowsAreSound

(* A conditional upsert only makes rows newer. *)
LEMMA UpsertsAdvance ==
    ASSUME NEW old \in Tables, NEW new \in Tables, NEW a \in Assets,
           Upserted(old, new)[a] # old[a]
    PROVE  Newer(Upserted(old, new)[a], old[a])
BY DEF Upserted

LEMMA StoreInvStep == StoreInv /\ LeaseInv' /\ [Next]_vars => PreparedRowsAreSound'
<1> SUFFICES ASSUME StoreInv, LeaseInv', [Next]_vars PROVE PreparedRowsAreSound'
  OBVIOUS
<1> USE ConstantsAssumption
<1>t. TypeOK /\ TypeOK'
  BY DEF StoreInv, LeaseInv
<1>i. NoTxn.by = NoHandle
  BY DEF NoTxn
<1>1. ASSUME txn' = NoTxn PROVE PreparedRowsAreSound'
  BY <1>1, <1>i DEF PreparedRowsAreSound, Idle
<1>2. ASSUME Idle, txn' = txn PROVE PreparedRowsAreSound'
  BY <1>2 DEF PreparedRowsAreSound, Idle
<1>3. ASSUME UNCHANGED <<rows, txn>>,
             ~Idle => seen'[txn.by] = seen[txn.by] /\ cache'[txn.by] = cache[txn.by]
      PROVE  PreparedRowsAreSound'
  BY <1>3 DEF StoreInv, PreparedRowsAreSound, Idle
<1>4. ASSUME NEW h \in Handles, BeginLoadOrImport(h) PROVE PreparedRowsAreSound'
  <2>1. /\ txn'.kind = "import" /\ txn'.batch = {}
        /\ txn'.rows = IF imported THEN rows ELSE Upserted(rows, checkpoint)
        /\ rows' = rows
    BY <1>4 DEF BeginLoadOrImport, Begin, database
  <2>2. \A a \in Assets : txn'.rows[a] # rows[a] => Newer(txn'.rows[a], rows[a])
    BY <2>1, <1>t, UpsertsAdvance DEF TypeOK
  <2> QED BY <2>1, <2>2 DEF PreparedRowsAreSound
<1>5. ASSUME NEW h \in Handles, NEW S \in (SUBSET Assets) \ {{}},
             BeginPersistRecords(h, S)
      PROVE  PreparedRowsAreSound'
  <2> DEFINE request == [a \in Assets |-> IF a \in S THEN cache[h][a] ELSE Absent]
  <2>1. /\ txn'.kind = "upsert" /\ txn'.batch = S /\ txn'.by = h
        /\ txn'.rows = Upserted(rows, request)
        /\ rows' = rows /\ cache' = cache
        /\ \A a \in S : cache[h][a] # Absent /\ Acceptable(cache[h][a], rows[a])
    BY <1>5 DEF BeginPersistRecords, Begin, database, handleVars
  <2>2. request \in Tables /\ rows \in Tables
    BY <1>t DEF TypeOK, Tables
  <2>3. \A a \in Assets : txn'.rows[a] # rows[a] => Newer(txn'.rows[a], rows[a])
    BY <2>1, <2>2, UpsertsAdvance
  <2>4. ASSUME NEW a \in S PROVE txn'.rows[a] = cache[h][a]
    BY <2>1, <2>4 DEF Upserted, Acceptable, Newer
  <2> QED BY <2>1, <2>3, <2>4 DEF PreparedRowsAreSound
<1>6. ASSUME NEW h \in Handles, NEW S \in (SUBSET Assets) \ {{}}, BeginExactCas(h, S)
      PROVE  PreparedRowsAreSound'
  <2>1. /\ txn'.kind = "cas" /\ txn'.batch = S /\ txn'.by = h
        /\ txn'.rows = [a \in Assets |-> IF a \in S THEN cache[h][a] ELSE rows[a]]
        /\ rows' = rows /\ cache' = cache /\ seen' = seen
        /\ \A a \in S : rows[a] = seen[h][a]
    BY <1>6 DEF BeginExactCas, Begin, database, handleVars
  <2> QED BY <2>1 DEF PreparedRowsAreSound
<1>7. ASSUME NEW h \in Handles, BeginExportJson(h) PROVE PreparedRowsAreSound'
  <2>1. txn'.kind = "export" /\ txn'.batch = {} /\ rows' = rows
    BY <1>7 DEF BeginExportJson, Begin, database
  <2> QED BY <2>1 DEF PreparedRowsAreSound
<1>8. ASSUME NEW h \in Handles, PublishJson(h) PROVE PreparedRowsAreSound'
  <2>1. /\ txn' = [txn EXCEPT !.kind = "published"]
        /\ txn.by = h
        /\ UNCHANGED <<rows, cache>>
    BY <1>8 DEF PublishJson, database, handleVars
  <2>2. /\ txn'.kind = "published" /\ txn'.batch = txn.batch
        /\ txn'.rows = txn.rows /\ txn'.by = txn.by
    BY <2>1, <1>t DEF TypeOK
  <2> QED BY <2>1, <2>2 DEF StoreInv, PreparedRowsAreSound, Idle
<1>9. ASSUME NEW h \in Handles, Crash(h) PROVE PreparedRowsAreSound'
  <2>1. CASE txn.by = h
    BY <1>9, <2>1, <1>1 DEF Crash
  <2>2. CASE txn.by # h
    <3>1. /\ UNCHANGED <<rows, txn>>
          /\ cache' = [cache EXCEPT ![h] = NoTable]
          /\ seen' = [seen EXCEPT ![h] = NoTable]
      BY <1>9, <2>2 DEF Crash, Forget, database
    <3> QED BY <3>1, <2>2, <1>3, <1>t DEF TypeOK, Idle
  <2> QED BY <2>1, <2>2
<1>10. ASSUME NEW h \in Handles, Load(h) PROVE PreparedRowsAreSound'
  BY <1>10, <1>3, <1>t DEF Load, database, TypeOK, Idle
<1>11. ASSUME NEW h \in Handles, NEW a \in Assets, NEW b \in Bodies, Edit(h, a, b)
       PROVE  PreparedRowsAreSound'
  BY <1>11, <1>3, <1>t DEF Edit, database, TypeOK, Idle
<1>12. ASSUME NEW h \in Handles, Commit(h) \/ Rollback(h) PROVE PreparedRowsAreSound'
  BY <1>12, <1>1 DEF Commit, Rollback
<1>13. ASSUME MigrateSchemaOnly PROVE PreparedRowsAreSound'
  BY <1>13, <1>2 DEF MigrateSchemaOnly
<1>14. ASSUME NEW h \in Handles, NEW o \in Owners, OpenWriter(h, o)
       PROVE  PreparedRowsAreSound'
  BY <1>14, <1>2 DEF OpenWriter
<1>15. ASSUME NEW h \in Handles, Close(h) \/ RenewWriterLease(h)
       PROVE  PreparedRowsAreSound'
  BY <1>15, <1>2 DEF Close, RenewWriterLease
<1>16. ASSUME NEW h \in Handles, IntegrityPasses(h) \/ HeartbeatFails(h)
       PROVE  PreparedRowsAreSound'
  BY <1>16, <1>3 DEF IntegrityPasses, HeartbeatFails, database
<1>17. ASSUME Tick \/ SetBack \/ UNCHANGED vars PROVE PreparedRowsAreSound'
  BY <1>17, <1>3 DEF Tick, SetBack, SetClock, vars, database, handleVars
<1> QED
  BY <1>4, <1>5, <1>6, <1>7, <1>8, <1>9, <1>10, <1>11, <1>12, <1>13, <1>14, <1>15,
     <1>16, <1>17 DEF Next

LEMMA StoreInvHolds == Spec => []StoreInv
<1>1. Init => PreparedRowsAreSound
  BY DEF Init, PreparedRowsAreSound, Idle, NoTxn
<1>2. StoreInv /\ LeaseInv' /\ [Next]_vars => StoreInv'
  BY StoreInvStep DEF StoreInv
<1>3. Init => LeaseInv
  BY LeaseInvInit
<1> QED BY <1>1, <1>2, <1>3, LeaseInvHolds, PTL DEF Spec, StoreInv

(* Rows go forward, or are swapped by a handle that had read them: the       *)
(* promise of upsert_encoded_record and of the exact compare-and-swap.       *)
THEOREM RowsAdvance == Spec => RowsOnlyAdvance
<1>1. ASSUME StoreInv, [Next]_vars, NEW a \in Assets, rows'[a] # rows[a]
      PROVE  Newer(rows'[a], rows[a]) \/ (txn.kind = "cas" /\ seen[txn.by][a] = rows[a])
  <2>1. PICK h \in Handles : Commit(h)
    BY <1>1, OnlyCommitsWrite DEF vars, database
  <2>2. rows' = txn.rows /\ txn.by = h /\ ~Idle /\ txn.kind # "export"
    BY <2>1, ConstantsAssumption DEF Commit, Idle
  <2>3. txn.kind \in {"import", "upsert", "cas", "published"}
    BY <1>1, <2>2 DEF StoreInv, LeaseInv, TypeOK, Kinds, PreparedRowsAreSound
  <2>4. txn.kind # "published"
    BY <1>1, <2>2 DEF StoreInv, LeaseInv, TransactionIsFenced
  <2> QED BY <1>1, <2>2, <2>3, <2>4 DEF StoreInv, PreparedRowsAreSound
<1>2. StoreInv /\ [Next]_vars
        => [\A a \in Assets : rows'[a] # rows[a] =>
               \/ Newer(rows'[a], rows[a])
               \/ txn.kind = "cas" /\ seen[txn.by][a] = rows[a]]_vars
  BY <1>1
<1> QED BY <1>2, StoreInvHolds, PTL DEF Spec, RowsOnlyAdvance

(* A persist that returns Ok stored every record of its batch.               *)
THEOREM SuccessStores == Spec => SuccessMeansStored
<1>1. ASSUME StoreInv, NEW h \in Handles, Commit(h), NEW a \in txn.batch
      PROVE  rows'[a] = cache[h][a]
  <2>1. rows' = txn.rows /\ txn.by = h /\ ~Idle
    BY <1>1, ConstantsAssumption DEF Commit, Idle
  <2> QED BY <1>1, <2>1 DEF StoreInv, PreparedRowsAreSound
<1>2. StoreInv /\ [Next]_vars
        => [\A h \in Handles : Commit(h) => \A a \in txn.batch : rows'[a] = cache[h][a]]_vars
  BY <1>1
<1> QED BY <1>2, StoreInvHolds, PTL DEF Spec, SuccessMeansStored

(* A fenced token stays fenced: no release, expiry, takeover or clock step   *)
(* makes validate_writer_lease accept it again.                              *)
THEOREM FencedForEver == Spec => SupersededForEver
<1>1. ASSUME LeaseInv, [Next]_vars, NEW h \in Handles, Superseded(h)
      PROVE  phase'[h] = "closed" \/ Superseded(h)'
  <2>t. TypeOK
    BY <1>1 DEF LeaseInv
  <2>p. /\ phase[h] # "closed"
        /\ lease.owner # token[h].owner \/ lease.epoch # token[h].epoch
        /\ token[h].owner # NoOwner
        /\ token[h].epoch <= lease.epoch
        /\ token[h].epoch \in Nat /\ lease.epoch \in Nat
    BY <1>1, <2>t, ConstantsAssumption
       DEF LeaseInv, LiveTokensAreOwned, EpochHasOneOwner, Superseded, TypeOK, Leases, Tokens
  <2>k. ASSUME phase'[h] # "closed", token'[h] = token[h],
               lease'.owner # token[h].owner \/ lease'.epoch # token[h].epoch
        PROVE  Superseded(h)'
    BY <2>k DEF Superseded
  <2>1. CASE MigrateSchemaOnly
    BY <2>1, <2>p, <1>1 DEF MigrateSchemaOnly, LeaseInv, LegacyIsUnopened
  <2>2. ASSUME NEW g \in Handles, NEW o \in Owners, OpenWriter(g, o)
        PROVE  phase'[h] = "closed" \/ Superseded(h)'
    <3>1. g # h
      BY <2>2, <2>p DEF OpenWriter
    <3>2. phase'[h] = phase[h] /\ token'[h] = token[h] /\ lease' = Acquired(o)
      BY <2>2, <3>1, <2>t DEF OpenWriter, TypeOK
    <3>3. \/ lease'.epoch = lease.epoch + 1
          \/ lease'.epoch = lease.epoch /\ lease'.owner = lease.owner
      BY <3>2, <2>t, AcquiredLease
    <3> QED BY <3>2, <3>3, <2>p, <2>k
  <2>3. ASSUME NEW g \in Handles, Close(g) PROVE phase'[h] = "closed" \/ Superseded(h)'
    <3>1. CASE g = h
      BY <2>3, <3>1, <2>t DEF Close, Forget, TypeOK
    <3>2. CASE g # h
      <4>1. phase'[h] = phase[h] /\ token'[h] = token[h] /\ lease' = Released(token[g])
        BY <2>3, <3>2, <2>t DEF Close, Forget, TypeOK
      <4>2. lease'.epoch = lease.epoch /\ lease'.owner \in {lease.owner, NoOwner}
        BY <4>1, <2>t, ReleasedLease DEF TypeOK
      <4> QED BY <4>1, <4>2, <2>p, <2>k
    <3> QED BY <3>1, <3>2
  <2>4. ASSUME NEW g \in Handles, RenewWriterLease(g)
        PROVE  phase'[h] = "closed" \/ Superseded(h)'
    BY <2>4, <2>t, <2>p, <2>k, LeaseTypes DEF RenewWriterLease, handleVars
  <2>5. ASSUME NEW g \in Handles, Crash(g) PROVE phase'[h] = "closed" \/ Superseded(h)'
    BY <2>5, <2>t, <2>p, <2>k DEF Crash, Forget, TypeOK, database
  <2>6. ASSUME NEW g \in Handles, Commit(g) PROVE phase'[h] = "closed" \/ Superseded(h)'
    <3>1. lease' = txn.lease /\ token' = token /\ phase'[h] # "closed" /\ ~Idle
      BY <2>6, <2>t, <2>p, ConstantsAssumption DEF Commit, TypeOK, Idle
    <3>2. lease'.owner = lease.owner /\ lease'.epoch = lease.epoch
      BY <3>1, <1>1 DEF LeaseInv, TransactionIsFenced
    <3> QED BY <3>1, <3>2, <2>p, <2>k
  <2>7. ASSUME NEW g \in Handles, IntegrityPasses(g) \/ HeartbeatFails(g) \/ Load(g)
        PROVE  phase'[h] = "closed" \/ Superseded(h)'
    BY <2>7, <2>t, <2>p, <2>k DEF IntegrityPasses, HeartbeatFails, Load, database, TypeOK
  <2>8. ASSUME UNCHANGED <<lease, token, phase>>
        PROVE  phase'[h] = "closed" \/ Superseded(h)'
    BY <2>8, <2>p, <2>k
  <2> QED
    BY <1>1, <2>1, <2>2, <2>3, <2>4, <2>5, <2>6, <2>7, <2>8
       DEF Next, Edit, BeginLoadOrImport, BeginPersistRecords, BeginExactCas,
           BeginExportJson, Begin, PublishJson, Rollback, Tick, SetBack, SetClock,
           vars, database, handleVars
<1>2. LeaseInv /\ [Next]_vars
        => [\A h \in Handles : Superseded(h) => phase'[h] = "closed" \/ Superseded(h)']_vars
  BY <1>1
<1> QED BY <1>2, LeaseInvHolds, PTL DEF Spec, SupersededForEver

-----------------------------------------------------------------------------
(* A load that finds the database imported has prepared the rows that are    *)
(* there, and they stay until it ends.                                       *)
LoadsKeepRows == imported /\ ~Idle /\ txn.kind = "import" => txn.rows = rows

LEMMA LoadsKeepRowsStep == TypeOK /\ LoadsKeepRows /\ [Next]_vars => LoadsKeepRows'
<1> SUFFICES ASSUME TypeOK, LoadsKeepRows, [Next]_vars PROVE LoadsKeepRows'
  OBVIOUS
<1>1. CASE Idle' \/ UNCHANGED <<imported, rows, txn>>
  BY <1>1 DEF LoadsKeepRows, Idle
<1>2. ASSUME NEW h \in Handles, BeginLoadOrImport(h) PROVE LoadsKeepRows'
  BY <1>2 DEF LoadsKeepRows, BeginLoadOrImport, Begin, database
<1>3. ASSUME txn'.kind # "import" PROVE LoadsKeepRows'
  BY <1>3 DEF LoadsKeepRows
<1>4. ASSUME NEW h \in Handles, NEW S \in (SUBSET Assets) \ {{}},
             BeginPersistRecords(h, S) \/ BeginExactCas(h, S)
      PROVE  LoadsKeepRows'
  BY <1>4, <1>3 DEF BeginPersistRecords, BeginExactCas, Begin
<1>5. ASSUME NEW h \in Handles, BeginExportJson(h) PROVE LoadsKeepRows'
  BY <1>5, <1>3 DEF BeginExportJson, Begin
<1>6. ASSUME NEW h \in Handles, PublishJson(h) PROVE LoadsKeepRows'
  BY <1>6, <1>3 DEF PublishJson, TypeOK
<1>7. ASSUME NEW h \in Handles, Crash(h) \/ Commit(h) \/ Rollback(h) PROVE LoadsKeepRows'
  BY <1>7, <1>1 DEF Crash, Commit, Rollback, database, NoTxn, Idle
<1>8. CASE MigrateSchemaOnly
  BY <1>8, <1>1 DEF MigrateSchemaOnly, Idle
<1> QED
  BY <1>1, <1>2, <1>4, <1>5, <1>6, <1>7, <1>8
     DEF Next, OpenWriter, IntegrityPasses, Close, RenewWriterLease, HeartbeatFails, Load,
         Edit, Tick, SetBack, SetClock, vars, database, handleVars

(* load_or_import reads a JSON manifest into a database once in its life:    *)
(* imported_once is never taken back, and no later load changes a   *)
(* row.                                                                      *)
THEOREM ImportedOnce == Spec => ImportedAtMostOnce
<1>1. Init => LoadsKeepRows
  BY DEF Init, LoadsKeepRows, Idle, NoTxn
<1>2. ASSUME TypeOK, LoadsKeepRows, Next, imported
      PROVE  imported' /\ (txn.kind = "import" => rows' = rows)
  <2>1. ASSUME NEW h \in Handles, Commit(h)
        PROVE  imported' /\ (txn.kind = "import" => rows' = rows)
    BY <1>2, <2>1, ConstantsAssumption DEF Commit, LoadsKeepRows, Idle
  <2>2. ASSUME ~\E h \in Handles : Commit(h) PROVE imported' /\ rows' = rows
    <3>1. rows' = rows
      BY <1>2, <2>2, OnlyCommitsWrite
    <3>2. imported'
      BY <1>2, <2>2 DEF Next, MigrateSchemaOnly, OpenWriter, IntegrityPasses, Close,
            RenewWriterLease, HeartbeatFails, Crash, Load, Edit, BeginLoadOrImport,
            BeginPersistRecords, BeginExactCas, BeginExportJson, Begin, PublishJson,
            Rollback, Tick, SetBack, SetClock, database
    <3> QED BY <3>1, <3>2
  <2> QED BY <2>1, <2>2
<1>3. TypeOK /\ LoadsKeepRows /\ [Next]_vars
        => [imported => imported' /\ (txn.kind = "import" => rows' = rows)]_vars
  BY <1>2
<1> QED
  BY <1>1, <1>3, LoadsKeepRowsStep, TypeCorrect, PTL DEF Spec, ImportedAtMostOnce

-----------------------------------------------------------------------------
(* src/state_store.rs implements FencedStore: epochs only grow, the current  *)
(* epoch alone writes rows, and a checkpoint is a copy of the rows.          *)
THEOREM Implementation == Spec => ImplementsFencedStore
<1> USE ConstantsAssumption
<1>1. Init => Fenced!Init
  <2> SUFFICES ASSUME Init PROVE Fenced!Init
    OBVIOUS
  <2>1. TypeOK
    BY TypeInit
  <2> QED BY <2>1 DEF Init, TypeOK, Tables, Fenced!Init, Fenced!Tables, FreshLease
<1>2. LeaseInv /\ LeaseInv' /\ [Next]_vars => [Fenced!Next]_(Fenced!vars)
  <2> SUFFICES ASSUME LeaseInv, LeaseInv', [Next]_vars
               PROVE  [Fenced!Next]_(Fenced!vars)
    OBVIOUS
  <2>t. TypeOK /\ TypeOK'
    BY DEF LeaseInv
  <2>0. ASSUME lease'.epoch = lease.epoch, UNCHANGED <<rows, rowEpoch, checkpoint>>
        PROVE  UNCHANGED Fenced!vars
    BY <2>0 DEF Fenced!vars
  <2>1. CASE MigrateSchemaOnly
    <3>1. lease.epoch = 0 /\ lease'.epoch = 1
      BY <2>1 DEF MigrateSchemaOnly, LeaseInv, LegacyIsUnopened, FreshLease
    <3> QED BY <2>1, <3>1 DEF MigrateSchemaOnly, Fenced!Next, Fenced!TakeOver
  <2>2. ASSUME NEW h \in Handles, NEW o \in Owners, OpenWriter(h, o)
        PROVE  [Fenced!Next]_(Fenced!vars)
    <3>1. \/ lease'.epoch = lease.epoch + 1
          \/ lease'.epoch = lease.epoch
      BY <2>2, <2>t, AcquiredLease DEF OpenWriter
    <3> QED BY <2>2, <3>1, <2>0 DEF OpenWriter, Fenced!Next, Fenced!TakeOver
  <2>3. ASSUME NEW h \in Handles, Close(h) PROVE UNCHANGED Fenced!vars
    BY <2>3, <2>0, <2>t, ReleasedLease DEF Close, TypeOK
  <2>4. ASSUME NEW h \in Handles, RenewWriterLease(h) PROVE UNCHANGED Fenced!vars
    BY <2>4, <2>0, <2>t, LeaseTypes DEF RenewWriterLease
  <2>5. ASSUME NEW h \in Handles, PublishJson(h) PROVE Fenced!Next
    <3>1. txn.rows = rows
      BY <2>5 DEF PublishJson, LeaseInv, TransactionIsFenced, Idle
    <3> QED BY <2>5, <3>1 DEF PublishJson, database, Fenced!Next, Fenced!Publish
  <2>6. ASSUME NEW h \in Handles, Commit(h) PROVE Fenced!Next
    <3> DEFINE S == {a \in Assets : txn.rows[a] # rows[a]}
    <3>1. ~Idle /\ txn.by = h /\ lease' = txn.lease /\ rows' = txn.rows
      BY <2>6 DEF Commit, Idle
    <3>2. lease'.epoch = lease.epoch /\ token[h].epoch = lease.epoch
      BY <3>1 DEF LeaseInv, TransactionIsFenced
    <3>3. rowEpoch' = [a \in Assets |-> IF a \in S THEN lease.epoch ELSE rowEpoch[a]]
      BY <2>6, <3>2 DEF Commit
    <3>4. rows' \in Fenced!Tables /\ \A a \in Assets \ S : rows'[a] = rows[a]
      BY <2>t, <3>1 DEF TypeOK, Tables, Fenced!Tables
    <3>5. checkpoint' = checkpoint
      BY <2>6 DEF Commit
    <3>6. S \in SUBSET Assets
      OBVIOUS
    <3> HIDE DEF S
    <3>7. Fenced!Write
      BY <3>2, <3>3, <3>4, <3>5, <3>6 DEF Fenced!Write
    <3> QED BY <3>7 DEF Fenced!Next
  <2>7. ASSUME UNCHANGED <<database, checkpoint>> PROVE UNCHANGED Fenced!vars
    BY <2>7, <2>0 DEF database
  <2> QED
    BY <2>1, <2>2, <2>3, <2>4, <2>5, <2>6, <2>7
       DEF Next, IntegrityPasses, HeartbeatFails, Crash, Load, Edit, BeginLoadOrImport,
           BeginPersistRecords, BeginExactCas, BeginExportJson, Begin, Rollback, Tick,
           SetBack, SetClock, vars
<1> QED BY <1>1, <1>2, LeaseInvHolds, PTL DEF Spec, ImplementsFencedStore, Fenced!Spec
=============================================================================
