---------------------------- MODULE MonitorGuard ----------------------------
(***************************************************************************)
(* What keeps two monitors from working on one manifest: the flock on the  *)
(* lock file beside the manifest (manifest_lock.rs), the writer lease of   *)
(* the state store, and the heartbeat thread that renews it (MonitorRun-   *)
(* Guard in monitor.rs).  A monitor holds its lock and its store handle    *)
(* from one scan to the next.  StateStore has the lease in detail; here it *)
(* is an owner and whether it has expired.                                 *)
(*                                                                         *)
(* A member of Monitors is a place to run a monitor in: every start there  *)
(* is a new process with an owner id of its own, so that the lease of a    *)
(* process that died belongs to Dead.  A lock file stands for the inode.   *)
(***************************************************************************)
EXTENDS Naturals, FiniteSets

CONSTANTS
    Monitors,
    LockFiles,       \* inodes a lock file may have
    NoFile,          \* no lock file
    Nobody,          \* the lease has no owner
    Dead,            \* its owner is a process that died
    Faults,          \* what may go wrong: "crash", "sleep", "lock" and, for
                     \* the modules that use this one, other names
    MaxFaults        \* how often anything does

ASSUME GuardAssumption ==
    /\ NoFile \notin LockFiles
    /\ Nobody \notin Monitors /\ Dead \notin Monitors /\ Nobody # Dead
    /\ MaxFaults \in Nat

VARIABLES
    lockFile,   \* the inode at the lock path
    fd,         \* the inode each monitor has open
    proc,       \* where each monitor is in acquiring its guard
    store,      \* its store handle: none, open, or failed by the heartbeat
    lease,      \* the writer lease
    evicted,    \* history: scanning monitors whose lock file was replaced
    faults

guardVars == <<lockFile, fd, proc, store, lease, evicted, faults>>

(* After flock, until the guard is dropped or the process dies. *)
Locked == {p \in Monitors : proc[p] \in {"ready", "scan"}}

Scanning == {p \in Monitors : proc[p] = "scan"}

GuardInit ==
    /\ lockFile = NoFile
    /\ fd = [p \in Monitors |-> NoFile]
    /\ proc = [p \in Monitors |-> "off"]
    /\ store = [p \in Monitors |-> "none"]
    /\ lease = [owner |-> Nobody, live |-> FALSE]
    /\ evicted = {}
    /\ faults = 0

Unused == LockFiles \ ({lockFile} \union {fd[p] : p \in Monitors})

Fault(f) == f \in Faults /\ faults < MaxFaults /\ faults' = faults + 1

-----------------------------------------------------------------------------
(* Taking the lock: acquire_manifest_lock. *)

(* The file at the path, or a new one; who loses a race here just fails. *)
OpenLock(p) ==
    /\ proc[p] = "off"
    /\ lockFile' \in IF lockFile = NoFile THEN Unused ELSE {lockFile}
    /\ fd' = [fd EXCEPT ![p] = lockFile']
    /\ proc' = [proc EXCEPT ![p] = "opened"]
    /\ UNCHANGED <<store, lease, evicted, faults>>

(* The path must still name the file that was opened. *)
ValidateLock(p) ==
    /\ proc[p] = "opened"
    /\ IF fd[p] = lockFile
       THEN /\ proc' = [proc EXCEPT ![p] = "validated"]
            /\ UNCHANGED fd
       ELSE /\ proc' = [proc EXCEPT ![p] = "off"]
            /\ fd' = [fd EXCEPT ![p] = NoFile]
    /\ UNCHANGED <<lockFile, store, lease, evicted, faults>>

(* Mutant: the lock is shared. *)
Flock_Shared(p) ==
    /\ proc[p] = "validated"
    /\ proc' = [proc EXCEPT ![p] = "ready"]
    /\ UNCHANGED <<lockFile, fd, store, lease, evicted, faults>>

Flock(p) ==
    /\ proc[p] = "validated"
    /\ IF \A q \in Locked : fd[q] # fd[p]
       THEN /\ proc' = [proc EXCEPT ![p] = "ready"]
            /\ UNCHANGED fd
       ELSE /\ proc' = [proc EXCEPT ![p] = "off"]
            /\ fd' = [fd EXCEPT ![p] = NoFile]
    /\ UNCHANGED <<lockFile, store, lease, evicted, faults>>

-----------------------------------------------------------------------------
(* Scans: MonitorRunGuard::state_store and the heartbeat. *)

(* What every write checks again (StateStore's validate_writer_lease). *)
Writable(p) ==
    store[p] = "open" /\ lease.owner = p /\ lease.live

(* The first scan opens the writer, the others renew its lease. *)
LeaseGranted(p) ==
    IF store[p] = "none" THEN lease.owner = Nobody \/ ~lease.live ELSE Writable(p)

ScanAllowed(p) ==
    fd[p] = lockFile /\ LeaseGranted(p)

(* A scan that is refused is logged and tried again: nothing changes. *)
BeginScan(p) ==
    /\ proc[p] = "ready" /\ ScanAllowed(p)
    /\ proc' = [proc EXCEPT ![p] = "scan"]
    /\ store' = [store EXCEPT ![p] = "open"]
    /\ lease' = [owner |-> p, live |-> TRUE]
    /\ UNCHANGED <<lockFile, fd, evicted, faults>>

EndScan(p) ==
    /\ proc[p] = "scan"
    /\ proc' = [proc EXCEPT ![p] = "ready"]
    /\ evicted' = evicted \ {p}
    /\ UNCHANGED <<lockFile, fd, store, lease, faults>>

(* The renewal fails: the thread notes it and ends, and from then on every *)
(* operation of this handle fails.                                         *)
HeartbeatLost(p) ==
    /\ store[p] = "open" /\ ~Writable(p)
    /\ store' = [store EXCEPT ![p] = "failed"]
    /\ UNCHANGED <<lockFile, fd, proc, lease, evicted, faults>>

(* The process is gone: its files are closed, and nothing more. *)
Gone(P) ==
    /\ proc' = [p \in Monitors |-> IF p \in P THEN "off" ELSE proc[p]]
    /\ fd' = [p \in Monitors |-> IF p \in P THEN NoFile ELSE fd[p]]
    /\ store' = [p \in Monitors |-> IF p \in P THEN "none" ELSE store[p]]
    /\ evicted' = evicted \ P

(* --once ends after its scan, or when it is refused; Drop gives the lease *)
(* back if it is still the owner's.                                        *)
Leave(p) ==
    /\ proc[p] = "scan" \/ (proc[p] = "ready" /\ ~ScanAllowed(p))
    /\ Gone({p})
    /\ lease' = IF lease.owner = p THEN [owner |-> Nobody, live |-> FALSE] ELSE lease
    /\ UNCHANGED <<lockFile, faults>>

Dies(P) ==
    /\ Gone(P)
    /\ lease' = IF lease.owner \in P THEN [lease EXCEPT !.owner = Dead] ELSE lease
    /\ UNCHANGED lockFile

Crash(p) == proc[p] # "off" /\ Dies({p}) /\ Fault("crash")

-----------------------------------------------------------------------------
(* Time, other programs, and the operator. *)

(* A lease nobody renews runs out.  One that is renewed does so only when   *)
(* the machine sleeps, or the clock jumps, for longer than its five minutes. *)
Renewed == \E p \in Monitors : store[p] = "open" /\ lease.owner = p

LeaseExpires ==
    /\ lease.live
    /\ lease' = [lease EXCEPT !.live = FALSE]
    /\ IF Renewed THEN Fault("sleep") ELSE UNCHANGED faults
    /\ UNCHANGED <<lockFile, fd, proc, store, evicted>>

ReplaceLock ==
    /\ lockFile # NoFile
    /\ lockFile' \in Unused \union {NoFile}
    /\ evicted' = evicted \union Scanning
    /\ Fault("lock")
    /\ UNCHANGED <<fd, proc, store, lease>>

(* A monitor that can never scan again keeps what it holds until it is     *)
(* stopped from outside.                                                   *)
Stuck(p) ==
    proc[p] = "ready" /\ (store[p] = "failed" \/ fd[p] # lockFile)

OperatorStops(p) == Stuck(p) /\ Dies({p}) /\ UNCHANGED faults

GuardStep(p) == OpenLock(p) \/ ValidateLock(p) \/ Flock(p) \/ HeartbeatLost(p)

-----------------------------------------------------------------------------
GuardTypeOK ==
    /\ lockFile \in LockFiles \union {NoFile}
    /\ fd \in [Monitors -> LockFiles \union {NoFile}]
    /\ proc \in [Monitors -> {"off", "opened", "validated", "ready", "scan"}]
    /\ store \in [Monitors -> {"none", "open", "failed"}]
    /\ lease \in [owner : Monitors \union {Nobody, Dead}, live : BOOLEAN]
    /\ evicted \subseteq Scanning
    /\ faults \in 0 .. MaxFaults
=============================================================================
