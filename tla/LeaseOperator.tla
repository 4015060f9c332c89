---------------------------- MODULE LeaseOperator -----------------------------
(***************************************************************************)
(* The lease commands of upload-buffer-cli.mjs: reconcile-upload-lease,    *)
(* apply-upload-reconciliation, release-upload-lease and the pair for a    *)
(* window that failed before it selected a chunk.  Every command first     *)
(* collects its input (collectLeaseReconciliationInput), then runs one     *)
(* function of upload-execution-lease.mjs; apply, release and recover must *)
(* be given the hash an earlier reconcile printed.                         *)
(***************************************************************************)
EXTENDS UploadWorld

VARIABLE op   \* op[o]: one operator and the command it runs

Commands == {"reconcile", "apply", "release", "inspect", "recover"}

NewOp ==
    [pc |-> "idle",
     cmd |-> None,
     exec |-> None,
     state |-> None,   \* the checkpoint the collector read
     obs |-> None,     \* what the collector saw on the cluster
     saved |-> None,   \* originalBytes of an apply
     hash |-> None]    \* the evidence the last reconcile printed

(* The command ends; only the printed hash outlives it.                      *)
Done(o, hash) == op' = [op EXCEPT ![o] = [NewOp EXCEPT !.hash = hash]]

EndLocked(o) ==
    /\ opLock' = None
    /\ Done(o, op[o].hash)

-------------------------------------------------------------------------------
(* The collector reads the checkpoint first and the cluster afterwards.      *)

StartCommand(o, cmd, e) ==
    /\ op[o].pc = "idle"
    /\ cmd \in {"apply", "release", "recover"} =>
          op[o].hash # None /\ op[o].hash.exec = e
    /\ op' = [op EXCEPT ![o].pc = "collect", ![o].cmd = cmd, ![o].exec = e,
                        ![o].state = file]
    /\ UNCHANGED worldVars

(* The transitions a checkpoint asks to be proved: those of the unresolved   *)
(* chunks, else those a receipt says were applied.                           *)
ProposedTransitions(f) == [c \in Unresolved(f) |-> f.chunks[c].status]

AppliedTransitions(f, e) ==
    IF f.windows[e] = NoOutcome \/ f.windows[e].receipt = None THEN << >>
    ELSE f.windows[e].receipt.transitions

reconciliationProofRecords(f, e) ==
    IF Unresolved(f) # {} THEN ProposedTransitions(f) ELSE AppliedTransitions(f, e)

Observation(f, e) ==
    LET targets == reconciliationProofRecords(f, e)
    IN  [final |-> {c \in DOMAIN targets : tx[f.chunks[c].sig][c] = "final"},
         bytes |-> FinalizedBytes]

ObserveCluster(o) ==
    /\ op[o].pc = "collect"
    /\ op' = [op EXCEPT ![o].pc = "ready",
                        ![o].obs = Observation(op[o].state, op[o].exec)]
    /\ UNCHANGED worldVars

-------------------------------------------------------------------------------
(* reconcileAtDirectory, read-only                                           *)

processIsActive(e) == os[e] = "running"

(* The state an applied receipt says it was applied to.                      *)
reconstructReceiptPreState(f, e) ==
    LET from == f.windows[e].receipt.transitions
    IN  [f EXCEPT !.windows[e].receipt = None,
                  !.chunks = [c \in Chunks |->
                      IF c \in DOMAIN from THEN [@[c] EXCEPT !.status = from[c]] ELSE @[c]]]

Evidence(e, f, dir, bytes, targets) ==
    [kind |-> "release", exec |-> e, pre |-> f, lease |-> LeaseHash(dir),
     bytes |-> bytes, transactions |-> targets, proposed |-> ProposedTransitions(f)]

(* A receipt is believed when its chunks still are as it left them, the      *)
(* cluster shows what it showed then, and undoing it gives the state and     *)
(* the evidence it names.                                                    *)
verifiedAppliedReceipt(e, dir, obs) ==
    LET receipt == file.windows[e].receipt
    IN  /\ receipt.evidence.lease = LeaseHash(dir)
        /\ Unresolved(file) = {}
        /\ DOMAIN receipt.transitions \subseteq Confirmed(file)
        /\ receipt.evidence.bytes = obs.bytes
        /\ receipt.evidence = Evidence(e, reconstructReceiptPreState(file, e), dir,
                                       obs.bytes, receipt.transitions)

(* Mutant of SafeToRelease: the execution id of lease.json is not compared.  *)
SafeToReleaseAnyLease(o, dir) ==
    LET e == op[o].exec
        obs == op[o].obs
        window == file.windows[e]
        targets == reconciliationProofRecords(file, e)
    IN  /\ dir # NoLease /\ dir.meta
        /\ ~processIsActive(e)
        /\ op[o].state = file
        /\ Confirmed(file) \subseteq obs.bytes
        /\ window # NoOutcome
        /\ window.receipt # None => verifiedAppliedReceipt(e, dir, obs)
        /\ ~(/\ window.status = "RPC_OUTCOME_UNKNOWN"
             /\ Unresolved(file) = {}
             /\ window.receipt = None)
        /\ DOMAIN targets \subseteq obs.final \cap obs.bytes

(* The conditions under which the result is SAFE_TO_RELEASE.                 *)
SafeToRelease(o, dir) ==
    LET e == op[o].exec
        obs == op[o].obs
        window == file.windows[e]
        targets == reconciliationProofRecords(file, e)
    IN  /\ dir # NoLease /\ dir.meta /\ dir.exec = e
        /\ ~processIsActive(e)
        /\ op[o].state = file
        /\ Confirmed(file) \subseteq obs.bytes
        /\ window # NoOutcome
        /\ window.receipt # None => verifiedAppliedReceipt(e, dir, obs)
        /\ ~(/\ window.status = "RPC_OUTCOME_UNKNOWN"
             /\ Unresolved(file) = {}
             /\ window.receipt = None)
        /\ DOMAIN targets \subseteq obs.final \cap obs.bytes

reconcileAtDirectory(o, dir) ==
    IF SafeToRelease(o, dir)
    THEN Evidence(op[o].exec, file, dir, op[o].obs.bytes,
                  reconciliationProofRecords(file, op[o].exec))
    ELSE None

reconcileUploadLease(o) ==
    /\ op[o].pc = "ready"
    /\ op[o].cmd = "reconcile"
    /\ Done(o, reconcileAtDirectory(o, lease))
    /\ UNCHANGED worldVars

-------------------------------------------------------------------------------
(* acquireOperationLock                                                      *)

acquireOperationLock(o) ==
    /\ op[o].pc = "ready"
    /\ op[o].cmd \in {"apply", "release", "recover"}
    /\ IF opLock = None
       THEN opLock' = o /\ op' = [op EXCEPT ![o].pc = "locked"]
       ELSE Done(o, op[o].hash) /\ UNCHANGED opLock
    /\ UNCHANGED <<file, lease, archive, os, tx>>

Locked(o, cmd) == op[o].pc = "locked" /\ op[o].cmd = cmd

-------------------------------------------------------------------------------
(* applyUploadReconciliation                                                 *)

(* The fresh evidence is the one given on the command line, and it proposes  *)
(* something; in every other case (an already applied one included) the      *)
(* command ends without a change.                                            *)
Applicable(o) ==
    LET fresh == reconcileAtDirectory(o, lease)
    IN  fresh # None /\ fresh = op[o].hash /\ DOMAIN fresh.proposed # {}

applyUploadReconciliation(o) ==
    /\ Locked(o, "apply")
    /\ Applicable(o)
    /\ LET e == op[o].exec
           from == op[o].hash.proposed
       IN  file' = [file EXCEPT
              !.chunks = [c \in Chunks |->
                  IF c \in DOMAIN from THEN [@[c] EXCEPT !.status = "CONFIRMED"] ELSE @[c]],
              !.windows[e].receipt = [evidence |-> op[o].hash, transitions |-> from]]
    /\ op' = [op EXCEPT ![o].pc = "applied", ![o].saved = file]
    /\ UNCHANGED <<lease, archive, opLock, os, tx>>

(* validateAppliedState on what was read back; otherwise the original bytes  *)
(* are put back.                                                             *)
ApplyVerified(o) ==
    /\ op[o].pc = "applied"
    /\ \/ UNCHANGED file
       \/ "write" \in Faults /\ file' = op[o].saved
    /\ EndLocked(o)
    /\ UNCHANGED <<lease, archive, os, tx>>

-------------------------------------------------------------------------------
(* releaseUploadLease                                                        *)

(* An outcome that refers to telemetry is bound to the finished file; one    *)
(* that does not is only believed when there is no telemetry file.           *)
verifyTelemetryStateBinding(dir, e) ==
    IF file.windows[e].ref THEN dir.telemetry = "finished" ELSE dir.telemetry = "none"

Archived(e, hash) == archive[e] # NoArchive /\ archive[e].hash = hash

(* Mutant of Releasable: transitions that were only proposed do not matter.  *)
ReleasableUnapplied(o) ==
    LET fresh == reconcileAtDirectory(o, lease)
    IN  /\ lease # NoLease
        /\ ~Archived(op[o].exec, op[o].hash)
        /\ fresh # None /\ fresh = op[o].hash
        /\ verifyTelemetryStateBinding(lease, op[o].exec)
        /\ lease.receipt \in {None, op[o].hash}

Releasable(o) ==
    LET fresh == reconcileAtDirectory(o, lease)
    IN  /\ lease # NoLease
        /\ ~Archived(op[o].exec, op[o].hash)
        /\ fresh # None /\ fresh = op[o].hash /\ DOMAIN fresh.proposed = {}
        /\ verifyTelemetryStateBinding(lease, op[o].exec)
        /\ lease.receipt \in {None, op[o].hash}

WriteReleaseReceipt(o) ==
    /\ Locked(o, "release")
    /\ Releasable(o)
    /\ lease' = [lease EXCEPT !.receipt = op[o].hash]
    /\ op' = [op EXCEPT ![o].pc = "receipt"]
    /\ UNCHANGED <<file, archive, opLock, os, tx>>

(* The rename that ends the lease.  It may fail; the lock is given up        *)
(* either way.                                                               *)
ArchiveLease(o) ==
    /\ op[o].pc = "receipt"
    /\ \/ /\ lease' = NoLease
          /\ archive' = [archive EXCEPT ![op[o].exec] =
                [hash |-> op[o].hash, dir |-> lease]]
       \/ "write" \in Faults /\ UNCHANGED <<lease, archive>>
    /\ EndLocked(o)
    /\ UNCHANGED <<file, os, tx>>

-------------------------------------------------------------------------------
(* reconcilePreSelectionUploadLease and recoverPreSelectionUploadLease.  The *)
(* evidence of the outer host is that the uploader exited with code 1; its   *)
(* manifest is left out, which only makes the command accept more.           *)

RecoveryEvidence(e, dir, bytes) ==
    [kind |-> "recovery", exec |-> e, state |-> file, bytes |-> bytes,
     lease |-> LeaseHash(dir), telemetry |-> dir.telemetry, terminal |-> dir.terminal]

(* Mutant of RecoveryEligible: the exit code alone is believed.              *)
RecoveryByExitCode(o, dir) ==
    LET e == op[o].exec
    IN  /\ dir # NoLease /\ dir.meta /\ dir.exec = e
        /\ ~processIsActive(e)
        /\ os[e] = "failed"
        /\ dir.receipt # None => dir.receipt = RecoveryEvidence(e, dir, op[o].obs.bytes)

RecoveryEligible(o, dir) ==
    LET e == op[o].exec
    IN  /\ dir # NoLease /\ dir.meta /\ dir.exec = e
        /\ ~processIsActive(e)
        /\ os[e] = "failed"
        /\ Confirmed(op[o].state) \subseteq op[o].obs.bytes
        /\ file = dir.at
        /\ Unresolved(file) = {}
        /\ WithStatus(file, {"PLANNED"}) # {}
        /\ \/ dir.terminal = "stale_safe"
           \/ dir.terminal = "none" /\ dir.telemetry # "none"
        /\ ~dir.sends
        /\ dir.receipt # None => dir.receipt = RecoveryEvidence(e, dir, op[o].obs.bytes)

reconcilePreSelectionUploadLease(o) ==
    /\ op[o].pc = "ready"
    /\ op[o].cmd = "inspect"
    /\ Done(o, IF opLock = None /\ RecoveryEligible(o, lease)
               THEN RecoveryEvidence(op[o].exec, lease, op[o].obs.bytes) ELSE None)
    /\ UNCHANGED worldVars

(* refreshInput: the collector runs again under the lock.                    *)
RefreshInput(o) ==
    /\ Locked(o, "recover")
    /\ op' = [op EXCEPT ![o].pc = "refreshed", ![o].state = file,
                        ![o].obs = Observation(file, op[o].exec)]
    /\ UNCHANGED worldVars

Recoverable(o) ==
    /\ lease # NoLease
    /\ ~Archived(op[o].exec, op[o].hash)
    /\ RecoveryEligible(o, lease)
    /\ RecoveryEvidence(op[o].exec, lease, op[o].obs.bytes) = op[o].hash

WriteRecoveryReceipt(o) ==
    /\ op[o].pc = "refreshed"
    /\ Recoverable(o)
    /\ lease' = [lease EXCEPT !.receipt = op[o].hash]
    /\ op' = [op EXCEPT ![o].pc = "receipt"]
    /\ UNCHANGED <<file, archive, opLock, os, tx>>

-------------------------------------------------------------------------------
(* Every way out of a command that holds the lock and finds its evidence     *)
(* stale, already applied or already archived: finally gives the lock back.  *)
Refuse(o) ==
    /\ \/ Locked(o, "apply") /\ ~Applicable(o)
       \/ Locked(o, "release") /\ ~Releasable(o)
       \/ op[o].pc = "refreshed" /\ ~Recoverable(o)
    /\ EndLocked(o)
    /\ UNCHANGED <<file, lease, archive, os, tx>>

(* The command is killed; a lock directory it made stays behind.             *)
KillCommand(o) ==
    /\ "opkill" \in Faults
    /\ op[o].pc \notin {"idle", "dead"}
    /\ op' = [op EXCEPT ![o] = [NewOp EXCEPT !.pc = "dead"]]
    /\ UNCHANGED worldVars

OperatorStep(o) ==
    \/ ObserveCluster(o)
    \/ reconcileUploadLease(o)
    \/ acquireOperationLock(o)
    \/ applyUploadReconciliation(o)
    \/ ApplyVerified(o)
    \/ WriteReleaseReceipt(o)
    \/ ArchiveLease(o)
    \/ reconcilePreSelectionUploadLease(o)
    \/ RefreshInput(o)
    \/ WriteRecoveryReceipt(o)
    \/ Refuse(o)

OperatorNext ==
    \E o \in Operators :
        \/ \E cmd \in Commands, e \in Execs : StartCommand(o, cmd, e)
        \/ OperatorStep(o)
        \/ KillCommand(o)

OperatorInit == op = [o \in Operators |-> NewOp]
===============================================================================
