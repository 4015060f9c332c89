----------------------------- MODULE UploadSystem -----------------------------
(***************************************************************************)
(* The upload tooling as a whole: uploader processes, lease operators and  *)
(* the cluster, interleaved on the shared files.                           *)
(***************************************************************************)
EXTENDS Uploader, LeaseOperator

vars == <<file, lease, archive, opLock, os, tx, scn, proc, op>>

Init ==
    /\ WorldInit
    /\ UploaderInit
    /\ OperatorInit

Next ==
    \/ UploaderNext /\ UNCHANGED <<op, scn>>
    \/ OperatorNext /\ UNCHANGED <<proc, scn>>
    \/ ClusterNext /\ UNCHANGED <<proc, op, scn>>

Spec == Init /\ [][Next]_vars

-------------------------------------------------------------------------------
(* A process that is inside its window holds the lease, whatever operators   *)
(* do meanwhile with older evidence: reconcileAtDirectory compares the       *)
(* execution id and refuses a live owner.  Two windows therefore never work  *)
(* on the checkpoint at the same time.                                       *)
WindowHoldsLease ==
    \A e \in Execs : InWindow(e) => lease # NoLease /\ lease.exec = e

(* A transaction the cluster may have was written to the checkpoint before   *)
(* it was sent, and the record still names it: no other window has signed    *)
(* that chunk, then or since.  This is what makes a chunk's write at most    *)
(* one transaction, although the checkpoint is not read again between the    *)
(* hash check of acquireUploadLease and its mkdir.                           *)
EverySendIsRecorded ==
    \A s \in Signers, c \in Chunks :
        tx[s][c] # "none" =>
            /\ file.chunks[c].sig = s
            /\ file.chunks[c].status # "PLANNED"

(* The progress a checkpoint claims is on the finalized buffer, whatever     *)
(* forks the cluster abandons.  The chunks of Legacy are left out: the scan  *)
(* recovers those records from bytes at confirmed commitment.                *)
ConfirmedIsFinal == Confirmed(file) \ Legacy \subseteq FinalizedBytes

(* Without a lease nothing is pending: every earlier window was released     *)
(* with the outcome of each of its transactions known, so a new window       *)
(* meets no SENT or UNKNOWN record but those of Legacy.                      *)
NothingPendingWithoutLease == lease = NoLease => Unresolved(file) \subseteq Legacy

(* An archived lease stays justified: a release has the window's outcome on  *)
(* record, and a pre-selection recovery belongs to a window that never put   *)
(* a transaction on the cluster.                                             *)
ArchiveJustified ==
    \A e \in Execs : archive[e] # NoArchive =>
        /\ ~InWindow(e)
        /\ archive[e].dir.exec = e
        /\ archive[e].hash.kind = "release" => file.windows[e] # NoOutcome
        /\ archive[e].hash.kind = "recovery" =>
              /\ file.windows[e] = NoOutcome
              /\ \A c \in Chunks : tx[e][c] = "none" /\ file.chunks[c].sig # e

(* What a write to the checkpoint may do.  A record only moves along         *)
(* CHUNK_TRANSITIONS to one validateChunkRecords accepts and keeps its       *)
(* signature, unless an apply takes back its own unverified change; a        *)
(* window's outcome, once written, is never lost or replaced, so no stale    *)
(* copy of the checkpoint is ever saved.                                     *)
CheckpointStep ==
    /\ \A c \in Chunks :
          LET old == file.chunks[c]
              new == file'.chunks[c]
          IN  \/ new = old
              \/ /\ new \in ChunkRecord /\ new.status \in CHUNK_TRANSITIONS[old.status]
                 /\ old.sig # None => new.sig = old.sig
              \/ \E o \in Operators : op[o].pc = "applied" /\ file' = op[o].saved
    /\ \A e \in Execs :
          file.windows[e] # NoOutcome =>
              /\ file'.windows[e] # NoOutcome
              /\ file'.windows[e].status = file.windows[e].status
              /\ file'.windows[e].ref = file.windows[e].ref

(* Every write to the checkpoint is such a step: no uploader and no lease    *)
(* command ever saves a stale copy.                                          *)
CheckpointMonotone == [][CheckpointStep]_vars

-------------------------------------------------------------------------------
(* Refinement                                                                *)

(* The only transaction a chunk has: that of the signer on record.           *)
Chain == [c \in Chunks |->
    LET sig == file.chunks[c].sig IN IF sig = None THEN "none" ELSE tx[sig][c]]

Working == \E e \in Execs : InWindow(e)

Past == {e \in Execs : archive[e] # NoArchive}

Undo == {op[o].saved.chunks : o \in {q \in Operators : op[q].pc = "applied"}}

Ideal == INSTANCE IdealUpload WITH
    Windows <- Execs, OldWindow <- OldExec,
    given <- Matched, older <- Legacy, record <- file.chunks, chain <- Chain,
    holder <- lease.exec, working <- Working, past <- Past, undo <- Undo

(* The tooling as a whole, with any number of processes and commands that    *)
(* fail anywhere, behaves as the single careful worker of IdealUpload: one   *)
(* transaction per chunk, claims that the cluster cannot take back, commands *)
(* that act only between windows, and no window let go of with an open send. *)
ImplementsIdeal == Ideal!Spec

-------------------------------------------------------------------------------
(* Fairness: a process that runs goes on, the cluster goes on, and somebody  *)
(* starts the next window and runs the commands of the one that ended.       *)
Commanded(o, cmd, e) ==
    /\ StartCommand(o, cmd, e)
    /\ UNCHANGED <<proc, scn>>

Fairness ==
    /\ \A e \in Execs : WF_vars(UploaderStep(e) /\ UNCHANGED <<op, scn>>)
    /\ \A o \in Operators : WF_vars(OperatorStep(o) /\ UNCHANGED <<proc, scn>>)
    /\ \A s \in Signers, c \in Chunks :
          /\ WF_vars(Land(s, c) /\ UNCHANGED <<proc, op, scn>>)
          /\ WF_vars(Finalize(s, c) /\ UNCHANGED <<proc, op, scn>>)
    /\ \A o \in Operators, e \in Execs :
          /\ SF_vars(lease # NoLease /\ lease.exec = e /\ Commanded(o, "reconcile", e))
          /\ SF_vars(Commanded(o, "release", e))

FairSpec == Spec /\ Fairness

(* Where nothing fails, window after window gets the whole binary onto the   *)
(* finalized buffer; it takes more windows when one loses the race between   *)
(* the hash check and the mkdir of acquireUploadLease.  An execution id that *)
(* is never used up would mean that no window can start any more.            *)
UploadNeverWedged ==
    <>(Confirmed(file) = Chunks \/ \A e \in Execs : proc[e].pc = "ended")
===============================================================================
