----------------------------- MODULE UploadWorld ------------------------------
(***************************************************************************)
(* What the upload tooling shares: the checkpoint file, the lease          *)
(* directory and its archive, the operation lock, the operating system's   *)
(* process table, and the cluster.  scripts/devnet/{state,                 *)
(* upload-execution-lease,upload-terminal-evidence,                        *)
(* upload-execution-telemetry}.mjs define the files.                       *)
(*                                                                         *)
(* A SHA-256 of a file is modelled by the value it hashes.                 *)
(***************************************************************************)
EXTENDS Integers, FiniteSets

CONSTANTS
    N,          \* chunks of the plan
    Execs,      \* execution ids; each names one uploader process
    Operators,  \* concurrent invocations of the lease commands
    Scenarios,  \* what an upload may start from, and what may go wrong in it
    OldExec,    \* the signer of the transactions of Legacy
    None

Chunks == 0 .. N - 1

FaultKinds == {"throw", "kill", "write", "timeout", "rate", "fail", "fork",
               "drop", "opkill"}

ASSUME UploadAssumption ==
    /\ N \in Nat \ {0}
    /\ \A s \in Scenarios :
          /\ s.max \in Nat \ {0}
          /\ s.matched \subseteq Chunks
          /\ s.legacy \subseteq Chunks
          /\ s.faults \subseteq FaultKinds
    /\ OldExec \notin Execs
    /\ None \notin Execs \cup Operators \cup {OldExec}

Signers == Execs \cup {OldExec}

VARIABLES
    file,     \* the state file: chunk records and upload windows
    lease,    \* the active lease directory, or NoLease
    archive,  \* archive[e]: the archived lease of e with its hash, or NoArchive
    opLock,   \* the operator that made the operation-lock directory, or None
    os,       \* os[e]: the process of e in the process table
    tx,       \* tx[s][c]: the transaction s signed for chunk c, on the cluster
    scn       \* the scenario of this behaviour; it never changes

worldVars == <<file, lease, archive, opLock, os, tx>>

MaxChunks == scn.max      \* policy.maxChunksPerWindow
Matched   == scn.matched  \* chunks whose bytes equal the buffer before any write
Legacy    == scn.legacy   \* chunks a checkpoint starts with as UNKNOWN
Faults    == scn.faults   \* bound: what may go wrong

-------------------------------------------------------------------------------
(* The checkpoint file                                                       *)

CHUNK_STATUS == {"PLANNED", "SENT", "CONFIRMED", "FAILED", "UNKNOWN"}

(* validateChunkRecords: a signature exactly when one is required; one that  *)
(* is CONFIRMED by equal bytes alone has none.                               *)
ChunkRecord ==
    {r \in [status : CHUNK_STATUS, sig : Signers \cup {None}] :
        /\ r.status \in {"SENT", "FAILED", "UNKNOWN"} => r.sig # None
        /\ r.status = "PLANNED" => r.sig = None}

CHUNK_TRANSITIONS ==
    [PLANNED   |-> {"SENT", "CONFIRMED"},
     SENT      |-> {"CONFIRMED", "FAILED", "UNKNOWN"},
     UNKNOWN   |-> {"CONFIRMED", "FAILED", "UNKNOWN"},
     CONFIRMED |-> {"CONFIRMED"},
     FAILED    |-> {"FAILED"}]

WithStatus(f, status) == {c \in Chunks : f.chunks[c].status \in status}

(* The upload window of an execution id that has no outcome yet.             *)
NoOutcome == [status |-> "NONE"]

(* Chunks whose transaction has no known outcome.                            *)
Unresolved(f) == WithStatus(f, {"SENT", "UNKNOWN"})

Confirmed(f) == WithStatus(f, {"CONFIRMED"})

-------------------------------------------------------------------------------
(* The lease directory: lease.json, telemetry.json, terminal.json and the    *)
(* receipt of a release or of a pre-selection recovery.                      *)

NewLease(e, at) ==
    [exec |-> e,
     meta |-> FALSE,        \* lease.json is in place
     at |-> at,             \* stateSha256AtAcquire
     telemetry |-> "none",  \* none, open, finished
     sends |-> FALSE,       \* telemetry.json records a send
     terminal |-> "none",   \* none, stale_safe, post_selection
     receipt |-> None]      \* release.json or recovery.json

(* There is no lease directory.                                              *)
NoLease == [exec |-> None]

(* Nothing was archived under an execution id.                               *)
NoArchive == [dir |-> NoLease]

LeaseHash(l) == [exec |-> l.exec, at |-> l.at]

-------------------------------------------------------------------------------
(* The cluster.  A transaction that was submitted may be executed (landed or *)
(* errored), fall off with its fork, become final, or expire unseen.         *)

TxState == {"none", "inflight", "landed", "final", "errored", "errfinal", "dropped"}

(* Chunks whose bytes the buffer account shows at a commitment level.        *)
FinalizedBytes ==
    Matched \cup {c \in Chunks : \E s \in Signers : tx[s][c] = "final"}

ConfirmedBytes ==
    Matched \cup {c \in Chunks : \E s \in Signers : tx[s][c] \in {"landed", "final"}}

SetTx(s, c, from, to) ==
    /\ tx[s][c] \in from
    /\ tx' = [tx EXCEPT ![s][c] = to]
    /\ UNCHANGED <<file, lease, archive, opLock, os>>

Land(s, c)     == SetTx(s, c, {"inflight"}, "landed")
Error(s, c)    == "fail" \in Faults /\ SetTx(s, c, {"inflight"}, "errored")
Finalize(s, c) == SetTx(s, c, {"landed"}, "final")
FinalizeError(s, c) == SetTx(s, c, {"errored"}, "errfinal")
Fork(s, c)     == "fork" \in Faults /\ SetTx(s, c, {"landed", "errored"}, "inflight")
Expire(s, c)   == "drop" \in Faults /\ SetTx(s, c, {"inflight"}, "dropped")

ClusterNext ==
    \E s \in Signers, c \in Chunks :
        \/ Land(s, c)
        \/ Error(s, c)
        \/ Finalize(s, c)
        \/ FinalizeError(s, c)
        \/ Fork(s, c)
        \/ Expire(s, c)

-------------------------------------------------------------------------------
(* migrate-state-v3 writes every record as PLANNED; a checkpoint that an     *)
(* uploader without leases left behind may hold UNKNOWN ones.                *)
WorldInit ==
    /\ scn \in Scenarios
    /\ file = [chunks |-> [c \in Chunks |->
                    IF c \in Legacy THEN [status |-> "UNKNOWN", sig |-> OldExec]
                    ELSE [status |-> "PLANNED", sig |-> None]],
               windows |-> [e \in Execs |-> NoOutcome]]
    /\ lease = NoLease
    /\ archive = [e \in Execs |-> NoArchive]
    /\ opLock = None
    /\ os = [e \in Execs |-> "unborn"]
    /\ \E old \in [Legacy -> TxState \ {"none"}] :
          tx = [s \in Signers |-> [c \in Chunks |->
                  IF s = OldExec /\ c \in Legacy THEN old[c] ELSE "none"]]
===============================================================================
