------------------------------- MODULE Uploader -------------------------------
(***************************************************************************)
(* One upload window: executeUploadWindow of upload-execution-command.mjs  *)
(* with runPersistedSequentialUpload of throttled-uploader.mjs.  A step    *)
(* ends where the code awaits, or where it has just written a file that    *)
(* another process can see; between two steps anything may happen.         *)
(***************************************************************************)
EXTENDS UploadWorld

VARIABLE proc   \* proc[e]: the memory of the process of e

NewProc ==
    [pc |-> "idle",
     bytes |-> {},         \* finalized chunks that match, preflight.plan
     pre |-> None,         \* the checkpoint preflight validated
     mem |-> None,         \* the checkpoint the window works on
     next |-> 0,           \* the chunk the scan looks at
     cur |-> None,         \* the chunk being signed, sent or confirmed
     seen |-> None,        \* what confirm returned for it
     processed |-> 0,
     selected |-> FALSE,   \* some boundary of the lifecycle tracker was crossed
     store |-> FALSE,      \* the telemetry store exists
     ref |-> FALSE,        \* telemetryEvidence is known
     result |-> None]

(* The memory is gone once the process has ended.                            *)
EndedProc == [NewProc EXCEPT !.pc = "ended"]

(* The process owns the lease directory.                                     *)
InWindow(e) == proc[e].pc \notin {"idle", "buffered", "validated", "checked", "ended"}

Goto(e, pc) == proc' = [proc EXCEPT ![e].pc = pc]

Leave(e, code) ==
    /\ proc' = [proc EXCEPT ![e] = EndedProc]
    /\ os' = [os EXCEPT ![e] = code]

(* A command that fails before it has the lease leaves no trace of its id:   *)
(* the next invocation, which draws a new one, is e again.                   *)
Abandon(e) ==
    /\ proc' = [proc EXCEPT ![e] = NewProc]
    /\ os' = [os EXCEPT ![e] = "unborn"]

-------------------------------------------------------------------------------
(* Preflight, before the lease                                               *)

(* The buffer is read at finalized commitment before the checkpoint is.      *)
PreflightBuffer(e) ==
    /\ proc[e].pc = "idle"
    /\ proc' = [proc EXCEPT ![e].pc = "buffered", ![e].bytes = FinalizedBytes]
    /\ os' = [os EXCEPT ![e] = "running"]
    /\ UNCHANGED <<file, lease, archive, opLock, tx>>

(* The CONFIRMED records must be a prefix of the plan and match the buffer.  *)
validateConfirmedValidationSnapshot(f, bytes) ==
    /\ Confirmed(f) \subseteq bytes
    /\ \A c \in Confirmed(f) : 0 .. c \subseteq Confirmed(f)

PreflightState(e) ==
    /\ proc[e].pc = "buffered"
    /\ \/ /\ validateConfirmedValidationSnapshot(file, proc[e].bytes)
          /\ proc' = [proc EXCEPT ![e].pc = "validated", ![e].pre = file]
          /\ UNCHANGED os
       \/ /\ ~validateConfirmedValidationSnapshot(file, proc[e].bytes)
          /\ Abandon(e)
    /\ UNCHANGED <<file, lease, archive, opLock, tx>>

(* The revalidation of executeUploadWindow and the first check of            *)
(* acquireUploadLease: the checkpoint still is the one preflight read.       *)
CheckStateHash(e) ==
    /\ proc[e].pc = "validated"
    /\ IF file = proc[e].pre THEN Goto(e, "checked") /\ UNCHANGED os
       ELSE Abandon(e)
    /\ UNCHANGED <<file, lease, archive, opLock, tx>>

(* mkdir of the lease directory is the only step that excludes others; the   *)
(* checkpoint is not looked at again.                                        *)
acquireUploadLease(e) ==
    /\ proc[e].pc = "checked"
    /\ IF lease = NoLease
       THEN /\ lease' = NewLease(e, proc[e].pre)
            /\ Goto(e, "leased")
            /\ UNCHANGED os
       ELSE Abandon(e) /\ UNCHANGED lease
    /\ UNCHANGED <<file, archive, opLock, tx>>

WriteLeaseMetadata(e) ==
    /\ proc[e].pc = "leased"
    /\ lease' = [lease EXCEPT !.meta = TRUE]
    /\ Goto(e, "telemetry")
    /\ UNCHANGED <<file, archive, opLock, os, tx>>

-------------------------------------------------------------------------------
(* The window                                                                *)

CreateTelemetry(e) ==
    /\ proc[e].pc = "telemetry"
    /\ lease' = [lease EXCEPT !.telemetry = "open"]
    /\ proc' = [proc EXCEPT ![e].pc = "load", ![e].store = TRUE]
    /\ UNCHANGED <<file, archive, opLock, os, tx>>

(* Mutant of loadUploaderCheckpoint: works on the copy preflight validated.  *)
LoadPreflightCopy(e) ==
    /\ proc[e].pc = "load"
    /\ proc' = [proc EXCEPT ![e].pc = "scan", ![e].mem = proc[e].pre]
    /\ UNCHANGED worldVars

(* The whole checkpoint is read once; every later save writes this copy.     *)
loadUploaderCheckpoint(e) ==
    /\ proc[e].pc = "load"
    /\ proc' = [proc EXCEPT ![e].pc = "scan", ![e].mem = file]
    /\ UNCHANGED worldVars

(* persist of runPersistedSequentialUpload, then the memory moves on to p.   *)
Persist(e, c, status, sig, p) ==
    /\ status \in CHUNK_TRANSITIONS[proc[e].mem.chunks[c].status]
    /\ LET next == [proc[e].mem EXCEPT !.chunks[c] = [status |-> status, sig |-> sig]]
       IN  /\ file' = next
           /\ proc' = [proc EXCEPT ![e] = [p EXCEPT !.mem = next]]

(* What the scan does with one chunk.  The snapshot is what preflight found  *)
(* CONFIRMED; exactMatch is what preflight found in the finalized buffer.    *)
ScanChunk(e) ==
    LET p == proc[e]
        c == p.next
        record == p.mem.chunks[c]
        onward == [p EXCEPT !.next = c + 1]
        snapshot == Confirmed(p.pre)
    IN  /\ p.pc = "scan"
        /\ c \in Chunks
        /\ \/ /\ \/ record.status # "CONFIRMED" /\ c \in snapshot
                 \/ record.status = "CONFIRMED" /\ c \notin snapshot
              /\ Goto(e, "catch")
              /\ UNCHANGED file
           \/ /\ record.status = "FAILED" /\ c \notin snapshot
              /\ proc' = [proc EXCEPT ![e].pc = "finish", ![e].result = "CONFIRMED_FAILURE"]
              /\ UNCHANGED file
           \/ /\ record.status \in {"SENT", "UNKNOWN"} /\ c \notin snapshot
              /\ proc' = [proc EXCEPT ![e].pc = "reconfirm", ![e].cur = c]
              /\ UNCHANGED file
           \/ /\ record.status = "CONFIRMED" /\ c \in snapshot
              /\ proc' = [proc EXCEPT ![e] = onward]
              /\ UNCHANGED file
           \/ /\ record.status = "PLANNED" /\ c \notin snapshot /\ c \in p.bytes
              /\ Persist(e, c, "CONFIRMED", record.sig, onward)
           \/ /\ record.status = "PLANNED" /\ c \notin snapshot /\ c \notin p.bytes
              /\ proc' = [proc EXCEPT ![e] = onward]
              /\ UNCHANGED file
        /\ UNCHANGED <<lease, archive, opLock, os, tx>>

ScanDone(e) ==
    /\ proc[e].pc = "scan"
    /\ proc[e].next \notin Chunks
    /\ Goto(e, "select")
    /\ UNCHANGED worldVars

(* The loop of runSequentialUpload up to the signature.  beforeAttempt of    *)
(* getLatestBlockhash reads the checkpoint once more: the record must still  *)
(* be PLANNED there.                                                         *)
SelectAndSign(e) ==
    LET p == proc[e]
        left == WithStatus(p.mem, {"PLANNED"})
    IN  /\ p.pc = "select"
        /\ \/ /\ left = {}
              /\ proc' = [proc EXCEPT ![e].pc = "finish", ![e].result = "COMPLETE"]
           \/ /\ left # {} /\ p.processed >= MaxChunks
              /\ proc' = [proc EXCEPT ![e].pc = "finish", ![e].result = "WINDOW_LIMIT"]
           \/ /\ p.processed < MaxChunks
              /\ \E c \in left :
                    /\ \A d \in left : c <= d
                    /\ proc' = [proc EXCEPT
                          ![e].pc = IF file.chunks[c].status = "PLANNED"
                                    THEN "persist" ELSE "catch",
                          ![e].selected = TRUE,
                          ![e].cur = c]
        /\ UNCHANGED worldVars

(* Mutant of PersistSent: the record is not saved before the transaction is  *)
(* sent.                                                                     *)
SentInMemory(e) ==
    /\ proc[e].pc = "persist"
    /\ proc' = [proc EXCEPT ![e].pc = "send",
           ![e].mem.chunks[proc[e].cur] = [status |-> "SENT", sig |-> e]]
    /\ UNCHANGED worldVars

PersistSent(e) ==
    /\ proc[e].pc = "persist"
    /\ Persist(e, proc[e].cur, "SENT", e, [proc[e] EXCEPT !.pc = "send"])
    /\ UNCHANGED <<lease, archive, opLock, os, tx>>

(* sendRawTransaction, with the send recorded in telemetry.json before it.   *)
(* An error says nothing about whether the cluster got the transaction.      *)
Send(e) ==
    LET submitted == [tx EXCEPT ![e][proc[e].cur] = "inflight"]
    IN  /\ proc[e].pc = "send"
        /\ lease' = [lease EXCEPT !.sends = TRUE]
        /\ \/ /\ tx' = submitted
              /\ Goto(e, "confirm")
           \/ /\ "rate" \in Faults
              /\ tx' \in {tx, submitted}
              /\ proc' = [proc EXCEPT ![e].pc = "finish", ![e].result = "RATE_LIMITED"]
           \/ /\ "throw" \in Faults
              /\ tx' \in {tx, submitted}
              /\ Goto(e, "catch")
        /\ UNCHANGED <<file, archive, opLock, os>>

(* confirmSignature returns on a finalized status or on an error, and null   *)
(* when its deadline passes first.                                           *)
SignatureStatus(state) ==
    CASE state \in {"errored", "errfinal"} -> "err"
      [] state = "final" -> "finalized"
      [] OTHER -> "null"

confirmSignature(e) ==
    /\ proc[e].pc \in {"confirm", "reconfirm"}
    /\ LET c == proc[e].cur
           status == SignatureStatus(tx[proc[e].mem.chunks[c].sig][c])
       IN  \E answer \in {status, "null"} :
              /\ answer = "null" => "timeout" \in Faults
              /\ proc' = [proc EXCEPT
                    ![e].seen = answer,
                    ![e].pc = IF @ = "confirm" THEN "record" ELSE "rerecord"]
    /\ UNCHANGED worldVars

(* Mutant of reconcileChunk: equal bytes are enough.                         *)
BytesConfirm(seen, chunkMatches, expired) ==
    CASE seen = "err" -> "FAILED"
      [] seen # "err" /\ chunkMatches -> "CONFIRMED"
      [] OTHER -> "UNKNOWN"

reconcileChunk(seen, chunkMatches, expired) ==
    CASE seen = "err" -> "FAILED"
      [] seen # "err" /\ chunkMatches /\ (expired \/ seen = "finalized") -> "CONFIRMED"
      [] OTHER -> "UNKNOWN"

(* readChunkMatches reads at confirmed commitment; a node that lags behind   *)
(* may not show the bytes yet.                                               *)
chunkMatches(c) ==
    {c \in ConfirmedBytes} \cup (IF "timeout" \in Faults THEN {FALSE} ELSE {})

(* The outcome of a chunk this window sent.                                  *)
RecordOutcome(e) ==
    LET p == proc[e]
        more == [p EXCEPT !.pc = "select", !.processed = @ + 1, !.cur = None, !.seen = None]
    IN  /\ p.pc = "record"
        /\ \E m \in chunkMatches(p.cur) :
              LET status == reconcileChunk(p.seen, m, FALSE)
              IN  Persist(e, p.cur, status, e,
                    IF status = "CONFIRMED" THEN more
                    ELSE [p EXCEPT !.pc = "finish",
                                   !.result = IF status = "FAILED" THEN "CONFIRMED_FAILURE"
                                              ELSE "UNKNOWN"])
        /\ UNCHANGED <<lease, archive, opLock, os, tx>>

(* The outcome of a chunk the scan found SENT or UNKNOWN.                    *)
RecordRecovered(e) ==
    LET p == proc[e]
        sig == p.mem.chunks[p.cur].sig
        onward == [p EXCEPT !.pc = "scan", !.next = @ + 1, !.cur = None, !.seen = None]
    IN  /\ p.pc = "rerecord"
        /\ \E m \in chunkMatches(p.cur) :
              LET status == reconcileChunk(p.seen, m, TRUE)
              IN  Persist(e, p.cur, status, sig,
                    IF status = "CONFIRMED" THEN onward
                    ELSE [p EXCEPT !.pc = "finish",
                                   !.result = IF status = "FAILED" THEN "CONFIRMED_FAILURE"
                                              ELSE "UNKNOWN"])
        /\ UNCHANGED <<lease, archive, opLock, os, tx>>

-------------------------------------------------------------------------------
(* Terminalization                                                           *)

(* Mutant of FinishTelemetry: the outcome does not refer to the telemetry.   *)
FinishUnreferenced(e) ==
    /\ proc[e].pc = "finish"
    /\ lease' = [lease EXCEPT !.telemetry = "finished"]
    /\ Goto(e, "append")
    /\ UNCHANGED <<file, archive, opLock, os, tx>>

FinishTelemetry(e) ==
    /\ proc[e].pc = "finish"
    /\ lease' = [lease EXCEPT !.telemetry = "finished"]
    /\ proc' = [proc EXCEPT ![e].pc = "append", ![e].ref = TRUE]
    /\ UNCHANGED <<file, archive, opLock, os, tx>>

(* appendWindowOutcome reads the file again and adds to what it finds there. *)
WithOutcome(f, e, status, ref) ==
    [f EXCEPT !.windows[e] = [status |-> status, ref |-> ref, receipt |-> None]]

appendWindowOutcome(e) ==
    /\ proc[e].pc = "append"
    /\ file.windows[e] = NoOutcome
    /\ file' = WithOutcome(file, e, proc[e].result, proc[e].ref)
    /\ Goto(e, "exitOk")
    /\ UNCHANGED <<lease, archive, opLock, os, tx>>

(* Anything the try block does may throw, a failing save included: memory    *)
(* and file then differ, but the memory is not used again.  In the           *)
(* TERMINALIZATION phase the telemetry evidence is not taken a second time.  *)
Throw(e) ==
    /\ "throw" \in Faults
    /\ proc[e].pc \in {"telemetry", "load", "scan", "select", "persist", "send",
                       "confirm", "record", "reconfirm", "rerecord", "finish", "append"}
    /\ proc' = [proc EXCEPT
          ![e].pc = IF @ \in {"finish", "append"} THEN "terminal" ELSE "catch",
          ![e].ref = FALSE]
    /\ UNCHANGED worldVars

CatchTelemetry(e) ==
    /\ proc[e].pc = "catch"
    /\ \E ok \in {proc[e].store} \cup (IF "write" \in Faults THEN {FALSE} ELSE {}) :
          /\ proc' = [proc EXCEPT ![e].pc = "terminal", ![e].ref = ok]
          /\ lease' = IF ok THEN [lease EXCEPT !.telemetry = "finished"] ELSE lease
    /\ UNCHANGED <<file, archive, opLock, os, tx>>

(* buildUploadTerminalRecord and writeUploadTerminalEvidence                 *)
Classification(e) ==
    IF ~proc[e].selected /\ file = lease.at THEN "stale_safe" ELSE "post_selection"

WriteTerminal(e) ==
    /\ proc[e].pc = "terminal"
    /\ \/ lease' = [lease EXCEPT !.terminal = Classification(e)]
       \/ "write" \in Faults /\ UNCHANGED lease
    /\ Goto(e, IF Classification(e) = "stale_safe" THEN "exitFail" ELSE "catchAppend")
    /\ UNCHANGED <<file, archive, opLock, os, tx>>

classifyTerminalError(f) ==
    IF Unresolved(f) # {} THEN "RPC_OUTCOME_UNKNOWN" ELSE "EXECUTION_ERROR"

CatchAppend(e) ==
    /\ proc[e].pc = "catchAppend"
    /\ \/ /\ file.windows[e] = NoOutcome
          /\ file' = WithOutcome(file, e, classifyTerminalError(file), proc[e].ref)
       \/ "write" \in Faults /\ UNCHANGED file
    /\ Goto(e, "exitFail")
    /\ UNCHANGED <<lease, archive, opLock, os, tx>>

Exit(e) ==
    /\ proc[e].pc \in {"exitOk", "exitFail"}
    /\ Leave(e, IF proc[e].pc = "exitOk" THEN "ok" ELSE "failed")
    /\ UNCHANGED <<file, lease, archive, opLock, tx>>

(* The process is killed, or the host goes down.                             *)
Kill(e) ==
    /\ "kill" \in Faults
    /\ os[e] = "running"
    /\ Leave(e, "killed")
    /\ UNCHANGED <<file, lease, archive, opLock, tx>>

UploaderStep(e) ==
    \/ PreflightBuffer(e)
    \/ PreflightState(e)
    \/ CheckStateHash(e)
    \/ acquireUploadLease(e)
    \/ WriteLeaseMetadata(e)
    \/ CreateTelemetry(e)
    \/ loadUploaderCheckpoint(e)
    \/ ScanChunk(e)
    \/ ScanDone(e)
    \/ SelectAndSign(e)
    \/ PersistSent(e)
    \/ Send(e)
    \/ confirmSignature(e)
    \/ RecordOutcome(e)
    \/ RecordRecovered(e)
    \/ FinishTelemetry(e)
    \/ appendWindowOutcome(e)
    \/ CatchTelemetry(e)
    \/ WriteTerminal(e)
    \/ CatchAppend(e)
    \/ Exit(e)

UploaderNext == \E e \in Execs : UploaderStep(e) \/ Throw(e) \/ Kill(e)

UploaderInit == proc = [e \in Execs |-> NewProc]
===============================================================================
