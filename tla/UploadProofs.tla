----------------------------- MODULE UploadProofs ------------------------------
(***************************************************************************)
(* Theorems about UploadSystem, for any number of chunks, windows and      *)
(* lease commands, from any checkpoint an older uploader left behind and   *)
(* with every fault.                                                       *)
(***************************************************************************)
EXTENDS UploadSystem, TLAPS

(* Files, leases and evidence contain each other, so that no set holds all   *)
(* of them.  They are typed by the fields they have.                         *)
FileTyped(f) ==
    /\ DOMAIN f = {"chunks", "windows"}
    /\ f.chunks \in [Chunks -> ChunkRecord]
    /\ DOMAIN f.windows = Execs
    /\ \A e \in Execs :
          f.windows[e] # NoOutcome =>
              /\ DOMAIN f.windows[e] = {"status", "ref", "receipt"}
              /\ f.windows[e].status # "NONE"

LeaseTyped ==
    lease # NoLease =>
        /\ DOMAIN lease = {"exec", "meta", "at", "telemetry", "sends", "terminal", "receipt"}
        /\ lease.exec \in Execs

TxTyped == tx \in [Signers -> [Chunks -> TxState]]

ProcTyped ==
    /\ DOMAIN proc = Execs
    /\ \A e \in Execs :
          DOMAIN proc[e] = {"pc", "bytes", "pre", "mem", "next", "cur", "seen", "processed",
                            "selected", "store", "ref", "result"}

OpTyped ==
    /\ DOMAIN op = Operators
    /\ \A o \in Operators :
          DOMAIN op[o] = {"pc", "cmd", "exec", "state", "obs", "saved", "hash"}

WorldTyped ==
    /\ scn \in Scenarios
    /\ FileTyped(file)
    /\ LeaseTyped
    /\ TxTyped
    /\ DOMAIN archive = Execs
    /\ DOMAIN os = Execs

-------------------------------------------------------------------------------
(* The inductive invariant                                                   *)

(* The checkpoint f bears no trace of e.                                     *)
Clean(f, e) ==
    /\ f.windows[e] = NoOutcome
    /\ \A c \in Chunks : f.chunks[c].sig # e

(* Where the process runs but has no lease yet, and where its memory is what *)
(* the file holds.                                                           *)
Preflight == {"buffered", "validated", "checked"}

InStep == {"scan", "select", "persist", "send", "confirm", "reconfirm", "record", "rerecord"}

Ending == {"catch", "finish", "append", "terminal", "catchAppend", "exitOk", "exitFail"}

Results == {"COMPLETE", "WINDOW_LIMIT", "RATE_LIMITED", "CONFIRMED_FAILURE", "UNKNOWN"}

(* A window that works on a chunk is between two writes of its record.       *)
ChunkInv(e) ==
    LET p == proc[e]
        record == file.chunks[p.cur]
    IN  /\ p.pc \in {"persist", "send", "confirm", "record", "reconfirm", "rerecord"} =>
              p.cur \in Chunks
        /\ p.pc = "persist" => record.status = "PLANNED"
        /\ p.pc \in {"send", "confirm", "record"} => record = [status |-> "SENT", sig |-> e]
        /\ p.pc = "send" => tx[e][p.cur] = "none"
        /\ p.pc = "record" /\ p.seen = "finalized" => tx[e][p.cur] = "final"
        /\ p.pc \in {"reconfirm", "rerecord"} => record.status \in {"SENT", "UNKNOWN"}
        /\ p.pc \in {"record", "rerecord"} /\ p.seen = "err" => tx[record.sig][p.cur] # "none"

ProcInv(e) ==
    LET p == proc[e]
    IN  /\ p.pc \in {"idle", "leased", "telemetry", "load", "ended"}
                        \cup Preflight \cup InStep \cup Ending
        /\ os[e] = "running" <=> p.pc \notin {"idle", "ended"}
        /\ p.bytes \subseteq FinalizedBytes
        /\ p.pc \in {"idle"} \cup Preflight => Clean(file, e)
        /\ p.pc \in {"validated", "checked"} => Clean(p.pre, e)
        /\ InWindow(e) => lease # NoLease /\ lease.exec = e
        /\ p.pc \in InStep => p.mem = file
        /\ p.pc \in {"leased", "telemetry", "load", "scan", "reconfirm", "rerecord"} =>
              Unresolved(file) \subseteq Legacy
        /\ p.pc \in {"finish", "append"} => p.result \in Results
        /\ ChunkInv(e)

(* The lease belongs to a window that runs or has ended; the checkpoint it   *)
(* was taken on did not know that window.                                    *)
LeaseInv ==
    lease # NoLease =>
        /\ Clean(lease.at, lease.exec)
        /\ InWindow(lease.exec) \/ proc[lease.exec].pc = "ended"

(* f is what an apply made of s.                                             *)
Applied(s, f) ==
    /\ \A c \in Chunks :
          \/ f.chunks[c] = s.chunks[c]
          \/ /\ s.chunks[c].status \in {"SENT", "UNKNOWN"}
             /\ f.chunks[c].status = "CONFIRMED" /\ f.chunks[c].sig = s.chunks[c].sig
    /\ \A e \in Execs :
          \/ f.windows[e] = s.windows[e]
          \/ /\ s.windows[e] # NoOutcome /\ f.windows[e] # NoOutcome
             /\ f.windows[e].status = s.windows[e].status
             /\ f.windows[e].ref = s.windows[e].ref

(* The transactions a command saw final are the ones its copy of the         *)
(* checkpoint names.                                                         *)
Observed(o) ==
    LET q == op[o]
    IN  /\ q.pc \in {"collect", "ready", "locked"} => FileTyped(q.state)
        /\ q.pc \in {"ready", "locked"} =>
              \A c \in q.obs.final \cap Unresolved(q.state) :
                  tx[q.state.chunks[c].sig][c] = "final"

(* A command that has decided to change something still may.                 *)
Deciding(o) == op[o].pc \in {"applied", "receipt"}

OpInv(o) ==
    LET q == op[o]
    IN  /\ q.pc \in {"idle", "collect", "ready", "locked", "applied", "refreshed", "receipt", "dead"}
        /\ q.pc \notin {"idle", "dead"} => q.exec \in Execs
        /\ q.pc \in {"ready", "locked"} => q.obs.bytes \subseteq FinalizedBytes
        /\ Observed(o)
        /\ q.pc \in {"locked", "refreshed", "applied", "receipt"} => opLock = o
        /\ Deciding(o) =>
              lease # NoLease /\ lease.exec = q.exec /\ proc[q.exec].pc = "ended"
        /\ q.pc = "applied" => FileTyped(q.saved) /\ Applied(q.saved, file)
        /\ q.pc = "receipt" =>
              /\ Unresolved(file) = {}
              /\ q.hash.kind = "release" => file.windows[q.exec] # NoOutcome
              /\ q.hash.kind = "recovery" => Clean(file, q.exec)

ArchiveInv(e) ==
    archive[e] # NoArchive =>
        /\ proc[e].pc = "ended"
        /\ archive[e].dir.exec = e
        /\ archive[e].hash.kind = "release" => file.windows[e] # NoOutcome
        /\ archive[e].hash.kind = "recovery" => Clean(file, e)

IInv ==
    /\ WorldTyped /\ ProcTyped /\ OpTyped
    /\ EverySendIsRecorded
    /\ ConfirmedIsFinal
    /\ NothingPendingWithoutLease
    /\ \A e \in Execs : ProcInv(e)
    /\ LeaseInv
    /\ \A o \in Operators : OpInv(o)
    /\ \A e \in Execs : ArchiveInv(e)

-------------------------------------------------------------------------------
(* What a step of the process of e does to what it shares                    *)

(* A write of the checkpoint by the window of e.                             *)
Written(e) ==
    /\ FileTyped(file')
    /\ \A c \in Chunks :
          LET old == file.chunks[c]
              new == file'.chunks[c]
          IN  \/ new = old
              \/ /\ new.status \in CHUNK_TRANSITIONS[old.status]
                 /\ old.sig # None => new.sig = old.sig
                 /\ old.sig = None => new.sig \in {None, e}
                 /\ new.status = "CONFIRMED" => c \in Legacy \cup FinalizedBytes
    /\ \A d \in Execs : d # e \/ file.windows[e] # NoOutcome => file'.windows[d] = file.windows[d]

(* What the window of e may make of the record of one chunk.                 *)
Moves(e, c, status, sig) ==
    LET old == file.chunks[c]
    IN  \/ old.status = "PLANNED" /\ status = "CONFIRMED" /\ sig = None /\ c \in FinalizedBytes
        \/ old.status = "PLANNED" /\ status = "SENT" /\ sig = e
        \/ /\ old.status \in {"SENT", "UNKNOWN"} /\ sig = old.sig
           /\ \/ status = "CONFIRMED" /\ (tx[sig][c] = "final" \/ c \in Legacy \cap ConfirmedBytes)
              \/ status = "FAILED" /\ tx[sig][c] # "none"
              \/ status = "UNKNOWN"

RecordMoves(e) ==
    \/ file'.chunks = file.chunks
    \/ \E c \in Chunks, status \in CHUNK_STATUS, sig \in Signers \cup {None} :
          /\ Moves(e, c, status, sig)
          /\ file'.chunks = [file.chunks EXCEPT ![c] = [status |-> status, sig |-> sig]]

(* The window of e submits the transaction of a chunk.                       *)
Submits(e, c) ==
    /\ tx[e][c] = "none"
    /\ file.chunks[c] = [status |-> "SENT", sig |-> e]
    /\ tx' = [tx EXCEPT ![e][c] = "inflight"]
    /\ UNCHANGED file

Stays(e) ==
    /\ ProcTyped'
    /\ DOMAIN os' = Execs
    /\ \A d \in Execs \ {e} : proc'[d] = proc[d] /\ os'[d] = os[d]
    /\ UNCHANGED <<op, opLock, archive, scn>>

LEMMA TransitionFacts ==
    ASSUME NEW old \in CHUNK_STATUS, NEW new \in CHUNK_TRANSITIONS[old]
    PROVE  new \in CHUNK_STATUS /\ new # "PLANNED"
BY DEF CHUNK_STATUS, CHUNK_TRANSITIONS

LEMMA GotoEffect ==
    ASSUME ProcTyped, NEW e \in Execs, NEW pc, Goto(e, pc)
    PROVE  /\ ProcTyped'
           /\ \A d \in Execs \ {e} : proc'[d] = proc[d]
           /\ proc'[e].pc = pc
           /\ proc'[e].bytes = proc[e].bytes
           /\ proc'[e].pre = proc[e].pre
           /\ proc'[e].mem = proc[e].mem
           /\ proc'[e].cur = proc[e].cur
           /\ proc'[e].seen = proc[e].seen
           /\ proc'[e].result = proc[e].result
BY DEF ProcTyped, Goto

LEMMA SelectEffect ==
    ASSUME ProcTyped, NEW e \in Execs, SelectAndSign(e)
    PROVE  /\ ProcTyped'
           /\ \A d \in Execs \ {e} : proc'[d] = proc[d]
           /\ proc'[e].bytes = proc[e].bytes
           /\ proc'[e].mem = proc[e].mem
           /\ \/ proc'[e].pc = "finish" /\ proc'[e].result \in Results
              \/ proc'[e].pc = "catch"
              \/ /\ proc'[e].pc = "persist"
                 /\ proc'[e].cur \in Chunks
                 /\ file.chunks[proc'[e].cur].status = "PLANNED"
<1>1. CASE \E r \in {"COMPLETE", "WINDOW_LIMIT"} :
               proc' = [proc EXCEPT ![e].pc = "finish", ![e].result = r]
  <2>1. PICK r \in {"COMPLETE", "WINDOW_LIMIT"} :
               proc' = [proc EXCEPT ![e].pc = "finish", ![e].result = r]
    BY <1>1
  <2>2. ProcTyped' /\ \A d \in Execs \ {e} : proc'[d] = proc[d]
    BY <2>1 DEF ProcTyped
  <2>3. /\ proc'[e].bytes = proc[e].bytes /\ proc'[e].mem = proc[e].mem
        /\ proc'[e].pc = "finish" /\ proc'[e].result = r
    BY <2>1 DEF ProcTyped
  <2>. QED  BY <2>2, <2>3 DEF Results
<1>2. CASE \E c \in Chunks :
               proc' = [proc EXCEPT
                  ![e].pc = IF file.chunks[c].status = "PLANNED" THEN "persist" ELSE "catch",
                  ![e].selected = TRUE,
                  ![e].cur = c]
  <2>1. PICK c \in Chunks :
               proc' = [proc EXCEPT
                  ![e].pc = IF file.chunks[c].status = "PLANNED" THEN "persist" ELSE "catch",
                  ![e].selected = TRUE,
                  ![e].cur = c]
    BY <1>2
  <2>2. ProcTyped' /\ \A d \in Execs \ {e} : proc'[d] = proc[d]
    BY <2>1 DEF ProcTyped
  <2>3. /\ proc'[e].bytes = proc[e].bytes /\ proc'[e].mem = proc[e].mem
        /\ proc'[e].pc = IF file.chunks[c].status = "PLANNED" THEN "persist" ELSE "catch"
        /\ proc'[e].cur = c
    BY <2>1 DEF ProcTyped
  <2>. QED  BY <2>2, <2>3
<1>. QED  BY <1>1, <1>2 DEF SelectAndSign, WithStatus

LEMMA PersistEffect ==
    ASSUME ProcTyped, NEW e \in Execs, NEW c \in Chunks, NEW status, NEW sig, NEW p,
           DOMAIN p = DOMAIN proc[e], FileTyped(file), proc[e].mem = file,
           [status |-> status, sig |-> sig] \in ChunkRecord,
           Persist(e, c, status, sig, p)
    PROVE  /\ ProcTyped'
           /\ \A d \in Execs \ {e} : proc'[d] = proc[d]
           /\ proc'[e] = [p EXCEPT !.mem = file']
           /\ status \in CHUNK_TRANSITIONS[file.chunks[c].status]
           /\ FileTyped(file')
           /\ file'.windows = file.windows
           /\ file'.chunks = [file.chunks EXCEPT ![c] = [status |-> status, sig |-> sig]]
<1>1. /\ file' = [file EXCEPT !.chunks[c] = [status |-> status, sig |-> sig]]
      /\ proc' = [proc EXCEPT ![e] = [p EXCEPT !.mem = file']]
      /\ status \in CHUNK_TRANSITIONS[file.chunks[c].status]
  BY DEF Persist
<1>2. /\ file'.windows = file.windows
      /\ file'.chunks = [file.chunks EXCEPT ![c] = [status |-> status, sig |-> sig]]
      /\ DOMAIN file' = {"chunks", "windows"}
  BY <1>1 DEF FileTyped
<1>3. FileTyped(file')
  BY <1>2 DEF FileTyped
<1>4. /\ ProcTyped'
      /\ \A d \in Execs \ {e} : proc'[d] = proc[d]
      /\ proc'[e] = [p EXCEPT !.mem = file']
  BY <1>1 DEF ProcTyped
<1>. QED  BY <1>1, <1>2, <1>3, <1>4

(* What the invariant needs to know of a step of the process of e.           *)
Effect(e) ==
    /\ Stays(e)
    /\ proc[e].pc # "ended"
    /\ \/ UNCHANGED file
       \/ InWindow(e) /\ Written(e) /\ RecordMoves(e)
    /\ \/ UNCHANGED tx
       \/ /\ InWindow(e)
          /\ \E c \in Chunks : Submits(e, c)
    /\ \/ UNCHANGED lease
       \/ /\ InWindow(e)
          /\ LeaseTyped' /\ lease' # NoLease
          /\ lease'.exec = lease.exec /\ lease'.at = lease.at
       \/ /\ lease = NoLease
          /\ LeaseTyped' /\ lease' # NoLease
          /\ lease'.exec = e /\ Clean(lease'.at, e)
          /\ InWindow(e)'
    /\ InWindow(e) =>
          InWindow(e)' \/ (proc'[e].pc = "ended" /\ UNCHANGED <<file, tx, lease>>)
    /\ ProcInv(e)'

LEMMA ClusterView ==
    ASSUME UNCHANGED <<tx, scn>>
    PROVE  FinalizedBytes' = FinalizedBytes /\ Legacy' = Legacy
BY DEF FinalizedBytes, Legacy, Matched

LEMMA FileView ==
    ASSUME NEW e, UNCHANGED file
    PROVE  Unresolved(file)' = Unresolved(file) /\ (Clean(file, e)' <=> Clean(file, e))
BY DEF Unresolved, WithStatus, Clean

LEMMA LeaseField ==
    ASSUME LeaseTyped, lease # NoLease, NEW q, q = lease'.exec,
           \/ lease' = [lease EXCEPT !.meta = TRUE]
           \/ \E t : lease' = [lease EXCEPT !.telemetry = t]
           \/ \E t : lease' = [lease EXCEPT !.terminal = t]
           \/ \E t : lease' = [lease EXCEPT !.receipt = t]
           \/ lease' = [lease EXCEPT !.sends = TRUE]
    PROVE  /\ LeaseTyped' /\ lease' # NoLease
           /\ lease'.exec = lease.exec /\ lease'.at = lease.at
<1>1. DOMAIN lease' = DOMAIN lease /\ lease'.exec = lease.exec /\ lease'.at = lease.at
  BY DEF LeaseTyped
<1>2. lease.exec \in Execs /\ lease'.exec # None
  BY <1>1, UploadAssumption DEF LeaseTyped
<1>3. lease' # NoLease
  BY <1>2 DEF NoLease
<1>. QED  BY <1>1, <1>2, <1>3 DEF LeaseTyped

LEMMA MetadataEffect ==
    ASSUME IInv, NEW e \in Execs, WriteLeaseMetadata(e), UNCHANGED <<op, scn>>
    PROVE  Effect(e)
<1>1. WorldTyped /\ ProcTyped /\ ProcInv(e)
  BY DEF IInv
<1>2. /\ proc[e].pc = "leased" /\ InWindow(e) /\ lease # NoLease /\ lease.exec = e
      /\ lease' = [lease EXCEPT !.meta = TRUE] /\ Goto(e, "telemetry")
      /\ UNCHANGED <<file, archive, opLock, os, tx, scn, op>>
  BY <1>1 DEF WriteLeaseMetadata, ProcInv, InWindow
<1>3. /\ LeaseTyped' /\ lease' # NoLease
      /\ lease'.exec = lease.exec /\ lease'.at = lease.at
  BY <1>1, <1>2, LeaseField DEF WorldTyped
<1>4. Stays(e)
  BY <1>1, <1>2, GotoEffect DEF Stays, WorldTyped
<1>5. ProcInv(e)'
  BY <1>1, <1>2, <1>3, GotoEffect, ClusterView, FileView
     DEF ProcInv, ChunkInv, InWindow, Preflight, InStep, Ending
<1>6. InWindow(e)' /\ proc[e].pc # "ended"
  BY <1>1, <1>2, GotoEffect DEF InWindow
<1>. QED  BY <1>2, <1>3, <1>4, <1>5, <1>6 DEF Effect

LEMMA BufferEffect ==
    ASSUME IInv, NEW e \in Execs, PreflightBuffer(e), UNCHANGED <<op, scn>>
    PROVE  Effect(e)
<1>1. WorldTyped /\ ProcTyped /\ ProcInv(e)
  BY DEF IInv
<1>2. /\ proc[e].pc = "idle" /\ ~InWindow(e)
      /\ proc' = [proc EXCEPT ![e].pc = "buffered", ![e].bytes = FinalizedBytes]
      /\ os' = [os EXCEPT ![e] = "running"]
      /\ UNCHANGED <<file, lease, archive, opLock, tx, scn, op>>
  BY DEF PreflightBuffer, InWindow
<1>3. /\ ProcTyped'
      /\ \A d \in Execs \ {e} : proc'[d] = proc[d]
      /\ proc'[e].pc = "buffered" /\ proc'[e].bytes = FinalizedBytes
  BY <1>1, <1>2 DEF ProcTyped
<1>4. /\ DOMAIN os' = Execs /\ os'[e] = "running"
      /\ \A d \in Execs \ {e} : os'[d] = os[d]
  BY <1>1, <1>2 DEF WorldTyped
<1>5. ProcInv(e)'
  BY <1>1, <1>2, <1>3, <1>4, ClusterView, FileView
     DEF ProcInv, ChunkInv, InWindow, Preflight, InStep, Ending
<1>. QED  BY <1>2, <1>3, <1>4, <1>5 DEF Effect, Stays

LEMMA AbandonEffect ==
    ASSUME IInv, NEW e \in Execs, proc[e].pc \in Preflight, Abandon(e),
           UNCHANGED <<file, lease, archive, opLock, tx, op, scn>>
    PROVE  Effect(e)
<1>1. WorldTyped /\ ProcTyped /\ ProcInv(e)
  BY DEF IInv
<1>2. /\ ProcTyped'
      /\ \A d \in Execs \ {e} : proc'[d] = proc[d]
      /\ proc'[e].pc = "idle" /\ proc'[e].bytes = {}
  BY <1>1 DEF ProcTyped, Abandon, NewProc
<1>3. /\ DOMAIN os' = Execs /\ os'[e] = "unborn"
      /\ \A d \in Execs \ {e} : os'[d] = os[d]
  BY <1>1 DEF WorldTyped, Abandon
<1>4. ProcInv(e)'
  BY <1>1, <1>2, <1>3, ClusterView, FileView
     DEF ProcInv, ChunkInv, InWindow, Preflight, InStep, Ending
<1>5. ~InWindow(e) /\ proc[e].pc # "ended"
  BY DEF InWindow, Preflight
<1>. QED  BY <1>2, <1>3, <1>4, <1>5 DEF Effect, Stays

LEMMA LeaveEffect ==
    ASSUME IInv, NEW e \in Execs, NEW code, code # "running", os[e] = "running", Leave(e, code),
           UNCHANGED <<file, lease, archive, opLock, tx, op, scn>>
    PROVE  Effect(e)
<1>1. WorldTyped /\ ProcTyped /\ ProcInv(e)
  BY DEF IInv
<1>2. /\ ProcTyped'
      /\ \A d \in Execs \ {e} : proc'[d] = proc[d]
      /\ proc'[e].pc = "ended" /\ proc'[e].bytes = {}
  BY <1>1 DEF ProcTyped, Leave, NewProc, EndedProc
<1>3. /\ DOMAIN os' = Execs /\ os'[e] = code
      /\ \A d \in Execs \ {e} : os'[d] = os[d]
  BY <1>1 DEF WorldTyped, Leave
<1>4. ProcInv(e)'
  BY <1>1, <1>2, <1>3, ClusterView, FileView
     DEF ProcInv, ChunkInv, InWindow, Preflight, InStep, Ending
<1>5. proc[e].pc # "ended"
  BY <1>1 DEF ProcInv
<1>. QED  BY <1>2, <1>3, <1>4, <1>5 DEF Effect, Stays

LEMMA StateEffect ==
    ASSUME IInv, NEW e \in Execs, PreflightState(e), UNCHANGED <<op, scn>>
    PROVE  Effect(e)
<1>1. WorldTyped /\ ProcTyped /\ ProcInv(e)
  BY DEF IInv
<1>2. /\ proc[e].pc = "buffered" /\ ~InWindow(e)
      /\ UNCHANGED <<file, lease, archive, opLock, tx, scn, op>>
  BY DEF PreflightState, InWindow
<1>3. CASE Abandon(e)
  BY <1>2, <1>3, AbandonEffect DEF Preflight
<1>4. CASE proc' = [proc EXCEPT ![e].pc = "validated", ![e].pre = file] /\ UNCHANGED os
  <2>1. /\ ProcTyped'
        /\ \A d \in Execs \ {e} : proc'[d] = proc[d]
        /\ proc'[e].pc = "validated" /\ proc'[e].bytes = proc[e].bytes
        /\ proc'[e].pre = file
    BY <1>1, <1>4 DEF ProcTyped
  <2>2. DOMAIN os' = Execs /\ os' = os
    BY <1>1, <1>4 DEF WorldTyped
  <2>3. Clean(file, e) /\ Clean(file, e)'
    BY <1>1, <1>2, FileView DEF ProcInv, Preflight
  <2>4. (Clean(proc[e].pre, e))' <=> Clean(file, e)'
    BY <1>2, <2>1 DEF Clean
  <2>5. ProcInv(e)'
    BY <1>1, <1>2, <2>1, <2>2, <2>3, <2>4, ClusterView, FileView
       DEF ProcInv, ChunkInv, InWindow, Preflight, InStep, Ending
  <2>. QED  BY <1>2, <2>1, <2>2, <2>5 DEF Effect, Stays
<1>. QED  BY <1>3, <1>4 DEF PreflightState

LEMMA CheckEffect ==
    ASSUME IInv, NEW e \in Execs, CheckStateHash(e), UNCHANGED <<op, scn>>
    PROVE  Effect(e)
<1>1. WorldTyped /\ ProcTyped /\ ProcInv(e)
  BY DEF IInv
<1>2. /\ proc[e].pc = "validated" /\ ~InWindow(e)
      /\ UNCHANGED <<file, lease, archive, opLock, tx, scn, op>>
  BY DEF CheckStateHash, InWindow
<1>3. CASE Abandon(e)
  BY <1>2, <1>3, AbandonEffect DEF Preflight
<1>4. CASE Goto(e, "checked") /\ UNCHANGED os
  <2>1. Stays(e)
    BY <1>1, <1>2, <1>4, GotoEffect DEF Stays, WorldTyped
  <2>2. (Clean(proc[e].pre, e))' <=> Clean(proc[e].pre, e)
    BY <1>1, <1>2, <1>4, GotoEffect DEF Clean
  <2>3. ProcInv(e)'
    BY <1>1, <1>2, <1>4, <2>2, GotoEffect, ClusterView, FileView
       DEF ProcInv, ChunkInv, InWindow, Preflight, InStep, Ending
  <2>. QED  BY <1>2, <2>1, <2>3 DEF Effect
<1>. QED  BY <1>3, <1>4 DEF CheckStateHash

LEMMA AcquireEffect ==
    ASSUME IInv, NEW e \in Execs, acquireUploadLease(e), UNCHANGED <<op, scn>>
    PROVE  Effect(e)
<1>1. WorldTyped /\ ProcTyped /\ ProcInv(e) /\ NothingPendingWithoutLease
  BY DEF IInv
<1>2. /\ proc[e].pc = "checked" /\ ~InWindow(e)
      /\ UNCHANGED <<file, archive, opLock, tx, scn, op>>
  BY DEF acquireUploadLease, InWindow
<1>3. CASE Abandon(e) /\ UNCHANGED lease
  BY <1>2, <1>3, AbandonEffect DEF Preflight
<1>4. CASE /\ lease = NoLease
           /\ lease' = NewLease(e, proc[e].pre)
           /\ Goto(e, "leased")
           /\ UNCHANGED os
  <2>1. Stays(e)
    BY <1>1, <1>2, <1>4, GotoEffect DEF Stays, WorldTyped
  <2>2. /\ DOMAIN lease' = {"exec", "meta", "at", "telemetry", "sends", "terminal", "receipt"}
        /\ lease'.exec = e /\ lease'.at = proc[e].pre
    BY <1>4 DEF NewLease
  <2>3. LeaseTyped' /\ lease' # NoLease
    BY <2>2, UploadAssumption DEF LeaseTyped, NoLease
  <2>4. Clean(lease'.at, e)
    BY <1>1, <1>2, <2>2 DEF ProcInv
  <2>5. Unresolved(file) \subseteq Legacy
    BY <1>1, <1>4 DEF NothingPendingWithoutLease
  <2>6. ProcInv(e)'
    BY <1>1, <1>2, <1>4, <2>2, <2>3, <2>5, GotoEffect, ClusterView, FileView
       DEF ProcInv, ChunkInv, InWindow, Preflight, InStep, Ending
  <2>7. InWindow(e)'
    BY <1>1, <1>4, GotoEffect DEF InWindow
  <2>. QED  BY <1>2, <1>4, <2>1, <2>2, <2>3, <2>4, <2>6, <2>7 DEF Effect
<1>. QED  BY <1>3, <1>4 DEF acquireUploadLease

(* A step inside the window that writes neither the checkpoint nor the       *)
(* cluster.                                                                  *)
LEMMA WindowEffect ==
    ASSUME IInv, NEW e \in Execs, InWindow(e), InWindow(e)', Stays(e), ProcInv(e)',
           UNCHANGED <<file, tx>>,
           \/ UNCHANGED lease
           \/ /\ LeaseTyped' /\ lease' # NoLease
              /\ lease'.exec = lease.exec /\ lease'.at = lease.at
    PROVE  Effect(e)
BY DEF Effect, InWindow

LEMMA CreateEffect ==
    ASSUME IInv, NEW e \in Execs, CreateTelemetry(e), UNCHANGED <<op, scn>>
    PROVE  Effect(e)
<1>1. WorldTyped /\ ProcTyped /\ ProcInv(e)
  BY DEF IInv
<1>2. /\ proc[e].pc = "telemetry" /\ InWindow(e) /\ lease # NoLease /\ lease.exec = e
      /\ lease' = [lease EXCEPT !.telemetry = "open"]
      /\ proc' = [proc EXCEPT ![e].pc = "load", ![e].store = TRUE]
      /\ UNCHANGED <<file, archive, opLock, os, tx, scn, op>>
  BY <1>1 DEF CreateTelemetry, ProcInv, InWindow
<1>3. /\ LeaseTyped' /\ lease' # NoLease
      /\ lease'.exec = lease.exec /\ lease'.at = lease.at
  BY <1>1, <1>2, LeaseField DEF WorldTyped
<1>4. /\ ProcTyped'
      /\ \A d \in Execs \ {e} : proc'[d] = proc[d]
      /\ proc'[e].pc = "load" /\ proc'[e].bytes = proc[e].bytes
  BY <1>1, <1>2 DEF ProcTyped
<1>5. ProcInv(e)' /\ InWindow(e)'
  BY <1>1, <1>2, <1>3, <1>4, ClusterView, FileView
     DEF ProcInv, ChunkInv, InWindow, Preflight, InStep, Ending
<1>6. Stays(e)
  BY <1>1, <1>2, <1>4 DEF Stays, WorldTyped
<1>. QED  BY <1>2, <1>3, <1>5, <1>6, WindowEffect

LEMMA LoadEffect ==
    ASSUME IInv, NEW e \in Execs, loadUploaderCheckpoint(e), UNCHANGED <<op, scn>>
    PROVE  Effect(e)
<1>1. WorldTyped /\ ProcTyped /\ ProcInv(e)
  BY DEF IInv
<1>2. /\ proc[e].pc = "load" /\ InWindow(e)
      /\ proc' = [proc EXCEPT ![e].pc = "scan", ![e].mem = file]
      /\ UNCHANGED <<file, lease, archive, opLock, os, tx, scn, op>>
  BY DEF loadUploaderCheckpoint, InWindow, worldVars
<1>3. /\ ProcTyped'
      /\ \A d \in Execs \ {e} : proc'[d] = proc[d]
      /\ proc'[e].pc = "scan" /\ proc'[e].bytes = proc[e].bytes
      /\ proc'[e].mem = file
  BY <1>1, <1>2 DEF ProcTyped
<1>4. ProcInv(e)' /\ InWindow(e)'
  BY <1>1, <1>2, <1>3, ClusterView, FileView
     DEF ProcInv, ChunkInv, InWindow, Preflight, InStep, Ending
<1>5. Stays(e)
  BY <1>1, <1>2, <1>3 DEF Stays, WorldTyped
<1>. QED  BY <1>2, <1>4, <1>5, WindowEffect

LEMMA ScanDoneEffect ==
    ASSUME IInv, NEW e \in Execs, ScanDone(e), UNCHANGED <<op, scn>>
    PROVE  Effect(e)
<1>1. WorldTyped /\ ProcTyped /\ ProcInv(e)
  BY DEF IInv
<1>2. /\ proc[e].pc = "scan" /\ InWindow(e) /\ Goto(e, "select")
      /\ UNCHANGED <<file, lease, archive, opLock, os, tx, scn, op>>
  BY DEF ScanDone, InWindow, worldVars
<1>3. ProcInv(e)' /\ InWindow(e)'
  BY <1>1, <1>2, GotoEffect, ClusterView, FileView
     DEF ProcInv, ChunkInv, InWindow, Preflight, InStep, Ending
<1>4. Stays(e)
  BY <1>1, <1>2, GotoEffect DEF Stays, WorldTyped
<1>. QED  BY <1>2, <1>3, <1>4, WindowEffect

LEMMA SelectSignEffect ==
    ASSUME IInv, NEW e \in Execs, SelectAndSign(e), UNCHANGED <<op, scn>>
    PROVE  Effect(e)
<1>1. WorldTyped /\ ProcTyped /\ ProcInv(e)
  BY DEF IInv
<1>2. /\ proc[e].pc = "select" /\ InWindow(e)
      /\ UNCHANGED <<file, lease, archive, opLock, os, tx, scn, op>>
  BY DEF SelectAndSign, InWindow, worldVars
<1>3. ProcInv(e)' /\ InWindow(e)'
  BY <1>1, <1>2, SelectEffect, ClusterView, FileView
     DEF ProcInv, ChunkInv, InWindow, Preflight, InStep, Ending
<1>4. Stays(e)
  BY <1>1, <1>2, SelectEffect DEF Stays, WorldTyped
<1>. QED  BY <1>2, <1>3, <1>4, WindowEffect

LEMMA ConfirmEffect ==
    ASSUME IInv, NEW e \in Execs, confirmSignature(e), UNCHANGED <<op, scn>>
    PROVE  Effect(e)
<1>1. WorldTyped /\ ProcTyped /\ ProcInv(e)
  BY DEF IInv
<1>2. /\ proc[e].pc \in {"confirm", "reconfirm"} /\ InWindow(e)
      /\ UNCHANGED <<file, lease, archive, opLock, os, tx, scn, op>>
  BY DEF confirmSignature, InWindow, worldVars
<1>3. PICK answer :
        /\ answer \in {SignatureStatus(tx[proc[e].mem.chunks[proc[e].cur].sig][proc[e].cur]),
                       "null"}
        /\ proc' = [proc EXCEPT
              ![e].seen = answer,
              ![e].pc = IF @ = "confirm" THEN "record" ELSE "rerecord"]
  BY DEF confirmSignature
<1>4. /\ ProcTyped'
      /\ \A d \in Execs \ {e} : proc'[d] = proc[d]
      /\ proc'[e].pc = IF proc[e].pc = "confirm" THEN "record" ELSE "rerecord"
      /\ proc'[e].seen = answer
      /\ proc'[e].bytes = proc[e].bytes /\ proc'[e].mem = proc[e].mem
      /\ proc'[e].cur = proc[e].cur
  <2>. DEFINE pc == IF proc[e].pc = "confirm" THEN "record" ELSE "rerecord"
  <2>1. proc' = [proc EXCEPT ![e].seen = answer, ![e].pc = pc]
    BY <1>1, <1>3 DEF ProcTyped
  <2>. HIDE DEF pc
  <2>2. /\ ProcTyped'
        /\ \A d \in Execs \ {e} : proc'[d] = proc[d]
        /\ proc'[e].pc = pc
        /\ proc'[e].seen = answer
        /\ proc'[e].bytes = proc[e].bytes /\ proc'[e].mem = proc[e].mem
        /\ proc'[e].cur = proc[e].cur
    BY <1>1, <2>1 DEF ProcTyped
  <2>. QED  BY <2>2 DEF pc
<1>5. ASSUME proc[e].pc = "confirm", answer = "finalized"
      PROVE  tx[e][proc[e].cur] = "final"
  <2>1. /\ proc[e].mem = file
        /\ file.chunks[proc[e].cur] = [status |-> "SENT", sig |-> e]
    BY <1>1, <1>5 DEF ProcInv, ChunkInv, InStep
  <2>2. SignatureStatus(tx[e][proc[e].cur]) = "finalized"
    BY <1>3, <1>5, <2>1
  <2>. QED  BY <2>2 DEF SignatureStatus
<1>6. ASSUME answer = "err"
      PROVE  tx[file.chunks[proc[e].cur].sig][proc[e].cur] # "none"
  <2>1. proc[e].mem = file
    BY <1>1, <1>2 DEF ProcInv, InStep
  <2>. QED  BY <1>3, <1>6, <2>1 DEF SignatureStatus
<1>7. ProcInv(e)' /\ InWindow(e)'
  BY <1>1, <1>2, <1>4, <1>5, <1>6, ClusterView, FileView
     DEF ProcInv, ChunkInv, InWindow, Preflight, InStep, Ending
<1>8. Stays(e)
  BY <1>1, <1>2, <1>4 DEF Stays, WorldTyped
<1>. QED  BY <1>2, <1>7, <1>8, WindowEffect

LEMMA FinishEffect ==
    ASSUME IInv, NEW e \in Execs, FinishTelemetry(e), UNCHANGED <<op, scn>>
    PROVE  Effect(e)
<1>1. WorldTyped /\ ProcTyped /\ ProcInv(e)
  BY DEF IInv
<1>2. /\ proc[e].pc = "finish" /\ InWindow(e) /\ lease # NoLease /\ lease.exec = e
      /\ lease' = [lease EXCEPT !.telemetry = "finished"]
      /\ proc' = [proc EXCEPT ![e].pc = "append", ![e].ref = TRUE]
      /\ UNCHANGED <<file, archive, opLock, os, tx, scn, op>>
  BY <1>1 DEF FinishTelemetry, ProcInv, InWindow
<1>3. /\ LeaseTyped' /\ lease' # NoLease
      /\ lease'.exec = lease.exec /\ lease'.at = lease.at
  BY <1>1, <1>2, LeaseField DEF WorldTyped
<1>4. /\ ProcTyped'
      /\ \A d \in Execs \ {e} : proc'[d] = proc[d]
      /\ proc'[e].pc = "append" /\ proc'[e].bytes = proc[e].bytes
      /\ proc'[e].result = proc[e].result
  BY <1>1, <1>2 DEF ProcTyped
<1>5. ProcInv(e)' /\ InWindow(e)'
  BY <1>1, <1>2, <1>3, <1>4, ClusterView, FileView
     DEF ProcInv, ChunkInv, InWindow, Preflight, InStep, Ending
<1>6. Stays(e)
  BY <1>1, <1>2, <1>4 DEF Stays, WorldTyped
<1>. QED  BY <1>2, <1>3, <1>5, <1>6, WindowEffect

LEMMA CatchEffect ==
    ASSUME IInv, NEW e \in Execs, CatchTelemetry(e), UNCHANGED <<op, scn>>
    PROVE  Effect(e)
<1>1. WorldTyped /\ ProcTyped /\ ProcInv(e)
  BY DEF IInv
<1>2. /\ proc[e].pc = "catch" /\ InWindow(e) /\ lease # NoLease /\ lease.exec = e
      /\ UNCHANGED <<file, archive, opLock, os, tx, scn, op>>
  BY <1>1 DEF CatchTelemetry, ProcInv, InWindow
<1>3. PICK ok \in {proc[e].store} \cup (IF "write" \in Faults THEN {FALSE} ELSE {}) :
        /\ proc' = [proc EXCEPT ![e].pc = "terminal", ![e].ref = ok]
        /\ lease' = IF ok THEN [lease EXCEPT !.telemetry = "finished"] ELSE lease
  BY Zenon DEF CatchTelemetry
<1>4. /\ LeaseTyped' /\ lease' # NoLease
      /\ lease'.exec = lease.exec /\ lease'.at = lease.at
  BY <1>1, <1>2, <1>3, LeaseField DEF WorldTyped, LeaseTyped
<1>5. /\ ProcTyped'
      /\ \A d \in Execs \ {e} : proc'[d] = proc[d]
      /\ proc'[e].pc = "terminal" /\ proc'[e].bytes = proc[e].bytes
  BY <1>1, <1>3 DEF ProcTyped
<1>6. ProcInv(e)' /\ InWindow(e)'
  BY <1>1, <1>2, <1>4, <1>5, ClusterView, FileView
     DEF ProcInv, ChunkInv, InWindow, Preflight, InStep, Ending
<1>7. Stays(e)
  BY <1>1, <1>2, <1>5 DEF Stays, WorldTyped
<1>. QED  BY <1>2, <1>4, <1>6, <1>7, WindowEffect

LEMMA TerminalEffect ==
    ASSUME IInv, NEW e \in Execs, WriteTerminal(e), UNCHANGED <<op, scn>>
    PROVE  Effect(e)
<1>1. WorldTyped /\ ProcTyped /\ ProcInv(e)
  BY DEF IInv
<1>2. /\ proc[e].pc = "terminal" /\ InWindow(e) /\ lease # NoLease /\ lease.exec = e
      /\ UNCHANGED <<file, archive, opLock, os, tx, scn, op>>
  BY <1>1 DEF WriteTerminal, ProcInv, InWindow
<1>3. PICK pc \in {"exitFail", "catchAppend"} : Goto(e, pc)
  BY DEF WriteTerminal
<1>4. /\ LeaseTyped' /\ lease' # NoLease
      /\ lease'.exec = lease.exec /\ lease'.at = lease.at
  <2>1. CASE lease' = [lease EXCEPT !.terminal = Classification(e)]
    <3>. DEFINE t == Classification(e)
    <3>1. lease' = [lease EXCEPT !.terminal = t]
      BY <2>1
    <3>. HIDE DEF t
    <3>. QED  BY <1>1, <1>2, <3>1, LeaseField DEF WorldTyped
  <2>2. CASE UNCHANGED lease
    BY <1>1, <1>2, <2>2 DEF WorldTyped, LeaseTyped
  <2>. QED  BY <2>1, <2>2 DEF WriteTerminal
<1>5. ProcInv(e)' /\ InWindow(e)'
  BY <1>1, <1>2, <1>3, <1>4, GotoEffect, ClusterView, FileView
     DEF ProcInv, ChunkInv, InWindow, Preflight, InStep, Ending
<1>6. Stays(e)
  BY <1>1, <1>2, <1>3, GotoEffect DEF Stays, WorldTyped
<1>. QED  BY <1>2, <1>4, <1>5, <1>6, WindowEffect

LEMMA ThrowEffect ==
    ASSUME IInv, NEW e \in Execs, Throw(e), UNCHANGED <<op, scn>>
    PROVE  Effect(e)
<1>1. WorldTyped /\ ProcTyped /\ ProcInv(e)
  BY DEF IInv
<1>2. /\ InWindow(e) /\ lease # NoLease /\ lease.exec = e
      /\ UNCHANGED <<file, lease, archive, opLock, os, tx, scn, op>>
      /\ proc' = [proc EXCEPT
            ![e].pc = IF @ \in {"finish", "append"} THEN "terminal" ELSE "catch",
            ![e].ref = FALSE]
  BY <1>1 DEF Throw, InWindow, ProcInv, worldVars
<1>3. /\ ProcTyped'
      /\ \A d \in Execs \ {e} : proc'[d] = proc[d]
      /\ proc'[e].pc \in {"terminal", "catch"} /\ proc'[e].bytes = proc[e].bytes
  BY <1>1, <1>2 DEF ProcTyped
<1>4. ProcInv(e)' /\ InWindow(e)'
  BY <1>1, <1>2, <1>3, ClusterView, FileView
     DEF ProcInv, ChunkInv, InWindow, Preflight, InStep, Ending
<1>5. Stays(e)
  BY <1>1, <1>2, <1>3 DEF Stays, WorldTyped
<1>. QED  BY <1>2, <1>4, <1>5, WindowEffect

LEMMA ExitEffect ==
    ASSUME IInv, NEW e \in Execs, Exit(e) \/ Kill(e), UNCHANGED <<op, scn>>
    PROVE  Effect(e)
<1>1. ProcInv(e)
  BY DEF IInv
<1>2. PICK code : Leave(e, code) /\ code # "running"
  BY DEF Exit, Kill
<1>3. os[e] = "running" /\ UNCHANGED <<file, lease, archive, opLock, tx>>
  BY <1>1 DEF ProcInv, Exit, Kill
<1>. QED  BY <1>2, <1>3, LeaveEffect

(* persist of a record the window may write.                                 *)
LEMMA WriteEffect ==
    ASSUME IInv, NEW e \in Execs, proc[e].pc \in InStep,
           NEW c \in Chunks, NEW status, NEW sig, NEW p, DOMAIN p = DOMAIN proc[e],
           p.bytes = proc[e].bytes,
           [status |-> status, sig |-> sig] \in ChunkRecord,
           file.chunks[c].sig # None => sig = file.chunks[c].sig,
           sig \in {file.chunks[c].sig, e},
           status = "CONFIRMED" => c \in Legacy \cup FinalizedBytes,
           Moves(e, c, status, sig),
           Persist(e, c, status, sig, p),
           UNCHANGED <<lease, archive, opLock, os, tx, op, scn>>
    PROVE  /\ Stays(e)
           /\ Written(e) /\ RecordMoves(e)
           /\ proc'[e].mem = file'
           /\ proc'[e].pc = p.pc
           /\ proc'[e].cur = p.cur
           /\ proc'[e].result = p.result
           /\ proc'[e].bytes \subseteq FinalizedBytes'
           /\ file'.chunks[c] = [status |-> status, sig |-> sig]
           /\ Unresolved(file)' \subseteq Unresolved(file) \cup {c}
           /\ status = "CONFIRMED" => Unresolved(file)' \subseteq Unresolved(file)
<1>1. WorldTyped /\ ProcTyped /\ ProcInv(e) /\ FileTyped(file) /\ proc[e].mem = file
  BY DEF IInv, WorldTyped, ProcInv
<1>2. /\ ProcTyped'
      /\ \A d \in Execs \ {e} : proc'[d] = proc[d]
      /\ proc'[e] = [p EXCEPT !.mem = file']
      /\ status \in CHUNK_TRANSITIONS[file.chunks[c].status]
      /\ FileTyped(file')
      /\ file'.windows = file.windows
      /\ file'.chunks = [file.chunks EXCEPT ![c] = [status |-> status, sig |-> sig]]
  BY <1>1, PersistEffect
<1>3. /\ proc'[e].mem = file' /\ proc'[e].pc = p.pc /\ proc'[e].cur = p.cur
      /\ proc'[e].result = p.result /\ proc'[e].bytes = p.bytes
  BY <1>1, <1>2 DEF ProcTyped
<1>4. Stays(e)
  BY <1>1, <1>2 DEF Stays, WorldTyped
<1>5. file'.chunks[c] = [status |-> status, sig |-> sig]
  BY <1>1, <1>2 DEF FileTyped
<1>6. \A d \in Chunks \ {c} : file'.chunks[d] = file.chunks[d]
  BY <1>1, <1>2 DEF FileTyped
<1>7. Written(e)
  BY <1>1, <1>2, <1>5, <1>6 DEF Written
<1>8. /\ Unresolved(file)' \subseteq Unresolved(file) \cup {c}
      /\ status = "CONFIRMED" => Unresolved(file)' \subseteq Unresolved(file)
  BY <1>5, <1>6 DEF Unresolved, WithStatus
<1>9. RecordMoves(e)
  <2>1. status \in CHUNK_STATUS /\ sig \in Signers \cup {None}
    BY DEF ChunkRecord
  <2>. QED  BY <1>2, <2>1 DEF RecordMoves
<1>. QED  BY <1>1, <1>3, <1>4, <1>5, <1>7, <1>8, <1>9, ClusterView DEF ProcInv

LEMMA SentEffect ==
    ASSUME IInv, NEW e \in Execs, PersistSent(e), UNCHANGED <<op, scn>>
    PROVE  Effect(e)
<1>1. /\ WorldTyped /\ ProcTyped /\ ProcInv(e) /\ EverySendIsRecorded
      /\ FileTyped(file) /\ TxTyped
  BY DEF IInv, WorldTyped
<1>2. /\ proc[e].pc = "persist" /\ InWindow(e) /\ lease # NoLease /\ lease.exec = e
      /\ proc[e].cur \in Chunks /\ file.chunks[proc[e].cur].status = "PLANNED"
      /\ UNCHANGED <<lease, archive, opLock, os, tx, scn, op>>
  BY <1>1 DEF PersistSent, ProcInv, ChunkInv, InWindow
<1>. DEFINE c == proc[e].cur
            p == [proc[e] EXCEPT !.pc = "send"]
<1>3. file.chunks[c].sig = None
  BY <1>1, <1>2 DEF FileTyped, ChunkRecord
<1>4. tx[e][c] = "none"
  BY <1>1, <1>2, UploadAssumption DEF EverySendIsRecorded, Signers
<1>5. [status |-> "SENT", sig |-> e] \in ChunkRecord
  BY UploadAssumption DEF ChunkRecord, CHUNK_STATUS, Signers
<1>6. /\ DOMAIN p = DOMAIN proc[e] /\ p.bytes = proc[e].bytes
      /\ p.pc = "send" /\ p.cur = c
  BY <1>1 DEF ProcTyped
<1>7. Persist(e, c, "SENT", e, p)
  BY DEF PersistSent
<1>. HIDE DEF p
<1>8. Moves(e, c, "SENT", e)
  BY <1>2 DEF Moves
<1>9. /\ Stays(e) /\ Written(e) /\ RecordMoves(e)
      /\ proc'[e].mem = file' /\ proc'[e].pc = "send" /\ proc'[e].cur = c
      /\ proc'[e].bytes \subseteq FinalizedBytes'
      /\ file'.chunks[c] = [status |-> "SENT", sig |-> e]
  BY <1>2, <1>3, <1>5, <1>6, <1>7, <1>8, WriteEffect DEF InStep
<1>10. ProcInv(e)' /\ InWindow(e)'
  BY <1>1, <1>2, <1>4, <1>9
     DEF ProcInv, ChunkInv, InWindow, Preflight, InStep, Ending
<1>. QED  BY <1>2, <1>9, <1>10 DEF Effect, InWindow

LEMMA OutcomeEffect ==
    ASSUME IInv, NEW e \in Execs, RecordOutcome(e), UNCHANGED <<op, scn>>
    PROVE  Effect(e)
<1>1. /\ WorldTyped /\ ProcTyped /\ ProcInv(e) /\ FileTyped(file) /\ TxTyped
  BY DEF IInv, WorldTyped
<1>2. /\ proc[e].pc = "record" /\ InWindow(e) /\ lease # NoLease /\ lease.exec = e
      /\ proc[e].cur \in Chunks
      /\ file.chunks[proc[e].cur] = [status |-> "SENT", sig |-> e]
      /\ proc[e].seen = "finalized" => tx[e][proc[e].cur] = "final"
      /\ proc[e].seen = "err" => tx[e][proc[e].cur] # "none"
      /\ UNCHANGED <<lease, archive, opLock, os, tx, scn, op>>
  BY <1>1 DEF RecordOutcome, ProcInv, ChunkInv, InWindow
<1>. DEFINE c == proc[e].cur
            more == [proc[e] EXCEPT !.pc = "select", !.processed = @ + 1,
                                    !.cur = None, !.seen = None]
            stop(status) == [proc[e] EXCEPT !.pc = "finish",
                     !.result = IF status = "FAILED" THEN "CONFIRMED_FAILURE" ELSE "UNKNOWN"]
<1>3. PICK m :
         Persist(e, c, reconcileChunk(proc[e].seen, m, FALSE), e,
                 IF reconcileChunk(proc[e].seen, m, FALSE) = "CONFIRMED" THEN more
                 ELSE stop(reconcileChunk(proc[e].seen, m, FALSE)))
  BY DEF RecordOutcome
<1>. DEFINE status == reconcileChunk(proc[e].seen, m, FALSE)
            p == IF status = "CONFIRMED" THEN more ELSE stop(status)
<1>4. /\ status \in {"CONFIRMED", "FAILED", "UNKNOWN"}
      /\ status = "CONFIRMED" => proc[e].seen = "finalized"
      /\ status = "FAILED" => proc[e].seen = "err"
  BY DEF reconcileChunk
<1>5. status = "CONFIRMED" => c \in FinalizedBytes
  BY <1>2, <1>4 DEF FinalizedBytes, Signers
<1>6. [status |-> status, sig |-> e] \in ChunkRecord
  BY <1>4, UploadAssumption DEF ChunkRecord, CHUNK_STATUS, Signers
<1>7. /\ DOMAIN more = DOMAIN proc[e] /\ more.bytes = proc[e].bytes /\ more.pc = "select"
  BY <1>1 DEF ProcTyped
<1>8. /\ DOMAIN stop(status) = DOMAIN proc[e] /\ stop(status).bytes = proc[e].bytes
      /\ stop(status).pc = "finish" /\ stop(status).result \in Results
  BY <1>1 DEF ProcTyped, Results
<1>. HIDE DEF more, stop, status
<1>9. Moves(e, c, status, e)
  BY <1>2, <1>4 DEF Moves
<1>10. /\ DOMAIN p = DOMAIN proc[e] /\ p.bytes = proc[e].bytes
      /\ \/ p.pc = "select"
         \/ p.pc = "finish" /\ p.result \in Results
  BY <1>7, <1>8
<1>11. Persist(e, c, status, e, p)
  BY <1>3 DEF status
<1>. HIDE DEF p
<1>12. /\ Stays(e) /\ Written(e) /\ RecordMoves(e)
       /\ proc'[e].mem = file' /\ proc'[e].pc = p.pc /\ proc'[e].result = p.result
       /\ proc'[e].bytes \subseteq FinalizedBytes'
  BY <1>2, <1>5, <1>6, <1>10, <1>11, <1>9, WriteEffect DEF InStep
<1>13. ProcInv(e)' /\ InWindow(e)'
  BY <1>1, <1>2, <1>10, <1>12
     DEF ProcInv, ChunkInv, InWindow, Preflight, InStep, Ending
<1>. QED  BY <1>2, <1>12, <1>13 DEF Effect, InWindow

LEMMA RecoveredEffect ==
    ASSUME IInv, NEW e \in Execs, RecordRecovered(e), UNCHANGED <<op, scn>>
    PROVE  Effect(e)
<1>1. /\ WorldTyped /\ ProcTyped /\ ProcInv(e) /\ FileTyped(file) /\ TxTyped
  BY DEF IInv, WorldTyped
<1>2. /\ proc[e].pc = "rerecord" /\ InWindow(e) /\ lease # NoLease /\ lease.exec = e
      /\ proc[e].cur \in Chunks /\ proc[e].mem = file
      /\ file.chunks[proc[e].cur].status \in {"SENT", "UNKNOWN"}
      /\ Unresolved(file) \subseteq Legacy
      /\ proc[e].seen = "err" => tx[file.chunks[proc[e].cur].sig][proc[e].cur] # "none"
      /\ UNCHANGED <<lease, archive, opLock, os, tx, scn, op>>
  BY <1>1 DEF RecordRecovered, ProcInv, ChunkInv, InWindow, InStep
<1>. DEFINE c == proc[e].cur
            sig == file.chunks[c].sig
            onward == [proc[e] EXCEPT !.pc = "scan", !.next = @ + 1,
                                      !.cur = None, !.seen = None]
            stop(status) == [proc[e] EXCEPT !.pc = "finish",
                     !.result = IF status = "FAILED" THEN "CONFIRMED_FAILURE" ELSE "UNKNOWN"]
<1>3. PICK m \in chunkMatches(c) :
         Persist(e, c, reconcileChunk(proc[e].seen, m, TRUE), sig,
                 IF reconcileChunk(proc[e].seen, m, TRUE) = "CONFIRMED" THEN onward
                 ELSE stop(reconcileChunk(proc[e].seen, m, TRUE)))
  BY <1>2 DEF RecordRecovered
<1>. DEFINE status == reconcileChunk(proc[e].seen, m, TRUE)
            p == IF status = "CONFIRMED" THEN onward ELSE stop(status)
<1>4. /\ status \in {"CONFIRMED", "FAILED", "UNKNOWN"}
      /\ status = "CONFIRMED" => m = TRUE
      /\ status = "FAILED" => proc[e].seen = "err"
  <2>1. m \in BOOLEAN
    BY DEF chunkMatches
  <2>. QED  BY <2>1 DEF reconcileChunk
<1>5. m = TRUE => c \in ConfirmedBytes
  BY DEF chunkMatches
<1>6. c \in Legacy
  BY <1>2 DEF Unresolved, WithStatus
<1>7. Moves(e, c, status, sig)
  BY <1>2, <1>4, <1>6, <1>5 DEF Moves
<1>8. /\ sig # None
      /\ [status |-> status, sig |-> sig] \in ChunkRecord
  BY <1>1, <1>2, <1>4 DEF FileTyped, ChunkRecord, CHUNK_STATUS
<1>9. /\ DOMAIN onward = DOMAIN proc[e] /\ onward.bytes = proc[e].bytes /\ onward.pc = "scan"
  BY <1>1 DEF ProcTyped
<1>10. /\ DOMAIN stop(status) = DOMAIN proc[e] /\ stop(status).bytes = proc[e].bytes
      /\ stop(status).pc = "finish" /\ stop(status).result \in Results
  BY <1>1 DEF ProcTyped, Results
<1>. HIDE DEF onward, stop, status
<1>11. /\ DOMAIN p = DOMAIN proc[e] /\ p.bytes = proc[e].bytes
      /\ \/ p.pc = "scan" /\ status = "CONFIRMED"
         \/ p.pc = "finish" /\ p.result \in Results
  BY <1>9, <1>10
<1>12. Persist(e, c, status, sig, p)
  BY <1>3 DEF status
<1>. HIDE DEF p
<1>13. /\ Stays(e) /\ Written(e) /\ RecordMoves(e)
       /\ proc'[e].mem = file' /\ proc'[e].pc = p.pc /\ proc'[e].result = p.result
       /\ proc'[e].bytes \subseteq FinalizedBytes'
       /\ status = "CONFIRMED" => Unresolved(file)' \subseteq Unresolved(file)
  BY <1>2, <1>6, <1>8, <1>11, <1>12, <1>7, WriteEffect DEF InStep
<1>14. Legacy' = Legacy
  BY <1>2 DEF Legacy
<1>15. ProcInv(e)' /\ InWindow(e)'
  BY <1>1, <1>2, <1>11, <1>13, <1>14
     DEF ProcInv, ChunkInv, InWindow, Preflight, InStep, Ending
<1>. QED  BY <1>2, <1>13, <1>15 DEF Effect, InWindow

LEMMA ScanEffect ==
    ASSUME IInv, NEW e \in Execs, ScanChunk(e), UNCHANGED <<op, scn>>
    PROVE  Effect(e)
<1>1. /\ WorldTyped /\ ProcTyped /\ ProcInv(e) /\ FileTyped(file) /\ TxTyped
  BY DEF IInv, WorldTyped
<1>2. /\ proc[e].pc = "scan" /\ InWindow(e) /\ lease # NoLease /\ lease.exec = e
      /\ proc[e].mem = file /\ proc[e].next \in Chunks
      /\ Unresolved(file) \subseteq Legacy
      /\ UNCHANGED <<lease, archive, opLock, os, tx, scn, op>>
  BY <1>1 DEF ScanChunk, ProcInv, InWindow, InStep
<1>. DEFINE c == proc[e].next
            onward == [proc[e] EXCEPT !.next = c + 1]
<1>3. /\ DOMAIN onward = DOMAIN proc[e] /\ onward.bytes = proc[e].bytes
      /\ onward.pc = "scan" /\ onward.mem = file
  BY <1>1, <1>2 DEF ProcTyped
<1>4. CASE Goto(e, "catch") /\ UNCHANGED file
  <2>1. ProcInv(e)' /\ InWindow(e)'
    BY <1>1, <1>2, <1>4, GotoEffect, ClusterView, FileView
       DEF ProcInv, ChunkInv, InWindow, Preflight, InStep, Ending
  <2>2. Stays(e)
    BY <1>1, <1>2, <1>4, GotoEffect DEF Stays, WorldTyped
  <2>. QED  BY <1>2, <1>4, <2>1, <2>2, WindowEffect
<1>5. CASE /\ proc' = [proc EXCEPT ![e].pc = "finish", ![e].result = "CONFIRMED_FAILURE"]
           /\ UNCHANGED file
  <2>1. /\ ProcTyped'
        /\ \A d \in Execs \ {e} : proc'[d] = proc[d]
        /\ proc'[e].pc = "finish" /\ proc'[e].bytes = proc[e].bytes
        /\ proc'[e].result \in Results
    BY <1>1, <1>5 DEF ProcTyped, Results
  <2>2. ProcInv(e)' /\ InWindow(e)'
    BY <1>1, <1>2, <1>5, <2>1, ClusterView, FileView
       DEF ProcInv, ChunkInv, InWindow, Preflight, InStep, Ending
  <2>3. Stays(e)
    BY <1>1, <1>2, <2>1 DEF Stays, WorldTyped
  <2>. QED  BY <1>2, <1>5, <2>2, <2>3, WindowEffect
<1>6. CASE /\ file.chunks[c].status \in {"SENT", "UNKNOWN"}
           /\ proc' = [proc EXCEPT ![e].pc = "reconfirm", ![e].cur = c]
           /\ UNCHANGED file
  <2>1. /\ ProcTyped'
        /\ \A d \in Execs \ {e} : proc'[d] = proc[d]
        /\ proc'[e].pc = "reconfirm" /\ proc'[e].bytes = proc[e].bytes
        /\ proc'[e].cur = c /\ proc'[e].mem = file
    BY <1>1, <1>2, <1>6 DEF ProcTyped
  <2>2. ProcInv(e)' /\ InWindow(e)'
    BY <1>1, <1>2, <1>6, <2>1, ClusterView, FileView
       DEF ProcInv, ChunkInv, InWindow, Preflight, InStep, Ending
  <2>3. Stays(e)
    BY <1>1, <1>2, <2>1 DEF Stays, WorldTyped
  <2>. QED  BY <1>2, <1>6, <2>2, <2>3, WindowEffect
<1>7. CASE proc' = [proc EXCEPT ![e] = onward] /\ UNCHANGED file
  <2>. HIDE DEF onward
  <2>1. /\ ProcTyped'
        /\ \A d \in Execs \ {e} : proc'[d] = proc[d]
        /\ proc'[e] = onward
    BY <1>1, <1>3, <1>7 DEF ProcTyped
  <2>2. ProcInv(e)' /\ InWindow(e)'
    BY <1>1, <1>2, <1>3, <1>7, <2>1, ClusterView, FileView
       DEF ProcInv, ChunkInv, InWindow, Preflight, InStep, Ending
  <2>3. Stays(e)
    BY <1>1, <1>2, <2>1 DEF Stays, WorldTyped
  <2>. QED  BY <1>2, <1>7, <2>2, <2>3, WindowEffect
<1>8. CASE /\ file.chunks[c].status = "PLANNED" /\ c \in proc[e].bytes
           /\ Persist(e, c, "CONFIRMED", file.chunks[c].sig, onward)
  <2>. DEFINE sig == file.chunks[c].sig
  <2>1. c \in FinalizedBytes
    BY <1>1, <1>8 DEF ProcInv
  <2>2. [status |-> "CONFIRMED", sig |-> sig] \in ChunkRecord
    BY <1>1, <1>2 DEF FileTyped, ChunkRecord, CHUNK_STATUS
  <2>3. sig = None /\ Moves(e, c, "CONFIRMED", sig)
    BY <1>1, <1>2, <1>8, <2>1 DEF Moves, FileTyped, ChunkRecord
  <2>. HIDE DEF onward
  <2>4. /\ Stays(e) /\ Written(e) /\ RecordMoves(e)
        /\ proc'[e].mem = file' /\ proc'[e].pc = "scan"
        /\ proc'[e].bytes \subseteq FinalizedBytes'
        /\ Unresolved(file)' \subseteq Unresolved(file)
    BY <1>2, <1>3, <1>8, <2>1, <2>2, <2>3, WriteEffect DEF InStep
  <2>5. Legacy' = Legacy
    BY <1>2 DEF Legacy
  <2>6. ProcInv(e)' /\ InWindow(e)'
    BY <1>1, <1>2, <2>4, <2>5
       DEF ProcInv, ChunkInv, InWindow, Preflight, InStep, Ending
  <2>. QED  BY <1>2, <2>4, <2>6 DEF Effect, InWindow
<1>. QED  BY <1>2, <1>4, <1>5, <1>6, <1>7, <1>8 DEF ScanChunk

(* The outcome is added to the file as it is.                                *)
LEMMA AppendEffect ==
    ASSUME IInv, NEW e \in Execs, NEW status, status # "NONE", NEW ref, NEW pc,
           proc[e].pc \in {"append", "catchAppend"},
           pc \in {"exitOk", "exitFail"},
           file.windows[e] = NoOutcome,
           file' = WithOutcome(file, e, status, ref),
           Goto(e, pc),
           UNCHANGED <<lease, archive, opLock, os, tx, op, scn>>
    PROVE  Effect(e)
<1>1. WorldTyped /\ ProcTyped /\ ProcInv(e) /\ FileTyped(file)
  BY DEF IInv, WorldTyped
<1>2. InWindow(e) /\ lease # NoLease /\ lease.exec = e
  BY <1>1 DEF ProcInv, InWindow
<1>. DEFINE w == [status |-> status, ref |-> ref, receipt |-> None]
<1>3. /\ DOMAIN file' = {"chunks", "windows"}
      /\ file'.chunks = file.chunks
      /\ file'.windows = [file.windows EXCEPT ![e] = w]
  BY <1>1 DEF FileTyped, WithOutcome
<1>4. DOMAIN w = {"status", "ref", "receipt"} /\ w.status # "NONE"
  OBVIOUS
<1>. HIDE DEF w
<1>5. /\ DOMAIN file'.windows = Execs /\ file'.windows[e] = w
      /\ \A d \in Execs \ {e} : file'.windows[d] = file.windows[d]
  BY <1>1, <1>3 DEF FileTyped
<1>6. FileTyped(file')
  BY <1>1, <1>3, <1>4, <1>5 DEF FileTyped
<1>7. Written(e) /\ RecordMoves(e)
  BY <1>3, <1>5, <1>6 DEF Written, RecordMoves
<1>8. Stays(e)
  BY <1>1, GotoEffect DEF Stays, WorldTyped
<1>9. ProcInv(e)' /\ InWindow(e)'
  BY <1>1, <1>2, GotoEffect, ClusterView
     DEF ProcInv, ChunkInv, InWindow, Preflight, InStep, Ending
<1>. QED  BY <1>2, <1>7, <1>8, <1>9 DEF Effect, InWindow

LEMMA AppendOutcomeEffect ==
    ASSUME IInv, NEW e \in Execs, appendWindowOutcome(e), UNCHANGED <<op, scn>>
    PROVE  Effect(e)
<1>1. ProcInv(e)
  BY DEF IInv
<1>2. proc[e].result # "NONE"
  BY <1>1 DEF appendWindowOutcome, ProcInv, Results
<1>. QED  BY <1>2, AppendEffect DEF appendWindowOutcome

LEMMA CatchAppendEffect ==
    ASSUME IInv, NEW e \in Execs, CatchAppend(e), UNCHANGED <<op, scn>>
    PROVE  Effect(e)
<1>1. WorldTyped /\ ProcTyped /\ ProcInv(e)
  BY DEF IInv
<1>2. /\ proc[e].pc = "catchAppend" /\ InWindow(e) /\ lease # NoLease /\ lease.exec = e
      /\ Goto(e, "exitFail")
      /\ UNCHANGED <<lease, archive, opLock, os, tx, scn, op>>
  BY <1>1 DEF CatchAppend, ProcInv, InWindow
<1>3. CASE UNCHANGED file
  <2>1. ProcInv(e)' /\ InWindow(e)'
    BY <1>1, <1>2, <1>3, GotoEffect, ClusterView, FileView
       DEF ProcInv, ChunkInv, InWindow, Preflight, InStep, Ending
  <2>2. Stays(e)
    BY <1>1, <1>2, GotoEffect DEF Stays, WorldTyped
  <2>. QED  BY <1>2, <1>3, <2>1, <2>2, WindowEffect
<1>4. CASE /\ file.windows[e] = NoOutcome
           /\ file' = WithOutcome(file, e, classifyTerminalError(file), proc[e].ref)
  <2>. DEFINE status == classifyTerminalError(file)
  <2>1. status # "NONE"
    BY DEF classifyTerminalError
  <2>. HIDE DEF status
  <2>. QED  BY <1>2, <1>4, <2>1, AppendEffect DEF status
<1>. QED  BY <1>3, <1>4 DEF CatchAppend

LEMMA SendEffect ==
    ASSUME IInv, NEW e \in Execs, Send(e), UNCHANGED <<op, scn>>
    PROVE  Effect(e)
<1>1. WorldTyped /\ ProcTyped /\ ProcInv(e) /\ TxTyped
  BY DEF IInv, WorldTyped
<1>. DEFINE c == proc[e].cur
<1>2. /\ proc[e].pc = "send" /\ InWindow(e) /\ lease # NoLease /\ lease.exec = e
      /\ c \in Chunks /\ tx[e][c] = "none" /\ proc[e].mem = file
      /\ file.chunks[c] = [status |-> "SENT", sig |-> e]
      /\ lease' = [lease EXCEPT !.sends = TRUE]
      /\ UNCHANGED tx \/ tx' = [tx EXCEPT ![e][c] = "inflight"]
      /\ UNCHANGED <<file, archive, opLock, os, scn, op>>
  BY <1>1 DEF Send, ProcInv, ChunkInv, InWindow, InStep
<1>3. /\ LeaseTyped' /\ lease' # NoLease
      /\ lease'.exec = lease.exec /\ lease'.at = lease.at
  BY <1>1, <1>2, LeaseField DEF WorldTyped
<1>4. FinalizedBytes \subseteq FinalizedBytes'
  BY <1>1, <1>2 DEF TxTyped, FinalizedBytes, Matched, Signers
<1>5. /\ ProcTyped'
      /\ \A d \in Execs \ {e} : proc'[d] = proc[d]
      /\ proc'[e].bytes = proc[e].bytes /\ proc'[e].mem = proc[e].mem
      /\ proc'[e].cur = c
      /\ \/ proc'[e].pc \in {"confirm", "catch"}
         \/ proc'[e].pc = "finish" /\ proc'[e].result \in Results
  <2>1. CASE proc' = [proc EXCEPT ![e].pc = "finish", ![e].result = "RATE_LIMITED"]
    BY <1>1, <2>1 DEF ProcTyped, Results
  <2>2. CASE \E pc \in {"confirm", "catch"} : Goto(e, pc)
    BY <1>1, <2>2, GotoEffect
  <2>. QED  BY <2>1, <2>2 DEF Send
<1>6. ProcInv(e)' /\ InWindow(e)'
  BY <1>1, <1>2, <1>3, <1>4, <1>5, FileView
     DEF ProcInv, ChunkInv, InWindow, Preflight, InStep, Ending
<1>7. Stays(e)
  BY <1>1, <1>2, <1>5 DEF Stays, WorldTyped
<1>8. UNCHANGED tx \/ Submits(e, c)
  BY <1>2 DEF Submits
<1>. QED  BY <1>2, <1>3, <1>6, <1>7, <1>8 DEF Effect, InWindow

LEMMA UploaderEffect ==
    ASSUME IInv, NEW e \in Execs, UploaderStep(e) \/ Throw(e) \/ Kill(e), UNCHANGED <<op, scn>>
    PROVE  Effect(e)
BY BufferEffect, StateEffect, CheckEffect, AcquireEffect, MetadataEffect, CreateEffect,
   LoadEffect, ScanEffect, ScanDoneEffect, SelectSignEffect, SentEffect, SendEffect,
   ConfirmEffect, OutcomeEffect, RecoveredEffect, FinishEffect, AppendOutcomeEffect,
   CatchEffect, TerminalEffect, CatchAppendEffect, ExitEffect, ThrowEffect
   DEF UploaderStep

-------------------------------------------------------------------------------
(* Such a step keeps the invariant                                           *)

LEMMA OneWindow ==
    ASSUME IInv, NEW d \in Execs, NEW e \in Execs, InWindow(d), InWindow(e)
    PROVE  d = e
BY DEF IInv, ProcInv

(* What a command saw final stays so.                                        *)
LEMMA ObservedStays ==
    ASSUME NEW o \in Operators, Observed(o), op'[o] = op[o],
           \A s \in Signers, c \in Chunks : tx[s][c] = "final" => tx'[s][c] = "final"
    PROVE  Observed(o)'
<1>1. op[o].pc \in {"collect", "ready", "locked"} => FileTyped(op[o].state)'
  BY DEF Observed, FileTyped
<1>2. ASSUME op[o].pc \in {"ready", "locked"},
             NEW c \in op[o].obs.final \cap Unresolved(op[o].state)
      PROVE  tx'[op[o].state.chunks[c].sig][c] = "final"
  <2>1. c \in Chunks /\ op[o].state.chunks[c].sig \in Signers
    BY <1>2 DEF Observed, FileTyped, Unresolved, WithStatus, ChunkRecord
  <2>. QED  BY <1>2, <2>1 DEF Observed
<1>3. (Unresolved(op[o].state))' = Unresolved(op[o].state)
  BY DEF Unresolved, WithStatus
<1>. QED  BY <1>1, <1>2, <1>3 DEF Observed

(* A write of the checkpoint leaves the traces of other windows as they are. *)
LEMMA WrittenClean ==
    ASSUME FileTyped(file), NEW e \in Execs, NEW d \in Execs \ {e}, Written(e)
    PROVE  Clean(file, d) => Clean(file', d)
<1>1. \A c \in Chunks : file'.chunks[c].sig \in {file.chunks[c].sig, None, e}
  BY DEF Written
<1>2. d # None
  BY UploadAssumption
<1>. QED  BY <1>1, <1>2 DEF Written, Clean

LEMMA EffectViews ==
    ASSUME IInv, NEW e \in Execs, Effect(e)
    PROVE  /\ TxTyped' /\ Legacy' = Legacy
           /\ FinalizedBytes \subseteq FinalizedBytes'
           /\ \A s \in Signers, c \in Chunks :
                 /\ tx'[s][c] # tx[s][c] => s = e /\ file'.chunks[c] = [status |-> "SENT", sig |-> e]
                 /\ tx[s][c] = "final" => tx'[s][c] = "final"
<1>1. TxTyped /\ scn' = scn
  BY DEF IInv, WorldTyped, Effect, Stays
<1>2. CASE UNCHANGED tx
  BY <1>1, <1>2 DEF TxTyped, Legacy, FinalizedBytes, Matched
<1>3. CASE \E c \in Chunks : Submits(e, c)
  <2>1. PICK c \in Chunks :
             /\ tx[e][c] = "none"
             /\ file.chunks[c] = [status |-> "SENT", sig |-> e]
             /\ tx' = [tx EXCEPT ![e][c] = "inflight"]
             /\ UNCHANGED file
    BY <1>3 DEF Submits
  <2>2. TxTyped' /\ Legacy' = Legacy
    BY <1>1, <2>1 DEF TxTyped, TxState, Legacy
  <2>3. \A s \in Signers, d \in Chunks : tx'[s][d] # tx[s][d] => s = e /\ d = c
    BY <1>1, <2>1 DEF TxTyped
  <2>4. \A s \in Signers, d \in Chunks : tx[s][d] = "final" => tx'[s][d] = "final"
    BY <2>1, <2>3
  <2>5. FinalizedBytes \subseteq FinalizedBytes'
    BY <1>1, <2>4 DEF FinalizedBytes, Matched
  <2>. QED  BY <2>1, <2>2, <2>3, <2>4, <2>5
<1>. QED  BY <1>2, <1>3 DEF Effect

LEMMA EffectTypes ==
    ASSUME IInv, NEW e \in Execs, Effect(e)
    PROVE  WorldTyped' /\ ProcTyped' /\ OpTyped'
<1>1. FileTyped(file)'
  BY DEF IInv, WorldTyped, Effect, Written, FileTyped
<1>2. LeaseTyped'
  BY DEF IInv, WorldTyped, Effect, LeaseTyped
<1>3. TxTyped'
  BY EffectViews
<1>. QED  BY <1>1, <1>2, <1>3 DEF IInv, WorldTyped, OpTyped, Effect, Stays

LEMMA EffectSends ==
    ASSUME IInv, NEW e \in Execs, Effect(e)
    PROVE  EverySendIsRecorded'
<1>. SUFFICES ASSUME NEW s \in Signers, NEW c \in Chunks, tx'[s][c] # "none"
              PROVE  file'.chunks[c].sig = s /\ file'.chunks[c].status # "PLANNED"
  BY DEF EverySendIsRecorded
<1>1. CASE tx'[s][c] # tx[s][c]
  <2>1. s = e /\ file'.chunks[c] = [status |-> "SENT", sig |-> e]
    BY <1>1, EffectViews
  <2>2. file'.chunks[c].sig = e /\ file'.chunks[c].status = "SENT"
    BY <2>1
  <2>. QED  BY <2>1, <2>2
<1>2. CASE tx'[s][c] = tx[s][c]
  <2>1. file.chunks[c].sig = s /\ file.chunks[c].status # "PLANNED"
    BY <1>2 DEF IInv, EverySendIsRecorded
  <2>2. s # None
    BY UploadAssumption DEF Signers
  <2>3. file.chunks[c].status \in CHUNK_STATUS
    BY DEF IInv, WorldTyped, FileTyped, ChunkRecord
  <2>4. CASE file'.chunks[c] = file.chunks[c]
    BY <2>1, <2>4
  <2>5. CASE /\ file'.chunks[c].status \in CHUNK_TRANSITIONS[file.chunks[c].status]
             /\ file.chunks[c].sig # None => file'.chunks[c].sig = file.chunks[c].sig
    BY <2>1, <2>2, <2>3, <2>5, TransitionFacts
  <2>. QED  BY <2>4, <2>5 DEF Effect, Written
<1>. QED  BY <1>1, <1>2

LEMMA EffectConfirmed ==
    ASSUME IInv, NEW e \in Execs, Effect(e)
    PROVE  ConfirmedIsFinal'
<1>. SUFFICES ASSUME NEW c \in Chunks, file'.chunks[c].status = "CONFIRMED", c \notin Legacy'
              PROVE  c \in FinalizedBytes'
  BY DEF ConfirmedIsFinal, Confirmed, WithStatus
<1>1. Legacy' = Legacy /\ FinalizedBytes \subseteq FinalizedBytes'
  BY EffectViews
<1>2. CASE file.chunks[c].status = "CONFIRMED"
  BY <1>1, <1>2 DEF IInv, ConfirmedIsFinal, Confirmed, WithStatus
<1>3. CASE file.chunks[c].status # "CONFIRMED"
  BY <1>1, <1>3 DEF Effect, Written
<1>. QED  BY <1>2, <1>3

LEMMA EffectPending ==
    ASSUME IInv, NEW e \in Execs, Effect(e)
    PROVE  NothingPendingWithoutLease'
<1>. SUFFICES ASSUME lease' = NoLease
              PROVE  Unresolved(file)' \subseteq Legacy'
  BY DEF NothingPendingWithoutLease
<1>1. lease = NoLease /\ ~InWindow(e)
  BY DEF IInv, ProcInv, Effect
<1>2. Unresolved(file)' = Unresolved(file) /\ Legacy' = Legacy
  BY <1>1, EffectViews DEF Effect, Unresolved, WithStatus
<1>. QED  BY <1>1, <1>2 DEF IInv, NothingPendingWithoutLease

LEMMA EffectOthers ==
    ASSUME IInv, NEW e \in Execs, Effect(e), NEW d \in Execs \ {e}
    PROVE  ProcInv(d)'
<1>1. /\ proc'[d] = proc[d] /\ os'[d] = os[d] /\ ProcInv(d) /\ FileTyped(file)
      /\ (InWindow(d)' <=> InWindow(d))
  BY DEF IInv, WorldTyped, Effect, Stays, InWindow
<1>2. /\ FinalizedBytes \subseteq FinalizedBytes' /\ Legacy' = Legacy
      /\ \A c \in Chunks : tx'[d][c] = tx[d][c]
  BY EffectViews DEF Signers
<1>3. CASE InWindow(d)
  <2>1. lease # NoLease /\ ~InWindow(e)
    BY <1>1, <1>3, OneWindow DEF ProcInv
  <2>2. UNCHANGED <<file, lease, tx>>
    BY <2>1 DEF Effect
  <2>. QED  BY <1>1, <1>2, <1>3, <2>2, FileView
            DEF ProcInv, ChunkInv, InWindow, Preflight, InStep, Ending
<1>4. CASE ~InWindow(d)
  <2>1. Clean(file, d) => Clean(file, d)'
    BY <1>1, WrittenClean, FileView DEF Effect
  <2>2. (Clean(proc[d].pre, d))' <=> Clean(proc[d].pre, d)
    BY <1>1 DEF Clean
  <2>. QED  BY <1>1, <1>2, <1>4, <2>1, <2>2
            DEF ProcInv, ChunkInv, InWindow, Preflight, InStep, Ending
<1>. QED  BY <1>3, <1>4

LEMMA EffectLease ==
    ASSUME IInv, NEW e \in Execs, Effect(e)
    PROVE  LeaseInv'
<1>. SUFFICES ASSUME lease' # NoLease
              PROVE  /\ Clean(lease'.at, lease'.exec)
                     /\ InWindow(lease.exec)' \/ proc'[lease'.exec].pc = "ended"
  BY DEF LeaseInv, Clean
<1>1. CASE lease = NoLease
  <2>1. lease'.exec = e /\ Clean(lease'.at, e) /\ InWindow(e)'
    BY <1>1 DEF Effect, IInv, ProcInv
  <2>. QED  BY <2>1 DEF InWindow
<1>2. CASE lease # NoLease
  <2>. DEFINE x == lease.exec
  <2>1. /\ x \in Execs /\ Clean(lease.at, x)
        /\ InWindow(x) \/ proc[x].pc = "ended"
    BY <1>2 DEF IInv, WorldTyped, LeaseTyped, LeaseInv
  <2>2. lease'.exec = x /\ lease'.at = lease.at
    BY <1>2 DEF Effect
  <2>3. (InWindow(x) => proc'[x].pc \notin {"idle", "buffered", "validated", "checked"})
        /\ (proc[x].pc = "ended" => proc'[x].pc = "ended")
    BY <2>1 DEF Effect, Stays, InWindow
  <2>. QED  BY <2>1, <2>2, <2>3 DEF InWindow
<1>. QED  BY <1>1, <1>2

LEMMA EffectOperators ==
    ASSUME IInv, NEW e \in Execs, Effect(e), NEW o \in Operators
    PROVE  OpInv(o)'
<1>1. OpInv(o) /\ UNCHANGED <<op, opLock>> /\ FinalizedBytes \subseteq FinalizedBytes'
  BY EffectViews DEF IInv, Effect, Stays
<1>2. Observed(o)'
  <2>1. \A s \in Signers, c \in Chunks : tx[s][c] = "final" => tx'[s][c] = "final"
    BY EffectViews
  <2>. QED  BY <1>1, <2>1, ObservedStays DEF OpInv
<1>3. CASE Deciding(o)
  <2>1. /\ lease # NoLease /\ lease.exec = op[o].exec /\ proc[op[o].exec].pc = "ended"
        /\ op[o].exec \in Execs
    BY <1>1, <1>3 DEF OpInv, Deciding
  <2>2. e # op[o].exec /\ ~InWindow(e)
    BY <2>1 DEF Effect, IInv, ProcInv
  <2>3. UNCHANGED <<file, lease>> /\ proc'[op[o].exec] = proc[op[o].exec]
    BY <2>1, <2>2 DEF Effect, Stays
  <2>4. op[o].pc = "applied" =>
           /\ FileTyped(op[o].saved)'
           /\ Applied(op[o].saved, file)'
    BY <1>1, <2>3 DEF OpInv, FileTyped, Applied
  <2>5. /\ Unresolved(file)' = Unresolved(file)
        /\ (Clean(file, op[o].exec)' <=> Clean(file, op[o].exec))
    BY <1>1, <2>3 DEF Unresolved, WithStatus, Clean
  <2>. QED  BY <1>1, <1>2, <2>1, <2>3, <2>4, <2>5 DEF OpInv, Deciding
<1>4. CASE ~Deciding(o)
  BY <1>1, <1>4, <1>2 DEF OpInv, Deciding
<1>. QED  BY <1>3, <1>4

LEMMA EffectArchive ==
    ASSUME IInv, NEW e \in Execs, Effect(e), NEW d \in Execs
    PROVE  ArchiveInv(d)'
<1>. SUFFICES ASSUME archive'[d] # NoArchive
              PROVE  ArchiveInv(d)'
  BY DEF ArchiveInv
<1>1. ArchiveInv(d) /\ archive'[d] = archive[d]
  BY DEF IInv, Effect, Stays
<1>2. proc[d].pc = "ended" /\ d # e /\ proc'[d] = proc[d]
  BY <1>1 DEF ArchiveInv, Effect, Stays
<1>3. file'.windows[d] = file.windows[d]
  BY <1>2 DEF Effect, Written
<1>4. Clean(file, d) => Clean(file, d)'
  BY <1>2, WrittenClean, FileView DEF Effect, IInv, WorldTyped
<1>. QED  BY <1>1, <1>2, <1>3, <1>4 DEF ArchiveInv

LEMMA UploaderKeeps ==
    ASSUME IInv, NEW e \in Execs, UploaderStep(e) \/ Throw(e) \/ Kill(e), UNCHANGED <<op, scn>>
    PROVE  IInv'
<1>1. Effect(e)
  BY UploaderEffect
<1>2. \A d \in Execs : ProcInv(d)'
  BY <1>1, EffectOthers DEF Effect
<1>3. WorldTyped' /\ ProcTyped' /\ OpTyped'
  BY <1>1, EffectTypes
<1>4. EverySendIsRecorded' /\ ConfirmedIsFinal' /\ NothingPendingWithoutLease' /\ LeaseInv'
  BY <1>1, EffectSends, EffectConfirmed, EffectPending, EffectLease
<1>5. (\A o \in Operators : OpInv(o)') /\ (\A d \in Execs : ArchiveInv(d)')
  BY <1>1, EffectOperators, EffectArchive
<1>. QED  BY <1>2, <1>3, <1>4, <1>5 DEF IInv

-------------------------------------------------------------------------------
(* The cluster                                                               *)

LEMMA ClusterEffect ==
    ASSUME IInv, ClusterNext, UNCHANGED scn
    PROVE  /\ TxTyped' /\ UNCHANGED <<file, lease, archive, opLock, os>>
           /\ \A s \in Signers, c \in Chunks :
                 /\ tx'[s][c] = "none" <=> tx[s][c] = "none"
                 /\ tx[s][c] = "final" => tx'[s][c] = "final"
           /\ FinalizedBytes \subseteq FinalizedBytes'
<1>1. TxTyped
  BY DEF IInv, WorldTyped
<1>2. PICK s \in Signers, c \in Chunks, from \in SUBSET (TxState \ {"none", "final"}),
           to \in TxState \ {"none"} : SetTx(s, c, from, to)
  BY DEF ClusterNext, Land, Error, Finalize, FinalizeError, Fork, Expire, TxState
<1>3. /\ tx[s][c] \notin {"none", "final"}
      /\ tx' = [tx EXCEPT ![s][c] = to]
      /\ UNCHANGED <<file, lease, archive, opLock, os>>
  BY <1>2 DEF SetTx
<1>4. TxTyped'
  BY <1>1, <1>3 DEF TxTyped
<1>5. \A r \in Signers, d \in Chunks :
         tx'[r][d] = IF r = s /\ d = c THEN to ELSE tx[r][d]
  BY <1>1, <1>3 DEF TxTyped
<1>6. \A r \in Signers, d \in Chunks :
         /\ tx'[r][d] = "none" <=> tx[r][d] = "none"
         /\ tx[r][d] = "final" => tx'[r][d] = "final"
  BY <1>3, <1>5
<1>7. FinalizedBytes \subseteq FinalizedBytes'
  BY <1>6 DEF FinalizedBytes, Matched
<1>. QED  BY <1>3, <1>4, <1>6, <1>7

LEMMA ClusterKeeps ==
    ASSUME IInv, ClusterNext, UNCHANGED <<proc, op, scn>>
    PROVE  IInv'
<1>1. /\ TxTyped' /\ UNCHANGED <<file, lease, archive, opLock, os, proc, op, scn>>
      /\ \A s \in Signers, c \in Chunks :
            /\ tx'[s][c] = "none" <=> tx[s][c] = "none"
            /\ tx[s][c] = "final" => tx'[s][c] = "final"
      /\ FinalizedBytes \subseteq FinalizedBytes' /\ Legacy' = Legacy
  BY ClusterEffect DEF Legacy
<1>2. WorldTyped' /\ ProcTyped' /\ OpTyped'
  BY <1>1 DEF IInv, WorldTyped, ProcTyped, OpTyped, FileTyped, LeaseTyped
<1>3. EverySendIsRecorded'
  BY <1>1 DEF IInv, EverySendIsRecorded
<1>4. ConfirmedIsFinal'
  BY <1>1 DEF IInv, ConfirmedIsFinal, Confirmed, WithStatus
<1>5. NothingPendingWithoutLease'
  BY <1>1, FileView DEF IInv, NothingPendingWithoutLease
<1>6. ASSUME NEW e \in Execs  PROVE ProcInv(e)'
  <2>1. ProcInv(e) /\ e \in Signers
    BY DEF IInv, Signers
  <2>2. (Clean(proc[e].pre, e))' <=> Clean(proc[e].pre, e)
    BY <1>1 DEF Clean
  <2>3. \A c \in Chunks : file.chunks[c].status \in {"SENT", "UNKNOWN"} =>
                           file.chunks[c].sig \in Signers
    BY DEF IInv, WorldTyped, FileTyped, ChunkRecord
  <2>4. ChunkInv(e)'
    BY <1>1, <2>1, <2>3 DEF ProcInv, ChunkInv
  <2>. QED  BY <1>1, <2>1, <2>2, <2>4, FileView DEF ProcInv, InWindow
<1>7. LeaseInv'
  BY <1>1 DEF IInv, LeaseInv, Clean, InWindow
<1>8. ASSUME NEW o \in Operators  PROVE OpInv(o)'
  <2>1. OpInv(o)
    BY DEF IInv
  <2>2. /\ FileTyped(op[o].saved)' <=> FileTyped(op[o].saved)
        /\ Applied(op[o].saved, file)' <=> Applied(op[o].saved, file)
        /\ Clean(file, op[o].exec)' <=> Clean(file, op[o].exec)
        /\ Unresolved(file)' = Unresolved(file)
    BY <1>1 DEF FileTyped, Applied, Clean, Unresolved, WithStatus
  <2>3. Observed(o)'
    BY <1>1, <2>1, ObservedStays DEF OpInv
  <2>. QED  BY <1>1, <2>1, <2>2, <2>3 DEF OpInv, Deciding
<1>9. ASSUME NEW e \in Execs  PROVE ArchiveInv(e)'
  BY <1>1, FileView DEF IInv, ArchiveInv
<1>. QED  BY <1>2, <1>3, <1>4, <1>5, <1>6, <1>7, <1>8, <1>9 DEF IInv

-------------------------------------------------------------------------------
(* The lease commands                                                        *)

CommandOnly(o) == OpTyped' /\ \A r \in Operators \ {o} : op'[r] = op[r]

(* A step that changes nothing but the command itself and perhaps the lock.  *)
LEMMA QuietCommand ==
    ASSUME IInv, NEW o \in Operators, CommandOnly(o), OpInv(o)',
           opLock' = opLock \/ opLock \in {None, o},
           UNCHANGED <<file, lease, archive, os, tx, proc, scn>>
    PROVE  IInv'
<1>1. WorldTyped' /\ ProcTyped' /\ OpTyped'
  BY DEF IInv, WorldTyped, ProcTyped, CommandOnly, FileTyped, LeaseTyped, TxTyped
<1>2. FinalizedBytes' = FinalizedBytes /\ Legacy' = Legacy
  BY ClusterView
<1>3. EverySendIsRecorded' /\ ConfirmedIsFinal' /\ NothingPendingWithoutLease'
  BY <1>2, FileView DEF IInv, EverySendIsRecorded, ConfirmedIsFinal, Confirmed, WithStatus,
                        NothingPendingWithoutLease
<1>4. ASSUME NEW e \in Execs  PROVE ProcInv(e)'
  <2>1. ProcInv(e)
    BY DEF IInv
  <2>2. (Clean(proc[e].pre, e))' <=> Clean(proc[e].pre, e)
    BY DEF Clean
  <2>. QED  BY <1>2, <2>1, <2>2, FileView DEF ProcInv, ChunkInv, InWindow
<1>5. LeaseInv'
  BY DEF IInv, LeaseInv, Clean, InWindow
<1>6. ASSUME NEW r \in Operators  PROVE OpInv(r)'
  <2>1. CASE r # o
    <3>1. OpInv(r) /\ op'[r] = op[r] /\ (opLock = r => opLock' = r)
      BY <2>1, UploadAssumption DEF IInv, CommandOnly
    <3>2. /\ FileTyped(op[r].saved)' <=> FileTyped(op[r].saved)
          /\ Applied(op[r].saved, file)' <=> Applied(op[r].saved, file)
          /\ Clean(file, op[r].exec)' <=> Clean(file, op[r].exec)
          /\ Unresolved(file)' = Unresolved(file)
      BY <3>1 DEF FileTyped, Applied, Clean, Unresolved, WithStatus
    <3>3. Observed(r)'
      BY <3>1, ObservedStays DEF OpInv
    <3>. QED  BY <1>2, <3>1, <3>2, <3>3 DEF OpInv, Deciding
  <2>. QED  BY <2>1
<1>7. ASSUME NEW e \in Execs  PROVE ArchiveInv(e)'
  BY FileView DEF IInv, ArchiveInv
<1>. QED  BY <1>1, <1>3, <1>4, <1>5, <1>6, <1>7 DEF IInv

LEMMA DoneEffect ==
    ASSUME IInv, NEW o \in Operators, NEW hash, Done(o, hash)
    PROVE  CommandOnly(o) /\ op'[o].pc = "idle" /\ OpInv(o)'
<1>1. CommandOnly(o) /\ op'[o].pc = "idle"
  BY DEF IInv, OpTyped, CommandOnly, Done, NewOp
<1>. QED  BY <1>1 DEF OpInv, Deciding, Observed

LEMMA StartKeeps ==
    ASSUME IInv, NEW o \in Operators, NEW cmd, NEW e \in Execs, StartCommand(o, cmd, e),
           UNCHANGED <<proc, scn>>
    PROVE  IInv'
<1>1. /\ op' = [op EXCEPT ![o].pc = "collect", ![o].cmd = cmd, ![o].exec = e, ![o].state = file]
      /\ UNCHANGED <<file, lease, archive, opLock, os, tx, proc, scn>>
  BY DEF StartCommand, worldVars
<1>2. /\ CommandOnly(o) /\ op'[o].pc = "collect" /\ op'[o].exec = e
      /\ op'[o].state = file
  BY <1>1 DEF IInv, OpTyped, CommandOnly
<1>3. FileTyped(file)
  BY DEF IInv, WorldTyped
<1>4. OpInv(o)'
  BY <1>2, <1>3 DEF OpInv, Deciding, Observed, FileTyped
<1>. QED  BY <1>1, <1>2, <1>4, QuietCommand

LEMMA ObserveKeeps ==
    ASSUME IInv, NEW o \in Operators, ObserveCluster(o), UNCHANGED <<proc, scn>>
    PROVE  IInv'
<1>1. PICK obs :
        /\ obs = Observation(op[o].state, op[o].exec)
        /\ op' = [op EXCEPT ![o].pc = "ready", ![o].obs = obs]
  BY DEF ObserveCluster
<1>2. /\ op[o].pc = "collect"
      /\ UNCHANGED <<file, lease, archive, opLock, os, tx, proc, scn>>
  BY DEF ObserveCluster, worldVars
<1>3. /\ obs.bytes = FinalizedBytes
      /\ \A c \in obs.final : tx[op[o].state.chunks[c].sig][c] = "final"
  BY <1>1 DEF Observation
<1>4. /\ CommandOnly(o) /\ op'[o].pc = "ready"
      /\ op'[o].exec = op[o].exec /\ op'[o].obs = obs /\ op'[o].state = op[o].state
  BY <1>1 DEF IInv, OpTyped, CommandOnly
<1>5. Observed(o)'
  <2>1. FileTyped(op[o].state)
    BY <1>2 DEF IInv, OpInv, Observed
  <2>2. FileTyped(op[o].state)'
    BY <1>4, <2>1 DEF FileTyped
  <2>. QED  BY <1>2, <1>3, <1>4, <2>2 DEF Observed
<1>6. op[o].exec \in Execs
  BY <1>2 DEF IInv, OpInv
<1>7. OpInv(o)'
  BY <1>2, <1>3, <1>4, <1>6, <1>5, ClusterView DEF OpInv, Deciding
<1>. QED  BY <1>2, <1>4, <1>7, QuietCommand

LEMMA LockKeeps ==
    ASSUME IInv, NEW o \in Operators, acquireOperationLock(o), UNCHANGED <<proc, scn>>
    PROVE  IInv'
<1>1. op[o].pc = "ready" /\ UNCHANGED <<file, lease, archive, os, tx, proc, scn>>
  BY DEF acquireOperationLock
<1>2. CASE opLock = None /\ opLock' = o /\ op' = [op EXCEPT ![o].pc = "locked"]
  <2>1. /\ CommandOnly(o) /\ op'[o].pc = "locked"
        /\ op'[o].exec = op[o].exec /\ op'[o].obs = op[o].obs
        /\ op'[o].state = op[o].state
    BY <1>2 DEF IInv, OpTyped, CommandOnly
  <2>2. OpInv(o)
    BY DEF IInv
  <2>3. Observed(o)'
    <3>1. FileTyped(op[o].state)'
      BY <1>1, <2>1, <2>2 DEF OpInv, Observed, FileTyped
    <3>2. (Unresolved(op[o].state))' = Unresolved(op[o].state)
      BY <2>1 DEF Unresolved, WithStatus
    <3>. QED  BY <1>1, <2>1, <2>2, <3>1, <3>2 DEF OpInv, Observed
  <2>4. OpInv(o)'
    BY <1>1, <1>2, <2>1, <2>2, <2>3, ClusterView DEF OpInv, Deciding
  <2>. QED  BY <1>1, <1>2, <2>1, <2>4, QuietCommand
<1>3. CASE Done(o, op[o].hash) /\ UNCHANGED opLock
  BY <1>1, <1>3, DoneEffect, QuietCommand
<1>. QED  BY <1>2, <1>3 DEF acquireOperationLock

LEMMA RefreshKeeps ==
    ASSUME IInv, NEW o \in Operators, RefreshInput(o), UNCHANGED <<proc, scn>>
    PROVE  IInv'
<1>1. PICK obs :
        op' = [op EXCEPT ![o].pc = "refreshed", ![o].state = file, ![o].obs = obs]
  BY DEF RefreshInput
<1>2. /\ op[o].pc = "locked"
      /\ UNCHANGED <<file, lease, archive, opLock, os, tx, proc, scn>>
  BY DEF RefreshInput, Locked, worldVars
<1>3. CommandOnly(o) /\ op'[o].pc = "refreshed" /\ op'[o].exec = op[o].exec
  BY <1>1 DEF IInv, OpTyped, CommandOnly
<1>4. OpInv(o)
  BY DEF IInv
<1>5. OpInv(o)'
  BY <1>2, <1>3, <1>4 DEF OpInv, Deciding, Observed
<1>. QED  BY <1>2, <1>3, <1>5, QuietCommand

LEMMA EndKeeps ==
    ASSUME IInv, NEW o \in Operators, UNCHANGED <<proc, scn>>,
           \/ reconcileUploadLease(o)
           \/ reconcilePreSelectionUploadLease(o)
           \/ Refuse(o)
           \/ KillCommand(o)
    PROVE  IInv'
<1>1. CASE reconcileUploadLease(o) \/ reconcilePreSelectionUploadLease(o)
  <2>1. /\ \E hash : Done(o, hash)
        /\ UNCHANGED <<file, lease, archive, opLock, os, tx, proc, scn>>
    BY <1>1 DEF reconcileUploadLease, reconcilePreSelectionUploadLease, worldVars
  <2>. QED  BY <2>1, DoneEffect, QuietCommand
<1>2. CASE Refuse(o)
  <2>1. /\ Done(o, op[o].hash)
        /\ op[o].pc \in {"locked", "refreshed"}
        /\ UNCHANGED <<file, lease, archive, os, tx, proc, scn>>
    BY <1>2 DEF Refuse, EndLocked, Locked
  <2>2. opLock = o
    BY <2>1 DEF IInv, OpInv
  <2>. QED  BY <2>1, <2>2, DoneEffect, QuietCommand
<1>3. CASE KillCommand(o)
  <2>1. /\ CommandOnly(o) /\ op'[o].pc = "dead"
        /\ UNCHANGED <<file, lease, archive, opLock, os, tx, proc, scn>>
    BY <1>3 DEF KillCommand, worldVars, IInv, OpTyped, CommandOnly, NewOp
  <2>2. OpInv(o)'
    BY <2>1 DEF OpInv, Deciding, Observed
  <2>. QED  BY <2>1, <2>2, QuietCommand
<1>. QED  BY <1>1, <1>2, <1>3

(* Where the lease belongs to a window that has ended, no window runs.       *)
LEMMA NobodyInWindow ==
    ASSUME IInv, lease # NoLease, proc[lease.exec].pc = "ended"
    PROVE  \A e \in Execs : ~InWindow(e)
BY DEF IInv, ProcInv, InWindow

(* The holder of the operation lock decides alone.                           *)
LEMMA OtherCommands ==
    ASSUME IInv, NEW o \in Operators, opLock = o, CommandOnly(o), UNCHANGED <<tx, scn>>,
           NEW r \in Operators \ {o}
    PROVE  OpInv(r)'
<1>1. OpInv(r) /\ op'[r] = op[r] /\ op[r].pc \notin {"locked", "refreshed", "applied", "receipt"}
  BY DEF IInv, CommandOnly, OpInv
<1>2. Observed(r)'
  BY <1>1, ObservedStays DEF OpInv
<1>. QED  BY <1>1, <1>2, ClusterView DEF OpInv, Deciding

LEMMA IdleProcs ==
    ASSUME IInv, \A e \in Execs : ~InWindow(e), UNCHANGED <<proc, os, tx, scn>>,
           NEW e \in Execs, Clean(file, e) => Clean(file, e)'
    PROVE  ProcInv(e)'
<1>1. ProcInv(e) /\ ~InWindow(e)
  BY DEF IInv
<1>2. (Clean(proc[e].pre, e))' <=> Clean(proc[e].pre, e)
  BY DEF Clean
<1>. QED  BY <1>1, <1>2, ClusterView
          DEF ProcInv, ChunkInv, InWindow, Preflight, InStep, Ending

(* What a fresh SAFE_TO_RELEASE says.                                        *)
LEMMA ReconcileFacts ==
    ASSUME IInv, NEW o \in Operators, op[o].pc = "locked",
           NEW q, q = reconcileAtDirectory(o, lease), q # None
    PROVE  /\ lease # NoLease /\ lease.exec = op[o].exec /\ op[o].exec \in Execs
           /\ proc[op[o].exec].pc = "ended"
           /\ file.windows[op[o].exec] # NoOutcome
           /\ q.kind = "release"
           /\ q.proposed = ProposedTransitions(file)
           /\ DOMAIN q.proposed = Unresolved(file)
           /\ Unresolved(file) \subseteq FinalizedBytes
           /\ \A c \in Unresolved(file) : tx[file.chunks[c].sig][c] = "final"
<1>1. /\ SafeToRelease(o, lease)
      /\ q = Evidence(op[o].exec, file, lease, op[o].obs.bytes,
                      reconciliationProofRecords(file, op[o].exec))
  BY DEF reconcileAtDirectory
<1>2. /\ lease # NoLease /\ lease.exec = op[o].exec /\ os[op[o].exec] # "running"
      /\ file.windows[op[o].exec] # NoOutcome
      /\ DOMAIN reconciliationProofRecords(file, op[o].exec) \subseteq
            op[o].obs.final \cap op[o].obs.bytes
      /\ op[o].state = file
  BY <1>1 DEF SafeToRelease, processIsActive
<1>3. op[o].exec \in Execs /\ op[o].obs.bytes \subseteq FinalizedBytes /\ Observed(o)
  BY DEF IInv, OpInv
<1>4. proc[op[o].exec].pc = "ended"
  <2>1. InWindow(lease.exec) \/ proc[lease.exec].pc = "ended"
    BY <1>2 DEF IInv, LeaseInv
  <2>2. ~InWindow(op[o].exec)
    BY <1>2, <1>3 DEF IInv, ProcInv, InWindow
  <2>. QED  BY <1>2, <2>1, <2>2
<1>5. q.kind = "release" /\ q.proposed = ProposedTransitions(file)
  BY <1>1 DEF Evidence
<1>6. DOMAIN ProposedTransitions(file) = Unresolved(file)
  BY DEF ProposedTransitions
<1>7. Unresolved(file) \subseteq op[o].obs.final \cap op[o].obs.bytes
  BY <1>2, <1>6 DEF reconciliationProofRecords
<1>8. \A c \in Unresolved(file) : tx[file.chunks[c].sig][c] = "final"
  BY <1>2, <1>3, <1>7 DEF Observed
<1>. QED  BY <1>2, <1>3, <1>4, <1>5, <1>6, <1>7, <1>8

(* A write of the checkpoint by a lease command.                             *)
CommandWritten ==
    /\ FileTyped(file')
    /\ \A c \in Chunks :
          \/ file'.chunks[c] = file.chunks[c]
          \/ /\ file'.chunks[c].sig = file.chunks[c].sig
             /\ file'.chunks[c].status # "PLANNED"
             /\ file'.chunks[c].status = "CONFIRMED" => c \in FinalizedBytes
    /\ \A e \in Execs :
          \/ file'.windows[e] = file.windows[e]
          \/ file'.windows[e] # NoOutcome /\ file.windows[e] # NoOutcome

LEMMA CommandWriteKeeps ==
    ASSUME IInv, NEW o \in Operators, CommandOnly(o), opLock = o, OpInv(o)',
           lease # NoLease, proc[lease.exec].pc = "ended",
           CommandWritten, UNCHANGED <<lease, archive, os, tx, proc, scn>>
    PROVE  IInv'
<1>1. WorldTyped' /\ ProcTyped' /\ OpTyped'
  BY DEF IInv, WorldTyped, ProcTyped, CommandOnly, FileTyped, LeaseTyped, TxTyped,
         CommandWritten
<1>2. FinalizedBytes' = FinalizedBytes /\ Legacy' = Legacy
  BY ClusterView
<1>3. EverySendIsRecorded'
  BY DEF IInv, EverySendIsRecorded, CommandWritten
<1>4. ConfirmedIsFinal'
  BY <1>2 DEF IInv, ConfirmedIsFinal, Confirmed, WithStatus, CommandWritten
<1>5. NothingPendingWithoutLease' /\ LeaseInv'
  BY DEF IInv, NothingPendingWithoutLease, LeaseInv, Clean, InWindow
<1>6. ASSUME NEW e \in Execs  PROVE Clean(file, e) => Clean(file, e)'
  BY DEF Clean, CommandWritten
<1>7. \A e \in Execs : ProcInv(e)'
  BY <1>6, NobodyInWindow, IdleProcs
<1>8. \A r \in Operators : OpInv(r)'
  BY OtherCommands
<1>9. ASSUME NEW e \in Execs  PROVE ArchiveInv(e)'
  BY <1>6 DEF IInv, ArchiveInv, CommandWritten
<1>. QED  BY <1>1, <1>3, <1>4, <1>5, <1>7, <1>8, <1>9 DEF IInv

(* What an apply makes of the checkpoint.                                    *)
LEMMA ApplyEffect ==
    ASSUME IInv, NEW o \in Operators, applyUploadReconciliation(o)
    PROVE  /\ CommandWritten /\ Applied(file, file')
           /\ lease # NoLease /\ lease.exec = op[o].exec /\ op[o].exec \in Execs
           /\ proc[op[o].exec].pc = "ended"
           /\ Unresolved(file) # {}
           /\ \A c \in Unresolved(file) : tx[file.chunks[c].sig][c] = "final"
           /\ file'.chunks = [c \in Chunks |->
                 IF c \in Unresolved(file)
                 THEN [status |-> "CONFIRMED", sig |-> file.chunks[c].sig] ELSE file.chunks[c]]
<1>. DEFINE e == op[o].exec
            q == reconcileAtDirectory(o, lease)
<1>1. op[o].pc = "locked" /\ q # None /\ q = op[o].hash /\ DOMAIN q.proposed # {}
  BY DEF applyUploadReconciliation, Locked, Applicable
<1>2. /\ lease # NoLease /\ lease.exec = e /\ e \in Execs
      /\ proc[e].pc = "ended" /\ file.windows[e] # NoOutcome
      /\ DOMAIN q.proposed = Unresolved(file) /\ Unresolved(file) \subseteq FinalizedBytes
      /\ \A c \in Unresolved(file) : tx[file.chunks[c].sig][c] = "final"
  BY <1>1, ReconcileFacts
<1>3. FileTyped(file)
  BY DEF IInv, WorldTyped
<1>4. PICK receipt :
        file' = [file EXCEPT
              !.chunks = [c \in Chunks |->
                  IF c \in Unresolved(file) THEN [@[c] EXCEPT !.status = "CONFIRMED"] ELSE @[c]],
              !.windows[e].receipt = receipt]
  <2>1. DOMAIN op[o].hash.proposed = Unresolved(file)
    BY <1>1, <1>2
  <2>. QED  BY <2>1 DEF applyUploadReconciliation
<1>. DEFINE chunks == [c \in Chunks |-> IF c \in Unresolved(file)
                                        THEN [file.chunks[c] EXCEPT !.status = "CONFIRMED"]
                                        ELSE file.chunks[c]]
<1>5. /\ DOMAIN file' = {"chunks", "windows"}
      /\ file'.chunks = chunks
      /\ file'.windows = [file.windows EXCEPT ![e].receipt = receipt]
  BY <1>3, <1>4 DEF FileTyped
<1>6. ASSUME NEW c \in Chunks
      PROVE  /\ file'.chunks[c] \in ChunkRecord
             /\ \/ file'.chunks[c] = file.chunks[c]
                \/ /\ c \in Unresolved(file)
                   /\ file'.chunks[c].status = "CONFIRMED"
                   /\ file'.chunks[c].sig = file.chunks[c].sig
  <2>1. file.chunks[c] \in ChunkRecord
    BY <1>3 DEF FileTyped
  <2>2. CASE c \in Unresolved(file)
    <3>1. file'.chunks[c] = [file.chunks[c] EXCEPT !.status = "CONFIRMED"]
      BY <1>5, <2>2
    <3>2. file'.chunks[c] = [status |-> "CONFIRMED", sig |-> file.chunks[c].sig]
      BY <2>1, <3>1 DEF ChunkRecord
    <3>. QED  BY <2>1, <2>2, <3>2 DEF ChunkRecord, CHUNK_STATUS
  <2>3. CASE c \notin Unresolved(file)
    BY <1>5, <2>1, <2>3
  <2>. QED  BY <2>2, <2>3
<1>7. file'.chunks \in [Chunks -> ChunkRecord]
  BY <1>5, <1>6
<1>8. /\ DOMAIN file'.windows = Execs
      /\ \A d \in Execs \ {e} : file'.windows[d] = file.windows[d]
      /\ file'.windows[e] = [file.windows[e] EXCEPT !.receipt = receipt]
  BY <1>2, <1>3, <1>5 DEF FileTyped
<1>9. /\ DOMAIN file'.windows[e] = {"status", "ref", "receipt"}
      /\ file'.windows[e].status = file.windows[e].status
      /\ file'.windows[e].ref = file.windows[e].ref
      /\ file'.windows[e].status # "NONE"
  BY <1>2, <1>3, <1>8 DEF FileTyped
<1>10. file'.windows[e] # NoOutcome
  BY <1>9 DEF NoOutcome
<1>11. FileTyped(file')
  BY <1>3, <1>5, <1>7, <1>8, <1>9 DEF FileTyped
<1>12. CommandWritten
  BY <1>2, <1>6, <1>8, <1>10, <1>11 DEF CommandWritten
<1>13. Applied(file, file')
  BY <1>2, <1>6, <1>8, <1>9, <1>10 DEF Applied, Unresolved, WithStatus
<1>14. ASSUME NEW c \in Unresolved(file)
       PROVE  [file.chunks[c] EXCEPT !.status = "CONFIRMED"]
                 = [status |-> "CONFIRMED", sig |-> file.chunks[c].sig]
  <2>1. file.chunks[c] \in ChunkRecord
    BY <1>3 DEF FileTyped, Unresolved, WithStatus
  <2>. QED  BY <2>1 DEF ChunkRecord
<1>15. file'.chunks = [c \in Chunks |->
                 IF c \in Unresolved(file)
                 THEN [status |-> "CONFIRMED", sig |-> file.chunks[c].sig] ELSE file.chunks[c]]
  BY <1>5, <1>14
<1>. QED  BY <1>1, <1>2, <1>12, <1>13, <1>15

LEMMA ApplyKeeps ==
    ASSUME IInv, NEW o \in Operators, applyUploadReconciliation(o), UNCHANGED <<proc, scn>>
    PROVE  IInv'
<1>1. /\ CommandWritten /\ Applied(file, file')
      /\ lease # NoLease /\ lease.exec = op[o].exec /\ op[o].exec \in Execs
      /\ proc[op[o].exec].pc = "ended"
  BY ApplyEffect
<1>2. /\ op' = [op EXCEPT ![o].pc = "applied", ![o].saved = file]
      /\ UNCHANGED <<lease, archive, opLock, os, tx, proc, scn>>
      /\ op[o].pc = "locked"
  BY DEF applyUploadReconciliation, Locked
<1>3. /\ CommandOnly(o) /\ op'[o].pc = "applied"
      /\ op'[o].exec = op[o].exec /\ op'[o].saved = file
  BY <1>2 DEF IInv, OpTyped, CommandOnly
<1>4. opLock = o
  BY <1>2 DEF IInv, OpInv
<1>5. FileTyped(file) /\ FileTyped(op'[o].saved) /\ Applied(op'[o].saved, file')
  BY <1>1, <1>3 DEF IInv, WorldTyped
<1>6. OpInv(o)'
  BY <1>1, <1>2, <1>3, <1>4, <1>5 DEF OpInv, Deciding, Observed
<1>. QED  BY <1>1, <1>2, <1>3, <1>4, <1>6, CommandWriteKeeps

(* Taking back an apply loses no signature and no outcome.                   *)
LEMMA RestoreEffect ==
    ASSUME IInv, NEW o \in Operators, op[o].pc = "applied", file' = op[o].saved
    PROVE  CommandWritten
<1>1. FileTyped(file') /\ Applied(file', file)
  BY DEF IInv, OpInv
<1>2. \A c \in Chunks :
          \/ file'.chunks[c] = file.chunks[c]
          \/ /\ file'.chunks[c].sig = file.chunks[c].sig
             /\ file'.chunks[c].status \in {"SENT", "UNKNOWN"}
  BY <1>1 DEF Applied
<1>. QED  BY <1>1, <1>2 DEF CommandWritten, Applied

LEMMA VerifiedKeeps ==
    ASSUME IInv, NEW o \in Operators, ApplyVerified(o), UNCHANGED <<proc, scn>>
    PROVE  IInv'
<1>1. /\ op[o].pc = "applied" /\ Done(o, op[o].hash)
      /\ UNCHANGED <<lease, archive, os, tx, proc, scn>>
  BY DEF ApplyVerified, EndLocked
<1>2. /\ opLock = o /\ lease # NoLease /\ lease.exec = op[o].exec
      /\ proc[op[o].exec].pc = "ended"
  BY <1>1 DEF IInv, OpInv, Deciding
<1>3. CommandOnly(o) /\ OpInv(o)'
  BY <1>1, DoneEffect
<1>4. CASE UNCHANGED file
  BY <1>1, <1>2, <1>3, <1>4, QuietCommand
<1>5. CASE file' = op[o].saved
  BY <1>1, <1>2, <1>3, <1>5, RestoreEffect, CommandWriteKeeps
<1>. QED  BY <1>4, <1>5 DEF ApplyVerified

(* The receipt in the lease directory, with what entitles the command to it. *)
LEMMA ReceiptKeeps ==
    ASSUME IInv, NEW o \in Operators,
           op[o].pc \in {"locked", "refreshed"},
           lease # NoLease, lease.exec = op[o].exec, proc[op[o].exec].pc = "ended",
           Unresolved(file) = {},
           op[o].hash.kind = "release" => file.windows[op[o].exec] # NoOutcome,
           op[o].hash.kind = "recovery" => Clean(file, op[o].exec),
           lease' = [lease EXCEPT !.receipt = op[o].hash],
           op' = [op EXCEPT ![o].pc = "receipt"],
           UNCHANGED <<file, archive, opLock, os, tx, proc, scn>>
    PROVE  IInv'
<1>1. /\ LeaseTyped' /\ lease' # NoLease
      /\ lease'.exec = lease.exec /\ lease'.at = lease.at
  <2>. DEFINE t == op[o].hash
  <2>1. lease' = [lease EXCEPT !.receipt = t]
    OBVIOUS
  <2>. HIDE DEF t
  <2>. QED  BY <2>1, LeaseField DEF IInv, WorldTyped
<1>2. /\ CommandOnly(o) /\ op'[o].pc = "receipt"
      /\ op'[o].exec = op[o].exec /\ op'[o].hash = op[o].hash
  BY DEF IInv, OpTyped, CommandOnly
<1>3. opLock = o /\ op[o].exec \in Execs
  BY DEF IInv, OpInv
<1>4. WorldTyped' /\ ProcTyped' /\ OpTyped'
  BY <1>1, <1>2 DEF IInv, WorldTyped, ProcTyped, CommandOnly, FileTyped, TxTyped
<1>5. FinalizedBytes' = FinalizedBytes /\ Legacy' = Legacy
  BY ClusterView
<1>6. EverySendIsRecorded' /\ ConfirmedIsFinal' /\ NothingPendingWithoutLease'
  BY <1>1, <1>5 DEF IInv, EverySendIsRecorded, ConfirmedIsFinal, Confirmed, WithStatus,
                    NothingPendingWithoutLease
<1>7. \A e \in Execs : ProcInv(e)'
  BY NobodyInWindow, IdleProcs, FileView
<1>8. LeaseInv'
  BY <1>1 DEF IInv, LeaseInv, Clean, InWindow
<1>9. OpInv(o)'
  BY <1>1, <1>2, <1>3, FileView DEF OpInv, Deciding, Observed, Clean
<1>10. \A r \in Operators : OpInv(r)'
  BY <1>2, <1>3, <1>9, OtherCommands
<1>11. ASSUME NEW e \in Execs  PROVE ArchiveInv(e)'
  BY FileView DEF IInv, ArchiveInv
<1>. QED  BY <1>4, <1>6, <1>7, <1>8, <1>10, <1>11 DEF IInv

LEMMA ReleaseKeeps ==
    ASSUME IInv, NEW o \in Operators, WriteReleaseReceipt(o), UNCHANGED <<proc, scn>>
    PROVE  IInv'
<1>. DEFINE q == reconcileAtDirectory(o, lease)
<1>1. /\ op[o].pc = "locked" /\ q # None /\ q = op[o].hash /\ DOMAIN q.proposed = {}
      /\ lease' = [lease EXCEPT !.receipt = op[o].hash]
      /\ op' = [op EXCEPT ![o].pc = "receipt"]
      /\ UNCHANGED <<file, archive, opLock, os, tx, proc, scn>>
  BY DEF WriteReleaseReceipt, Locked, Releasable
<1>2. /\ lease # NoLease /\ lease.exec = op[o].exec /\ op[o].exec \in Execs
      /\ proc[op[o].exec].pc = "ended" /\ file.windows[op[o].exec] # NoOutcome
      /\ q.kind = "release" /\ DOMAIN q.proposed = Unresolved(file)
  BY <1>1, ReconcileFacts
<1>. HIDE DEF q
<1>. QED  BY <1>1, <1>2, ReceiptKeeps

LEMMA RecoveryKeeps ==
    ASSUME IInv, NEW o \in Operators, WriteRecoveryReceipt(o), UNCHANGED <<proc, scn>>
    PROVE  IInv'
<1>1. /\ op[o].pc = "refreshed" /\ Recoverable(o)
      /\ lease' = [lease EXCEPT !.receipt = op[o].hash]
      /\ op' = [op EXCEPT ![o].pc = "receipt"]
      /\ UNCHANGED <<file, archive, opLock, os, tx, proc, scn>>
  BY DEF WriteRecoveryReceipt
<1>2. /\ lease # NoLease /\ lease.exec = op[o].exec /\ os[op[o].exec] # "running"
      /\ file = lease.at /\ Unresolved(file) = {}
      /\ op[o].hash = RecoveryEvidence(op[o].exec, lease, op[o].obs.bytes)
  BY <1>1 DEF Recoverable, RecoveryEligible, processIsActive
<1>3. op[o].hash.kind = "recovery"
  BY <1>2 DEF RecoveryEvidence
<1>4. Clean(file, op[o].exec) /\ (InWindow(op[o].exec) \/ proc[op[o].exec].pc = "ended")
  BY <1>2 DEF IInv, LeaseInv
<1>5. op[o].exec \in Execs
  BY <1>1 DEF IInv, OpInv
<1>6. proc[op[o].exec].pc = "ended"
  BY <1>2, <1>4, <1>5 DEF IInv, ProcInv, InWindow
<1>. QED  BY <1>1, <1>2, <1>3, <1>4, <1>6, ReceiptKeeps

LEMMA ArchiveKeeps ==
    ASSUME IInv, NEW o \in Operators, ArchiveLease(o), UNCHANGED <<proc, scn>>
    PROVE  IInv'
<1>. DEFINE e == op[o].exec
<1>1. /\ op[o].pc = "receipt" /\ Done(o, op[o].hash)
      /\ UNCHANGED <<file, os, tx, proc, scn>>
  BY DEF ArchiveLease, EndLocked
<1>2. /\ opLock = o /\ lease # NoLease /\ lease.exec = e /\ e \in Execs
      /\ proc[e].pc = "ended" /\ Unresolved(file) = {}
      /\ op[o].hash.kind = "release" => file.windows[e] # NoOutcome
      /\ op[o].hash.kind = "recovery" => Clean(file, e)
  BY <1>1 DEF IInv, OpInv, Deciding
<1>3. CommandOnly(o) /\ OpInv(o)'
  BY <1>1, DoneEffect
<1>4. CASE UNCHANGED <<lease, archive>>
  BY <1>1, <1>2, <1>3, <1>4, QuietCommand
<1>5. CASE /\ lease' = NoLease
           /\ archive' = [archive EXCEPT ![e] = [hash |-> op[o].hash, dir |-> lease]]
  <2>1. WorldTyped' /\ ProcTyped' /\ OpTyped'
    BY <1>1, <1>3, <1>5 DEF IInv, WorldTyped, ProcTyped, CommandOnly, FileTyped, LeaseTyped, TxTyped
  <2>2. FinalizedBytes' = FinalizedBytes /\ Legacy' = Legacy
    BY <1>1, ClusterView
  <2>3. EverySendIsRecorded' /\ ConfirmedIsFinal'
    BY <1>1, <2>2 DEF IInv, EverySendIsRecorded, ConfirmedIsFinal, Confirmed, WithStatus
  <2>4. NothingPendingWithoutLease' /\ LeaseInv'
    BY <1>1, <1>2, <1>5, FileView DEF NothingPendingWithoutLease, LeaseInv
  <2>5. \A d \in Execs : ProcInv(d)'
    BY <1>1, <1>2, NobodyInWindow, IdleProcs, FileView
  <2>6. \A r \in Operators : OpInv(r)'
    BY <1>1, <1>2, <1>3, OtherCommands
  <2>7. ASSUME NEW d \in Execs  PROVE ArchiveInv(d)'
    <3>1. CASE d = e
      <4>1. archive'[e].hash = op[o].hash /\ archive'[e].dir = lease
        BY <1>2, <1>5 DEF IInv, WorldTyped
      <4>. QED  BY <1>1, <1>2, <3>1, <4>1, FileView DEF ArchiveInv
    <3>2. CASE d # e
      <4>1. archive'[d] = archive[d]
        BY <1>5, <3>2 DEF IInv, WorldTyped
      <4>. QED  BY <1>1, <4>1, FileView DEF IInv, ArchiveInv
    <3>. QED  BY <3>1, <3>2
  <2>. QED  BY <2>1, <2>3, <2>4, <2>5, <2>6, <2>7 DEF IInv
<1>. QED  BY <1>4, <1>5 DEF ArchiveLease

LEMMA CommandKeeps ==
    ASSUME IInv, NEW o \in Operators, UNCHANGED <<proc, scn>>,
           \/ \E cmd \in Commands, e \in Execs : StartCommand(o, cmd, e)
           \/ OperatorStep(o)
           \/ KillCommand(o)
    PROVE  IInv'
BY StartKeeps, ObserveKeeps, LockKeeps, RefreshKeeps, EndKeeps, ApplyKeeps, VerifiedKeeps,
   ReleaseKeeps, RecoveryKeeps, ArchiveKeeps
   DEF OperatorStep

-------------------------------------------------------------------------------
(* The theorems                                                              *)

LEMMA InitTypes ==
    ASSUME Init
    PROVE  WorldTyped /\ ProcTyped /\ OpTyped
<1>1. scn \in Scenarios /\ Legacy \subseteq Chunks
  BY UploadAssumption DEF Init, WorldInit, Legacy
<1>2. /\ [status |-> "UNKNOWN", sig |-> OldExec] \in ChunkRecord
      /\ [status |-> "PLANNED", sig |-> None] \in ChunkRecord
  BY UploadAssumption DEF ChunkRecord, CHUNK_STATUS, Signers
<1>3. FileTyped(file)
  BY <1>2 DEF Init, WorldInit, FileTyped
<1>4. TxTyped
  <2>1. PICK old \in [Legacy -> TxState \ {"none"}] :
          tx = [s \in Signers |-> [c \in Chunks |->
                  IF s = OldExec /\ c \in Legacy THEN old[c] ELSE "none"]]
    BY DEF Init, WorldInit
  <2>2. \A s \in Signers, c \in Chunks :
           (IF s = OldExec /\ c \in Legacy THEN old[c] ELSE "none") \in TxState
    BY DEF TxState
  <2>. QED  BY <2>1, <2>2 DEF TxTyped
<1>5. LeaseTyped /\ DOMAIN archive = Execs /\ DOMAIN os = Execs
  BY DEF Init, WorldInit, LeaseTyped
<1>6. ProcTyped
  BY DEF Init, UploaderInit, ProcTyped, NewProc
<1>7. OpTyped
  BY DEF Init, OperatorInit, OpTyped, NewOp
<1>. QED  BY <1>1, <1>3, <1>4, <1>5, <1>6, <1>7 DEF WorldTyped

LEMMA InitInvariant == Init => IInv
<1>. SUFFICES ASSUME Init  PROVE IInv
  OBVIOUS
<1>1. WorldTyped /\ ProcTyped /\ OpTyped
  BY InitTypes
<1>2. /\ lease = NoLease /\ archive = [e \in Execs |-> NoArchive] /\ os = [e \in Execs |-> "unborn"]
      /\ file.windows = [e \in Execs |-> NoOutcome]
      /\ file.chunks = [c \in Chunks |->
                    IF c \in Legacy THEN [status |-> "UNKNOWN", sig |-> OldExec]
                    ELSE [status |-> "PLANNED", sig |-> None]]
  BY DEF Init, WorldInit
<1>3. \A c \in Chunks :
         /\ c \in Legacy => file.chunks[c].status = "UNKNOWN" /\ file.chunks[c].sig = OldExec
         /\ c \notin Legacy => file.chunks[c].status = "PLANNED" /\ file.chunks[c].sig = None
  BY <1>2
<1>4. EverySendIsRecorded
  <2>1. \A s \in Signers, c \in Chunks : tx[s][c] # "none" => s = OldExec /\ c \in Legacy
    BY DEF Init, WorldInit
  <2>. QED  BY <1>3, <2>1 DEF EverySendIsRecorded
<1>5. ConfirmedIsFinal /\ NothingPendingWithoutLease
  BY <1>3 DEF ConfirmedIsFinal, Confirmed, NothingPendingWithoutLease, Unresolved, WithStatus
<1>6. ASSUME NEW e \in Execs  PROVE ProcInv(e)
  <2>1. proc[e].pc = "idle" /\ proc[e].bytes = {} /\ os[e] = "unborn"
    BY <1>2 DEF Init, UploaderInit, NewProc
  <2>2. Clean(file, e)
    BY <1>2, <1>3, UploadAssumption DEF Clean
  <2>. QED  BY <2>1, <2>2 DEF ProcInv, ChunkInv, InWindow, Preflight, InStep, Ending
<1>7. LeaseInv
  BY <1>2 DEF LeaseInv
<1>8. ASSUME NEW o \in Operators  PROVE OpInv(o)
  <2>1. op[o].pc = "idle"
    BY DEF Init, OperatorInit, NewOp
  <2>. QED  BY <2>1 DEF OpInv, Deciding, Observed
<1>9. ASSUME NEW e \in Execs  PROVE ArchiveInv(e)
  BY <1>2 DEF ArchiveInv
<1>. QED  BY <1>1, <1>4, <1>5, <1>6, <1>7, <1>8, <1>9 DEF IInv

LEMMA StutterKeeps ==
    ASSUME IInv, UNCHANGED <<file, lease, archive, opLock, os, tx, scn, proc, op>>
    PROVE  IInv'
<1>1. WorldTyped' /\ ProcTyped' /\ OpTyped'
  BY DEF IInv, WorldTyped, FileTyped, LeaseTyped, TxTyped, ProcTyped, OpTyped
<1>2. FinalizedBytes' = FinalizedBytes /\ Legacy' = Legacy
  BY ClusterView
<1>3. EverySendIsRecorded' /\ ConfirmedIsFinal' /\ NothingPendingWithoutLease' /\ LeaseInv'
  BY <1>2, FileView DEF IInv, EverySendIsRecorded, ConfirmedIsFinal, Confirmed, WithStatus,
                        NothingPendingWithoutLease, LeaseInv, Clean, InWindow
<1>4. ASSUME NEW e \in Execs  PROVE ProcInv(e)' /\ ArchiveInv(e)'
  <2>1. ProcInv(e) /\ ArchiveInv(e)
    BY DEF IInv
  <2>2. (Clean(proc[e].pre, e))' <=> Clean(proc[e].pre, e)
    BY DEF Clean
  <2>. QED  BY <1>2, <2>1, <2>2, FileView DEF ProcInv, ChunkInv, InWindow, ArchiveInv
<1>5. ASSUME NEW o \in Operators  PROVE OpInv(o)'
  <2>1. OpInv(o)
    BY DEF IInv
  <2>2. /\ FileTyped(op[o].saved)' <=> FileTyped(op[o].saved)
        /\ Applied(op[o].saved, file)' <=> Applied(op[o].saved, file)
        /\ Clean(file, op[o].exec)' <=> Clean(file, op[o].exec)
        /\ Unresolved(file)' = Unresolved(file)
    BY DEF FileTyped, Applied, Clean, Unresolved, WithStatus
  <2>3. Observed(o)'
    BY <2>1, ObservedStays DEF OpInv
  <2>. QED  BY <1>2, <2>1, <2>2, <2>3 DEF OpInv, Deciding
<1>. QED  BY <1>1, <1>3, <1>4, <1>5 DEF IInv

LEMMA NextKeeps == IInv /\ [Next]_vars => IInv'
<1>. SUFFICES ASSUME IInv, [Next]_vars  PROVE IInv'
  OBVIOUS
<1>1. CASE UploaderNext /\ UNCHANGED <<op, scn>>
  BY <1>1, UploaderKeeps DEF UploaderNext
<1>2. CASE OperatorNext /\ UNCHANGED <<proc, scn>>
  BY <1>2, CommandKeeps DEF OperatorNext
<1>3. CASE ClusterNext /\ UNCHANGED <<proc, op, scn>>
  BY <1>3, ClusterKeeps
<1>4. CASE UNCHANGED vars
  BY <1>4, StutterKeeps DEF vars
<1>. QED  BY <1>1, <1>2, <1>3, <1>4 DEF Next

(* The inductive invariant: what each process, each lease command and the    *)
(* lease directory may rely on between two of their steps.                   *)
THEOREM UploadInvariant == Spec => []IInv
BY InitInvariant, NextKeeps, PTL DEF Spec

(* Two windows never work on the checkpoint at the same time, although       *)
(* acquireUploadLease does not look at the checkpoint again after its mkdir. *)
THEOREM WindowsHoldTheLease == Spec => []WindowHoldsLease
<1>1. IInv => WindowHoldsLease
  BY DEF IInv, ProcInv, WindowHoldsLease
<1>. QED  BY <1>1, UploadInvariant, PTL

(* No transaction reaches the cluster before the checkpoint names it, and a  *)
(* chunk is signed at most once.                                             *)
THEOREM SendsAreRecorded == Spec => []EverySendIsRecorded
<1>1. IInv => EverySendIsRecorded
  BY DEF IInv
<1>. QED  BY <1>1, UploadInvariant, PTL

(* CONFIRMED is only written for bytes that no fork can take back.           *)
THEOREM ConfirmationIsFinal == Spec => []ConfirmedIsFinal
<1>1. IInv => ConfirmedIsFinal
  BY DEF IInv
<1>. QED  BY <1>1, UploadInvariant, PTL

(* The lease outlives every transaction of unknown outcome.                  *)
THEOREM LeaseCoversPending == Spec => []NothingPendingWithoutLease
<1>1. IInv => NothingPendingWithoutLease
  BY DEF IInv
<1>. QED  BY <1>1, UploadInvariant, PTL

(* An archived lease was released with its outcome on record, or recovered   *)
(* from a window that never sent anything; neither can change later.         *)
THEOREM ArchivesAreJustified == Spec => []ArchiveJustified
<1>1. ASSUME IInv  PROVE ArchiveJustified
  <2>. SUFFICES ASSUME NEW e \in Execs, archive[e] # NoArchive
                PROVE  /\ ~InWindow(e)
                       /\ archive[e].dir.exec = e
                       /\ archive[e].hash.kind = "release" => file.windows[e] # NoOutcome
                       /\ archive[e].hash.kind = "recovery" =>
                             /\ file.windows[e] = NoOutcome
                             /\ \A c \in Chunks : tx[e][c] = "none" /\ file.chunks[c].sig # e
    BY DEF ArchiveJustified
  <2>1. ArchiveInv(e) /\ EverySendIsRecorded
    BY <1>1 DEF IInv
  <2>2. Clean(file, e) =>
           /\ file.windows[e] = NoOutcome
           /\ \A c \in Chunks : tx[e][c] = "none" /\ file.chunks[c].sig # e
    BY <2>1 DEF Clean, EverySendIsRecorded, Signers
  <2>. QED  BY <2>1, <2>2 DEF ArchiveInv, InWindow
<1>. QED  BY <1>1, UploadInvariant, PTL

LEMMA UploaderMonotone ==
    ASSUME IInv, NEW e \in Execs, Effect(e)
    PROVE  CheckpointStep
<1>1. CASE UNCHANGED file
  BY <1>1 DEF CheckpointStep
<1>2. CASE Written(e)
  <2>1. \A c \in Chunks : file'.chunks[c] \in ChunkRecord
    BY <1>2 DEF Written, FileTyped
  <2>2. \A d \in Execs : file.windows[d] # NoOutcome => file'.windows[d] = file.windows[d]
    BY <1>2 DEF Written
  <2>. QED  BY <1>2, <2>1, <2>2 DEF CheckpointStep, Written
<1>. QED  BY <1>1, <1>2 DEF Effect

LEMMA CommandMonotone ==
    ASSUME IInv, NEW o \in Operators, UNCHANGED <<proc, scn>>,
           \/ \E cmd \in Commands, e \in Execs : StartCommand(o, cmd, e)
           \/ OperatorStep(o)
           \/ KillCommand(o)
    PROVE  CheckpointStep
<1>1. CASE UNCHANGED file
  BY <1>1 DEF CheckpointStep
<1>2. CASE applyUploadReconciliation(o)
  <2>1. Applied(file, file') /\ FileTyped(file')
    BY <1>2, ApplyEffect DEF CommandWritten
  <2>2. ASSUME NEW c \in Chunks, file'.chunks[c] # file.chunks[c]
        PROVE  /\ file'.chunks[c] \in ChunkRecord
               /\ file'.chunks[c].status \in CHUNK_TRANSITIONS[file.chunks[c].status]
               /\ file'.chunks[c].sig = file.chunks[c].sig
    BY <2>1, <2>2 DEF Applied, FileTyped, CHUNK_TRANSITIONS
  <2>. QED  BY <2>1, <2>2 DEF CheckpointStep, Applied
<1>3. CASE op[o].pc = "applied" /\ file' = op[o].saved
  <2>1. Applied(file', file)
    BY <1>3 DEF IInv, OpInv
  <2>. QED  BY <1>3, <2>1 DEF CheckpointStep, Applied
<1>. QED  BY <1>1, <1>2, <1>3
          DEF OperatorStep, StartCommand, KillCommand, ObserveCluster, reconcileUploadLease,
              acquireOperationLock, ApplyVerified, WriteReleaseReceipt, ArchiveLease,
              reconcilePreSelectionUploadLease, RefreshInput, WriteRecoveryReceipt, Refuse, worldVars

(* No write to the checkpoint undoes progress: records follow                *)
(* CHUNK_TRANSITIONS, signatures and outcomes stay.                          *)
THEOREM CheckpointIsMonotone == Spec => CheckpointMonotone
<1>1. ASSUME IInv, Next  PROVE CheckpointStep
  <2>1. CASE UploaderNext /\ UNCHANGED <<op, scn>>
    BY <1>1, <2>1, UploaderEffect, UploaderMonotone DEF UploaderNext
  <2>2. CASE OperatorNext /\ UNCHANGED <<proc, scn>>
    BY <1>1, <2>2, CommandMonotone DEF OperatorNext
  <2>3. CASE ClusterNext /\ UNCHANGED <<proc, op, scn>>
    BY <1>1, <2>3, ClusterEffect DEF CheckpointStep
  <2>. QED  BY <1>1, <2>1, <2>2, <2>3 DEF Next
<1>2. IInv /\ [Next]_vars => [CheckpointStep]_vars
  BY <1>1
<1>. QED  BY <1>2, UploadInvariant, PTL DEF Spec, CheckpointMonotone
-------------------------------------------------------------------------------
(* The refinement of IdealUpload                                             *)

(* The transaction of a chunk, where its record names the signer.            *)
LEMMA ChainOf ==
    ASSUME NEW c \in Chunks
    PROVE  /\ file.chunks[c].sig = None => Chain[c] = "none"
           /\ file.chunks[c].sig # None => Chain[c] = tx[file.chunks[c].sig][c]
BY DEF Chain

LEMMA ChainStays ==
    ASSUME UNCHANGED tx,
           \A c \in Chunks :
              LET old == file.chunks[c].sig
                  new == file'.chunks[c].sig
              IN  new = old \/ (old = None /\ new # None /\ tx[new][c] = "none")
    PROVE  Chain' = Chain
<1>1. ASSUME NEW c \in Chunks
      PROVE  (IF file'.chunks[c].sig = None THEN "none" ELSE tx'[file'.chunks[c].sig][c])
                = (IF file.chunks[c].sig = None THEN "none" ELSE tx[file.chunks[c].sig][c])
  OBVIOUS
<1>. QED  BY <1>1 DEF Chain

(* Where only the memory of processes and commands changes, the ideal does   *)
(* not move.                                                                 *)
LEMMA Stutter ==
    ASSUME file'.chunks = file.chunks, lease'.exec = lease.exec,
           UNCHANGED <<tx, archive, scn>>, Working' <=> Working, Undo' = Undo
    PROVE  UNCHANGED Ideal!ideal
<1>1. Chain' = Chain
  BY ChainStays
<1>2. Past' = Past /\ Matched' = Matched /\ Legacy' = Legacy
  BY DEF Past, Matched, Legacy
<1>3. Working' = Working
  BY DEF Working
<1>. QED  BY <1>1, <1>2, <1>3 DEF Ideal!ideal

LEMMA InitIsIdeal == Init => Ideal!Init
<1>. SUFFICES ASSUME Init  PROVE Ideal!Init
  OBVIOUS
<1>1. Matched \subseteq Chunks /\ Legacy \subseteq Chunks
  BY UploadAssumption DEF Init, WorldInit, Matched, Legacy
<1>2. /\ file.chunks = [c \in Chunks |->
            IF c \in Legacy THEN [status |-> "UNKNOWN", sig |-> OldExec]
            ELSE [status |-> "PLANNED", sig |-> None]]
      /\ lease.exec = None
      /\ archive = [e \in Execs |-> NoArchive]
  BY DEF Init, WorldInit, NoLease
<1>3. DOMAIN Chain = Chunks
  BY DEF Chain
<1>4. ASSUME NEW c \in Chunks  PROVE Chain[c] = "none" <=> c \notin Legacy
  <2>1. PICK old \in [Legacy -> TxState \ {"none"}] :
          tx = [s \in Signers |-> [d \in Chunks |->
                  IF s = OldExec /\ d \in Legacy THEN old[d] ELSE "none"]]
    BY DEF Init, WorldInit
  <2>2. CASE c \in Legacy
    <3>1. file.chunks[c].sig = OldExec /\ OldExec # None /\ OldExec \in Signers
      BY <1>2, <2>2, UploadAssumption DEF Signers
    <3>2. Chain[c] = old[c]
      BY <2>1, <2>2, <3>1, ChainOf
    <3>. QED  BY <2>1, <2>2, <3>2
  <2>3. CASE c \notin Legacy
    BY <1>2, <2>3, ChainOf
  <2>. QED  BY <2>2, <2>3
<1>5. ~Working
  BY DEF Init, UploaderInit, NewProc, Working, InWindow
<1>6. Past = {}
  BY <1>2 DEF Past
<1>7. Undo = {}
  BY DEF Init, OperatorInit, NewOp, Undo
<1>. QED  BY <1>1, <1>2, <1>3, <1>4, <1>5, <1>6, <1>7 DEF Ideal!Init

-------------------------------------------------------------------------------
(* A step of the process of e                                                *)

LEMMA SameUndo ==
    ASSUME UNCHANGED op  PROVE Undo' = Undo
BY DEF Undo

(* Before the lease, only its acquisition is seen.                           *)
LEMMA PreflightIsIdeal ==
    ASSUME IInv, IInv', NEW e \in Execs, Effect(e), ~InWindow(e)
    PROVE  Ideal!Begin(e) \/ UNCHANGED Ideal!ideal
<1>1. /\ UNCHANGED <<file, tx, op, archive, scn>>
      /\ \A d \in Execs \ {e} : proc'[d] = proc[d]
      /\ proc[e].pc # "ended"
  BY DEF Effect, Stays
<1>2. \A d \in Execs \ {e} : InWindow(d)' <=> InWindow(d)
  BY <1>1 DEF InWindow
<1>3. Undo' = Undo
  BY <1>1, SameUndo
<1>4. CASE UNCHANGED lease
  <2>1. ~InWindow(e)'
    <3>. SUFFICES ASSUME InWindow(e)'  PROVE FALSE
      OBVIOUS
    <3>1. lease # NoLease /\ lease.exec = e
      BY <1>4 DEF IInv, ProcInv
    <3>. QED  BY <1>1, <3>1 DEF IInv, LeaseInv
  <2>2. Working' <=> Working
    BY <1>2, <2>1 DEF Working
  <2>. QED  BY <1>1, <1>3, <1>4, <2>2, Stutter
<1>5. CASE lease = NoLease /\ lease'.exec = e /\ InWindow(e)'
  <2>1. lease.exec = None
    BY <1>5 DEF NoLease
  <2>2. e \notin Past
    BY <1>1 DEF IInv, ArchiveInv, Past
  <2>3. Working'
    BY <1>5 DEF Working
  <2>4. /\ Chain' = Chain /\ Past' = Past /\ Matched' = Matched /\ Legacy' = Legacy
    BY <1>1 DEF Chain, Past, Matched, Legacy
  <2>. QED  BY <1>1, <1>3, <1>5, <2>1, <2>2, <2>3, <2>4 DEF Ideal!Begin
<1>. QED  BY <1>4, <1>5 DEF Effect

(* One record written inside the window.                                     *)
LEMMA MoveIsIdeal ==
    ASSUME IInv, NEW e \in Execs, InWindow(e), NEW c \in Chunks,
           NEW status, NEW sig, Moves(e, c, status, sig),
           file'.chunks = [file.chunks EXCEPT ![c] = [status |-> status, sig |-> sig]],
           Working, Working', lease.exec = e, lease'.exec = e,
           UNCHANGED <<tx, op, archive, scn>>
    PROVE  Ideal!Match(c) \/ Ideal!Sign(c) \/ Ideal!Resolve(c)
<1>. DEFINE old == file.chunks[c]
<1>1. /\ FileTyped(file) /\ TxTyped /\ EverySendIsRecorded /\ old \in ChunkRecord
      /\ e \in Signers /\ e # None
  BY UploadAssumption DEF IInv, WorldTyped, FileTyped, Signers
<1>2. old.status = "PLANNED" => old.sig = None /\ \A s \in Signers : tx[s][c] = "none"
  BY <1>1 DEF ChunkRecord, EverySendIsRecorded
<1>3. old.status \in {"SENT", "UNKNOWN"} => old.sig \in Signers /\ old.sig # None
  BY <1>1, UploadAssumption DEF ChunkRecord, Signers
<1>4. Chain' = Chain
  <2>1. \A d \in Chunks \ {c} : file'.chunks[d] = file.chunks[d]
    BY <1>1 DEF FileTyped
  <2>2. file'.chunks[c].sig = sig
    BY <1>1 DEF FileTyped
  <2>3. sig = old.sig \/ (old.sig = None /\ sig = e /\ tx[e][c] = "none")
    BY <1>1, <1>2 DEF Moves
  <2>. QED  BY <1>1, <2>1, <2>2, <2>3, ChainStays
<1>5. /\ Undo' = Undo /\ Past' = Past /\ Matched' = Matched /\ Legacy' = Legacy
      /\ Working' = Working /\ lease'.exec = lease.exec
  BY SameUndo DEF Past, Matched, Legacy
<1>6. Ideal!Write(c, status, sig)
  BY <1>4, <1>5 DEF Ideal!Write
<1>7. CASE old.status = "PLANNED" /\ status = "CONFIRMED" /\ sig = None /\ c \in FinalizedBytes
  <2>1. c \in Matched
    BY <1>2, <1>7 DEF FinalizedBytes
  <2>. QED  BY <1>6, <1>7, <2>1 DEF Ideal!Match
<1>8. CASE old.status = "PLANNED" /\ status = "SENT" /\ sig = e
  BY <1>6, <1>8 DEF Ideal!Sign
<1>9. CASE /\ old.status \in {"SENT", "UNKNOWN"} /\ sig = old.sig
           /\ \/ status = "CONFIRMED" /\ (tx[sig][c] = "final" \/ c \in Legacy \cap ConfirmedBytes)
              \/ status = "FAILED" /\ tx[sig][c] # "none"
              \/ status = "UNKNOWN"
  <2>1. c \in Ideal!Pending
    BY <1>9 DEF Ideal!Pending
  <2>2. Chain[c] = tx[sig][c]
    BY <1>3, <1>9, ChainOf
  <2>3. ASSUME c \in ConfirmedBytes
        PROVE  c \in Matched \/ tx[sig][c] \in {"landed", "final"}
    <3>1. \A s \in Signers : tx[s][c] # "none" => s = sig
      BY <1>1, <1>9 DEF EverySendIsRecorded
    <3>. QED  BY <2>3, <3>1 DEF ConfirmedBytes
  <2>4. \/ status = "CONFIRMED" /\ (Chain[c] = "final" \/
                 (c \in Legacy /\ (c \in Matched \/ Chain[c] = "landed")))
        \/ status = "FAILED" /\ Chain[c] # "none"
        \/ status = "UNKNOWN"
    BY <1>9, <2>2, <2>3
  <2>5. Ideal!Write(c, status, file.chunks[c].sig)
    BY <1>6, <1>9
  <2>. QED  BY <2>1, <2>4, <2>5 DEF Ideal!Resolve
<1>. QED  BY <1>7, <1>8, <1>9 DEF Moves

LEMMA SubmitIsIdeal ==
    ASSUME IInv, NEW e \in Execs, NEW c \in Chunks, Submits(e, c),
           Working, Working', lease.exec = e, lease'.exec = e,
           UNCHANGED <<op, archive, scn>>
    PROVE  Ideal!Submit(c)
<1>1. /\ FileTyped(file) /\ TxTyped /\ e \in Signers /\ e # None
      /\ tx[e][c] = "none" /\ file.chunks[c] = [status |-> "SENT", sig |-> e]
      /\ tx' = [tx EXCEPT ![e][c] = "inflight"] /\ file' = file
  BY UploadAssumption DEF IInv, WorldTyped, Signers, Submits
<1>2. Chain[c] = "none"
  BY <1>1, ChainOf
<1>3. Chain' = [Chain EXCEPT ![c] = "inflight"]
  <2>1. ASSUME NEW d \in Chunks
        PROVE  Chain'[d] = IF d = c THEN "inflight" ELSE Chain[d]
    <3>1. \A s \in Signers : tx'[s][d] = IF s = e /\ d = c THEN "inflight" ELSE tx[s][d]
      BY <1>1 DEF TxTyped
    <3>2. file.chunks[d].sig \in Signers \cup {None}
      BY <1>1 DEF FileTyped, ChunkRecord
    <3>3. Chain'[d] = IF file.chunks[d].sig = None THEN "none" ELSE tx'[file.chunks[d].sig][d]
      BY <1>1 DEF Chain
    <3>4. Chain[d] = IF file.chunks[d].sig = None THEN "none" ELSE tx[file.chunks[d].sig][d]
      BY DEF Chain
    <3>. QED  BY <1>1, <3>1, <3>2, <3>3, <3>4
  <2>2. Chain = [d \in Chunks |-> Chain[d]] /\ Chain' = [d \in Chunks |-> Chain'[d]]
    BY DEF Chain
  <2>. QED  BY <2>1, <2>2
<1>4. /\ Undo' = Undo /\ Past' = Past /\ Matched' = Matched /\ Legacy' = Legacy
      /\ Working' = Working /\ lease'.exec = lease.exec /\ file'.chunks = file.chunks
  BY <1>1, SameUndo DEF Past, Matched, Legacy
<1>. QED  BY <1>1, <1>2, <1>3, <1>4 DEF Ideal!Submit

LEMMA UploaderIsIdeal ==
    ASSUME IInv, IInv', NEW e \in Execs, Effect(e)
    PROVE  Ideal!Next \/ UNCHANGED Ideal!ideal
<1>1. CASE ~InWindow(e)
  BY <1>1, PreflightIsIdeal DEF Ideal!Next
<1>2. CASE InWindow(e)
  <2>1. /\ Working /\ lease # NoLease /\ lease.exec = e /\ lease'.exec = e
        /\ UNCHANGED <<op, archive, scn>>
        /\ \A d \in Execs \ {e} : proc'[d] = proc[d]
    BY <1>2 DEF Working, Effect, Stays, IInv, ProcInv
  <2>2. CASE proc'[e].pc = "ended" /\ UNCHANGED <<file, tx, lease>>
    <3>1. \A d \in Execs : ~InWindow(d)'
      <4>1. \A d \in Execs \ {e} : ~InWindow(d)
        BY <1>2, OneWindow
      <4>. QED  BY <2>1, <2>2, <4>1 DEF InWindow
    <3>2. ~Working'
      BY <3>1 DEF Working
    <3>3. Undo' = Undo /\ Past' = Past /\ Matched' = Matched /\ Legacy' = Legacy /\ Chain' = Chain
      BY <2>1, <2>2, SameUndo DEF Past, Matched, Legacy, Chain
    <3>4. Ideal!Stop
      BY <2>1, <2>2, <3>2, <3>3 DEF Ideal!Stop
    <3>. QED  BY <3>4 DEF Ideal!Next
  <2>3. CASE InWindow(e)'
    <3>1. Working'
      BY <2>3 DEF Working
    <3>2. CASE \E c \in Chunks : Submits(e, c)
      BY <2>1, <3>1, <3>2, SubmitIsIdeal DEF Ideal!Next
    <3>3. CASE UNCHANGED tx /\ file'.chunks = file.chunks
      BY <2>1, <3>1, <3>3, SameUndo, Stutter
    <3>4. CASE UNCHANGED tx /\ RecordMoves(e) /\ file'.chunks # file.chunks
      <4>1. PICK c \in Chunks, status \in CHUNK_STATUS, sig \in Signers \cup {None} :
              /\ Moves(e, c, status, sig)
              /\ file'.chunks = [file.chunks EXCEPT ![c] = [status |-> status, sig |-> sig]]
        BY <3>4 DEF RecordMoves
      <4>2. Ideal!Match(c) \/ Ideal!Sign(c) \/ Ideal!Resolve(c)
        BY <1>2, <2>1, <3>1, <3>4, <4>1, MoveIsIdeal
      <4>. QED  BY <4>2 DEF Ideal!Next
    <3>. QED  BY <3>2, <3>3, <3>4 DEF Effect
  <2>. QED  BY <1>2, <2>2, <2>3 DEF Effect
<1>. QED  BY <1>1, <1>2

-------------------------------------------------------------------------------
(* A step of the cluster                                                     *)

LEMMA ClusterFates ==
    ASSUME ClusterNext
    PROVE  /\ UNCHANGED <<file, lease, archive>>
           /\ \E s \in Signers, c \in Chunks :
                 /\ tx[s][c] \in DOMAIN Ideal!Fates
                 /\ \E to \in Ideal!Fates[tx[s][c]] : tx' = [tx EXCEPT ![s][c] = to]
<1>1. PICK s \in Signers, c \in Chunks :
         Land(s, c) \/ Error(s, c) \/ Finalize(s, c)
            \/ FinalizeError(s, c) \/ Fork(s, c) \/ Expire(s, c)
  BY DEF ClusterNext
<1>2. /\ UNCHANGED <<file, lease, archive>>
      /\ \/ tx[s][c] = "inflight"
            /\ \E to \in {"landed", "errored", "dropped"} : tx' = [tx EXCEPT ![s][c] = to]
         \/ tx[s][c] = "landed"
            /\ \E to \in {"final", "inflight"} : tx' = [tx EXCEPT ![s][c] = to]
         \/ tx[s][c] = "errored"
            /\ \E to \in {"errfinal", "inflight"} : tx' = [tx EXCEPT ![s][c] = to]
  BY <1>1 DEF Land, Error, Finalize, FinalizeError, Fork, Expire, SetTx
<1>3. /\ DOMAIN Ideal!Fates = {"inflight", "landed", "errored"}
      /\ Ideal!Fates["inflight"] = {"landed", "errored", "dropped"}
      /\ Ideal!Fates["landed"] = {"final", "inflight"}
      /\ Ideal!Fates["errored"] = {"errfinal", "inflight"}
  BY DEF Ideal!Fates
<1>. QED  BY <1>2, <1>3

LEMMA ClusterIsIdeal ==
    ASSUME IInv, ClusterNext, UNCHANGED <<proc, op, scn>>
    PROVE  Ideal!Next
<1>1. UNCHANGED <<file, lease, archive, proc, op, scn>>
  BY ClusterFates
<1>2. PICK s \in Signers, c \in Chunks :
         /\ tx[s][c] \in DOMAIN Ideal!Fates
         /\ \E to \in Ideal!Fates[tx[s][c]] : tx' = [tx EXCEPT ![s][c] = to]
  BY ClusterFates
<1>3. PICK to \in Ideal!Fates[tx[s][c]] : tx' = [tx EXCEPT ![s][c] = to]
  BY <1>2
<1>4. /\ TxTyped /\ FileTyped(file) /\ EverySendIsRecorded
  BY DEF IInv, WorldTyped
<1>5. file.chunks[c].sig = s /\ s # None
  <2>1. tx[s][c] # "none"
    BY <1>2 DEF Ideal!Fates
  <2>. QED  BY <1>4, <2>1, UploadAssumption DEF EverySendIsRecorded, Signers
<1>6. Chain[c] = tx[s][c]
  BY <1>5, ChainOf
<1>7. ASSUME NEW d \in Chunks
      PROVE  Chain'[d] = IF d = c THEN to ELSE Chain[d]
  <2>1. \A r \in Signers : tx'[r][d] = IF r = s /\ d = c THEN to ELSE tx[r][d]
    BY <1>3, <1>4 DEF TxTyped
  <2>2. file.chunks[d].sig \in Signers \cup {None}
    BY <1>4 DEF FileTyped, ChunkRecord
  <2>3. Chain'[d] = IF file.chunks[d].sig = None THEN "none" ELSE tx'[file.chunks[d].sig][d]
    BY <1>1 DEF Chain
  <2>4. Chain[d] = IF file.chunks[d].sig = None THEN "none" ELSE tx[file.chunks[d].sig][d]
    BY DEF Chain
  <2>. QED  BY <1>5, <2>1, <2>2, <2>3, <2>4
<1>8. Chain' = [Chain EXCEPT ![c] = Chain'[c]]
  <2>1. Chain = [d \in Chunks |-> Chain[d]] /\ Chain' = [d \in Chunks |-> Chain'[d]]
    BY DEF Chain
  <2>. QED  BY <1>7, <2>1
<1>9. Chain'[c] \in Ideal!Fates[Chain[c]]
  BY <1>6, <1>7
<1>10. /\ Undo' = Undo /\ Past' = Past /\ Matched' = Matched /\ Legacy' = Legacy
       /\ Working' = Working /\ lease'.exec = lease.exec /\ file'.chunks = file.chunks
  BY <1>1, SameUndo DEF Past, Matched, Legacy, Working, InWindow
<1>11. Ideal!Advance(c)
  BY <1>2, <1>6, <1>8, <1>9, <1>10 DEF Ideal!Advance
<1>. QED  BY <1>11 DEF Ideal!Next

-------------------------------------------------------------------------------
(* A step of a lease command                                                 *)

(* An apply is the only one there is.                                        *)
LEMMA UndoOfHolder ==
    ASSUME IInv, NEW o \in Operators, opLock = o
    PROVE  /\ op[o].pc = "applied" => Undo = {op[o].saved.chunks}
           /\ op[o].pc # "applied" => Undo = {}
<1>1. \A r \in Operators \ {o} : op[r].pc # "applied"
  BY DEF IInv, OpInv
<1>. QED  BY <1>1 DEF Undo

LEMMA UndoAfter ==
    ASSUME IInv, NEW o \in Operators, opLock = o, CommandOnly(o)
    PROVE  /\ op'[o].pc = "applied" => Undo' = {op'[o].saved.chunks}
           /\ op'[o].pc # "applied" => Undo' = {}
<1>1. \A r \in Operators \ {o} : op'[r].pc # "applied"
  BY DEF IInv, OpInv, CommandOnly
<1>. QED  BY <1>1 DEF Undo

LEMMA SameWorking ==
    ASSUME UNCHANGED proc  PROVE Working' = Working
BY DEF Working, InWindow

(* A step that neither applies nor ends an apply is not seen.                *)
LEMMA QuietIsStutter ==
    ASSUME IInv, NEW o \in Operators, CommandOnly(o),
           op[o].pc # "applied", op'[o].pc # "applied",
           lease'.exec = lease.exec, UNCHANGED <<file, tx, archive, proc, scn>>
    PROVE  UNCHANGED Ideal!ideal
<1>1. Undo' = Undo
  <2>1. \A r \in Operators :
           /\ op'[r].pc = "applied" <=> op[r].pc = "applied"
           /\ op[r].pc = "applied" => op'[r] = op[r]
    BY DEF CommandOnly
  <2>. QED  BY <2>1 DEF Undo
<1>. QED  BY <1>1, SameWorking, Stutter

LEMMA ApplyIsReconcile ==
    ASSUME IInv, NEW o \in Operators, applyUploadReconciliation(o), UNCHANGED <<proc, scn>>
    PROVE  Ideal!Reconcile
<1>1. /\ lease # NoLease /\ lease.exec = op[o].exec /\ op[o].exec \in Execs
      /\ proc[op[o].exec].pc = "ended"
      /\ Unresolved(file) # {}
      /\ \A c \in Unresolved(file) : tx[file.chunks[c].sig][c] = "final"
      /\ file'.chunks = [c \in Chunks |->
            IF c \in Unresolved(file)
            THEN [status |-> "CONFIRMED", sig |-> file.chunks[c].sig] ELSE file.chunks[c]]
  BY ApplyEffect
<1>2. /\ op[o].pc = "locked" /\ opLock = o
      /\ op' = [op EXCEPT ![o].pc = "applied", ![o].saved = file]
      /\ UNCHANGED <<lease, archive, opLock, os, tx, proc, scn>>
  BY DEF applyUploadReconciliation, Locked, IInv, OpInv
<1>3. CommandOnly(o) /\ op'[o].pc = "applied" /\ op'[o].saved = file
  BY <1>2 DEF IInv, OpTyped, CommandOnly
<1>4. Undo = {} /\ Undo' = {file.chunks}
  BY <1>2, <1>3, UndoOfHolder, UndoAfter
<1>5. Ideal!Pending = Unresolved(file)
  BY DEF Ideal!Pending, Unresolved, WithStatus
<1>6. ~Working
  BY <1>1, NobodyInWindow DEF Working
<1>7. \A c \in Unresolved(file) : Chain[c] = "final"
  <2>1. \A c \in Unresolved(file) : c \in Chunks /\ file.chunks[c].sig # None
    BY DEF IInv, WorldTyped, FileTyped, ChunkRecord, Unresolved, WithStatus
  <2>. QED  BY <1>1, <2>1, ChainOf
<1>8. Chain' = Chain
  <2>1. \A c \in Chunks : file'.chunks[c].sig = file.chunks[c].sig
    BY <1>1
  <2>. QED  BY <1>2, <2>1, ChainStays
<1>9. /\ Past' = Past /\ Matched' = Matched /\ Legacy' = Legacy /\ Working' = Working
      /\ lease'.exec = lease.exec
  BY <1>2, SameWorking DEF Past, Matched, Legacy
<1>10. lease.exec # None
  BY <1>1, UploadAssumption
<1>. QED  BY <1>1, <1>4, <1>5, <1>6, <1>7, <1>8, <1>9, <1>10 DEF Ideal!Reconcile

(* The end of an apply, whether it was read back, taken back or killed.      *)
LEMMA EndOfApplyIsVerify ==
    ASSUME IInv, NEW o \in Operators, CommandOnly(o),
           op[o].pc = "applied", op'[o].pc # "applied", file' \in {file, op[o].saved},
           UNCHANGED <<lease, archive, tx, proc, scn>>
    PROVE  Ideal!Verify
<1>1. opLock = o /\ FileTyped(op[o].saved) /\ Applied(op[o].saved, file)
  BY DEF IInv, OpInv
<1>2. Undo = {op[o].saved.chunks} /\ Undo' = {}
  BY <1>1, UndoOfHolder, UndoAfter
<1>3. Chain' = Chain
  <2>1. \A c \in Chunks : file'.chunks[c].sig = file.chunks[c].sig
    BY <1>1 DEF Applied
  <2>. QED  BY <2>1, ChainStays
<1>4. file'.chunks \in Undo \cup {file.chunks}
  BY <1>2
<1>5. /\ Past' = Past /\ Matched' = Matched /\ Legacy' = Legacy /\ Working' = Working
      /\ lease'.exec = lease.exec
  BY SameWorking DEF Past, Matched, Legacy
<1>. QED  BY <1>2, <1>3, <1>4, <1>5 DEF Ideal!Verify

LEMMA ArchiveIsRelease ==
    ASSUME IInv, NEW o \in Operators, ArchiveLease(o), UNCHANGED <<proc, scn>>,
           lease' = NoLease,
           archive' = [archive EXCEPT ![op[o].exec] = [hash |-> op[o].hash, dir |-> lease]]
    PROVE  Ideal!Release
<1>. DEFINE e == op[o].exec
<1>1. /\ op[o].pc = "receipt" /\ Done(o, op[o].hash)
      /\ UNCHANGED <<file, os, tx, proc, scn>>
  BY DEF ArchiveLease, EndLocked
<1>2. /\ opLock = o /\ lease # NoLease /\ lease.exec = e /\ e \in Execs /\ e # None
      /\ proc[e].pc = "ended" /\ Unresolved(file) = {}
  BY <1>1, UploadAssumption DEF IInv, OpInv, Deciding
<1>3. CommandOnly(o) /\ op'[o].pc = "idle"
  BY <1>1, DoneEffect
<1>4. Undo = {} /\ Undo' = {}
  BY <1>1, <1>2, <1>3, UndoOfHolder, UndoAfter
<1>5. Ideal!Pending = {}
  BY <1>2 DEF Ideal!Pending, Unresolved, WithStatus
<1>6. ~Working
  BY <1>2, NobodyInWindow DEF Working
<1>7. Past' = Past \cup {e}
  <2>1. \A d \in Execs : archive'[d] # NoArchive <=> d = e \/ archive[d] # NoArchive
    <3>1. archive'[e].dir = lease
      BY <1>2 DEF IInv, WorldTyped
    <3>2. archive'[e] # NoArchive
      BY <1>2, <3>1 DEF NoArchive
    <3>3. \A d \in Execs \ {e} : archive'[d] = archive[d]
      BY DEF IInv, WorldTyped
    <3>. QED  BY <3>2, <3>3
  <2>. QED  BY <1>2, <2>1 DEF Past
<1>8. lease'.exec = None
  BY DEF NoLease
<1>9. /\ Chain' = Chain /\ Matched' = Matched /\ Legacy' = Legacy /\ Working' = Working
      /\ file'.chunks = file.chunks
  BY <1>1, SameWorking DEF Chain, Matched, Legacy
<1>. QED  BY <1>2, <1>4, <1>5, <1>6, <1>7, <1>8, <1>9 DEF Ideal!Release

LEMMA QuietCommands ==
    ASSUME IInv, NEW o \in Operators, UNCHANGED <<proc, scn>>,
           \/ \E cmd \in Commands, e \in Execs : StartCommand(o, cmd, e)
           \/ ObserveCluster(o)
           \/ reconcileUploadLease(o)
           \/ acquireOperationLock(o)
           \/ WriteReleaseReceipt(o)
           \/ reconcilePreSelectionUploadLease(o)
           \/ RefreshInput(o)
           \/ WriteRecoveryReceipt(o)
           \/ Refuse(o)
    PROVE  UNCHANGED Ideal!ideal
<1>1. OpTyped /\ LeaseTyped
  BY DEF IInv, WorldTyped
<1>2. /\ op[o].pc # "applied"
      /\ UNCHANGED <<file, tx, archive, proc, scn>>
  BY DEF StartCommand, ObserveCluster, reconcileUploadLease, acquireOperationLock,
         WriteReleaseReceipt, reconcilePreSelectionUploadLease, RefreshInput,
         WriteRecoveryReceipt, Refuse, Locked, worldVars
<1>3. CommandOnly(o) /\ op'[o].pc # "applied"
  <2>1. CASE \E hash : Done(o, hash)
    BY <2>1, DoneEffect
  <2>2. CASE \E cmd \in Commands, e \in Execs : StartCommand(o, cmd, e)
    <3>. PICK cmd, e : op' = [op EXCEPT ![o].pc = "collect", ![o].cmd = cmd, ![o].exec = e,
                                        ![o].state = file]
      BY <2>2 DEF StartCommand
    <3>. QED  BY <1>1 DEF OpTyped, CommandOnly
  <2>3. CASE ObserveCluster(o)
    <3>. PICK obs : op' = [op EXCEPT ![o].pc = "ready", ![o].obs = obs]
      BY <2>3 DEF ObserveCluster
    <3>. QED  BY <1>1 DEF OpTyped, CommandOnly
  <2>4. CASE RefreshInput(o)
    <3>. PICK obs : op' = [op EXCEPT ![o].pc = "refreshed", ![o].state = file, ![o].obs = obs]
      BY <2>4 DEF RefreshInput
    <3>. QED  BY <1>1 DEF OpTyped, CommandOnly
  <2>5. CASE \E pc \in {"locked", "receipt"} : op' = [op EXCEPT ![o].pc = pc]
    BY <1>1, <2>5 DEF OpTyped, CommandOnly
  <2>. QED  BY <2>1, <2>2, <2>3, <2>4, <2>5
            DEF reconcileUploadLease, acquireOperationLock, WriteReleaseReceipt, EndLocked,
                reconcilePreSelectionUploadLease, WriteRecoveryReceipt, Refuse
<1>4. lease'.exec = lease.exec
  <2>1. CASE UNCHANGED lease
    BY <2>1
  <2>2. CASE lease # NoLease /\ lease' = [lease EXCEPT !.receipt = op[o].hash]
    BY <1>1, <2>2 DEF LeaseTyped
  <2>. QED  BY <2>1, <2>2
            DEF StartCommand, ObserveCluster, reconcileUploadLease, acquireOperationLock,
                WriteReleaseReceipt, reconcilePreSelectionUploadLease, RefreshInput,
                WriteRecoveryReceipt, Refuse, worldVars, Releasable, Recoverable
<1>. QED  BY <1>2, <1>3, <1>4, QuietIsStutter

LEMMA CommandIsIdeal ==
    ASSUME IInv, NEW o \in Operators, UNCHANGED <<proc, scn>>,
           \/ \E cmd \in Commands, e \in Execs : StartCommand(o, cmd, e)
           \/ OperatorStep(o)
           \/ KillCommand(o)
    PROVE  Ideal!Next \/ UNCHANGED Ideal!ideal
<1>1. CASE applyUploadReconciliation(o)
  BY <1>1, ApplyIsReconcile DEF Ideal!Next
<1>2. CASE ApplyVerified(o)
  <2>1. /\ op[o].pc = "applied" /\ Done(o, op[o].hash) /\ file' \in {file, op[o].saved}
        /\ UNCHANGED <<lease, archive, tx, proc, scn>>
    BY <1>2 DEF ApplyVerified, EndLocked
  <2>2. CommandOnly(o) /\ op'[o].pc = "idle"
    BY <2>1, DoneEffect
  <2>. QED  BY <2>1, <2>2, EndOfApplyIsVerify DEF Ideal!Next
<1>3. CASE KillCommand(o)
  <2>1. /\ CommandOnly(o) /\ op'[o].pc = "dead"
        /\ UNCHANGED <<file, lease, archive, tx, proc, scn>>
    BY <1>3 DEF KillCommand, worldVars, IInv, OpTyped, CommandOnly, NewOp
  <2>2. CASE op[o].pc = "applied"
    BY <2>1, <2>2, EndOfApplyIsVerify DEF Ideal!Next
  <2>3. CASE op[o].pc # "applied"
    BY <2>1, <2>3, QuietIsStutter
  <2>. QED  BY <2>2, <2>3
<1>4. CASE ArchiveLease(o)
  <2>1. CASE UNCHANGED <<lease, archive>>
    <3>1. /\ op[o].pc = "receipt" /\ Done(o, op[o].hash)
          /\ UNCHANGED <<file, lease, archive, tx, proc, scn>>
      BY <1>4, <2>1 DEF ArchiveLease, EndLocked
    <3>2. CommandOnly(o) /\ op'[o].pc = "idle"
      BY <3>1, DoneEffect
    <3>. QED  BY <3>1, <3>2, QuietIsStutter
  <2>2. CASE /\ lease' = NoLease
             /\ archive' = [archive EXCEPT ![op[o].exec] = [hash |-> op[o].hash, dir |-> lease]]
    BY <1>4, <2>2, ArchiveIsRelease DEF Ideal!Next
  <2>. QED  BY <1>4, <2>1, <2>2 DEF ArchiveLease
<1>. QED  BY <1>1, <1>2, <1>3, <1>4, QuietCommands DEF OperatorStep

-------------------------------------------------------------------------------

LEMMA StepIsIdeal == IInv /\ IInv' /\ [Next]_vars => [Ideal!Next]_Ideal!ideal
<1>. SUFFICES ASSUME IInv, IInv', [Next]_vars
              PROVE  Ideal!Next \/ UNCHANGED Ideal!ideal
  OBVIOUS
<1>1. CASE UploaderNext /\ UNCHANGED <<op, scn>>
  BY <1>1, UploaderEffect, UploaderIsIdeal DEF UploaderNext
<1>2. CASE OperatorNext /\ UNCHANGED <<proc, scn>>
  BY <1>2, CommandIsIdeal DEF OperatorNext
<1>3. CASE ClusterNext /\ UNCHANGED <<proc, op, scn>>
  BY <1>3, ClusterIsIdeal
<1>4. CASE UNCHANGED vars
  BY <1>4, SameUndo, SameWorking, Stutter DEF vars
<1>. QED  BY <1>1, <1>2, <1>3, <1>4 DEF Next

(* The tooling implements the single careful worker of IdealUpload: every    *)
(* step of a process, a lease command or the cluster is one of its moves or  *)
(* changes nothing it can see, whatever is killed, thrown or refused.        *)
THEOREM SystemIsIdeal == Spec => ImplementsIdeal
BY InitIsIdeal, StepIsIdeal, UploadInvariant, PTL DEF Spec, ImplementsIdeal, Ideal!Spec
===============================================================================
