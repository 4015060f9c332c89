------------------------------ MODULE Telemetry -------------------------------
(***************************************************************************)
(* The telemetry of one upload window: the store of                        *)
(* scripts/devnet/upload-execution-telemetry.mjs, the ledger that feeds it *)
(* (rpc-request-ledger.mjs) and the window that calls both                 *)
(* (upload-execution-command.mjs, throttled-uploader.mjs).  Every record   *)
(* is a write of telemetry.json that may fail; the store keeps a copy in   *)
(* memory and builds the next record on that copy.                         *)
(*                                                                         *)
(* Times are the readings of one clock that goes up at every record.  The  *)
(* spacing of requests and polls is the scheduler's promise (RpcScheduler);*)
(* here the policy checks on gaps hold.                                    *)
(***************************************************************************)
EXTENDS Integers, Sequences, FiniteSets, SequencesExt

CONSTANTS
    N,          \* chunks of the plan that are not confirmed
    MaxChunks,  \* policy.maxChunksPerWindow
    MaxPolls,   \* polls that fit into the confirmation deadline
    MaxRetries, \* retries of a read request
    MaxFaults,  \* bound: writes of telemetry.json and requests that fail
    None

-------------------------------------------------------------------------------
(* The records of the snapshot                                               *)

RequestTypes == {"READ", "BLOCKHASH", "SEND", "STATUS"}

RequestOutcomes == {"SUCCESS", "RATE_LIMITED", "TIMEOUT", "ERROR"}

Requests ==
    [seq : Nat, type : RequestTypes, start : Nat, end : Nat \cup {None},
     out : RequestOutcomes \cup {None}]

Sends ==
    [chunk : Nat, started : Nat \cup {None}, finished : Nat \cup {None},
     out : {"SUCCESS", "ERROR", None}]

Polls == [chunk : Nat, seq : Nat, start : Nat]

Snapshots ==
    [finished : Nat \cup {None}, requests : Seq(Requests), sends : Seq(Sends),
     polls : Seq(Polls), expected : Seq(Nat)]

ASSUME TelemetryAssumption ==
    /\ N \in Nat \ {0} /\ MaxChunks \in Nat \ {0} /\ MaxPolls \in Nat \ {0}
    /\ MaxRetries \in Nat /\ MaxFaults \in Nat
    /\ None \notin Nat \cup RequestOutcomes \cup RequestTypes \cup Snapshots

VARIABLES
    snap,     \* the store's snapshot in memory, or None before it exists
    disk,     \* telemetry.json, or None
    ledger,   \* what went over the network: the ledger's requests by sequence
    win,      \* the window that runs
    outcome,  \* the window's outcome in the state file, or None
    faults    \* failed writes and requests so far

vars == <<snap, disk, ledger, win, outcome, faults>>

-------------------------------------------------------------------------------
(* The snapshot                                                              *)

EmptySnapshot ==
    [finished |-> None, requests |-> <<>>, sends |-> <<>>, polls |-> <<>>,
     expected |-> <<>>]

Members(s) == {s[i] : i \in DOMAIN s}

Increasing(s) == \A i, j \in DOMAIN s : i < j => s[i] < s[j]

requestWithinSend(r, s) ==
    /\ r.type = "SEND"
    /\ s.started # None
    /\ r.start >= s.started
    /\ s.finished # None => r.end # None /\ r.end <= s.finished

validateRecordLinks(sn) ==
    /\ \A p \in Members(sn.polls) :
          \E r \in Members(sn.requests) :
              r.seq = p.seq /\ r.type = "STATUS" /\ r.start = p.start
    /\ \A r \in Members(sn.requests) : r.type = "SEND" =>
          Cardinality({s \in Members(sn.sends) : requestWithinSend(r, s)}) = 1

validateSnapshot(sn) ==
    /\ Increasing([i \in DOMAIN sn.requests |-> sn.requests[i].seq])
    /\ \A r \in Members(sn.requests) :
          /\ (r.end = None) <=> (r.out = None)
          /\ r.end # None => r.end >= r.start
    /\ Increasing([i \in DOMAIN sn.sends |-> sn.sends[i].chunk])
    /\ \A s \in Members(sn.sends) :
          /\ (s.finished = None) <=> (s.out = None)
          /\ s.finished # None => s.started # None /\ s.finished >= s.started
    /\ Increasing([i \in DOMAIN sn.polls |-> sn.polls[i].seq])
    /\ Increasing(sn.expected)
    /\ validateRecordLinks(sn)

(* Mutant: sends beyond the expected chunks are not looked for.              *)
SendsUnchecked(sn) == TRUE

(* Every send of the window is one of an expected chunk.                     *)
SendsAccounted(sn) == \A s \in Members(sn.sends) : s.chunk \in Members(sn.expected)

(* The verdict is COMPLETE when computeMissing finds nothing.                *)
Complete(sn) ==
    /\ sn.finished # None
    /\ Len(sn.requests) >= 2
    /\ \A r \in Members(sn.requests) : r.end # None
    /\ SendsAccounted(sn)
    /\ \A c \in Members(sn.expected) :
          /\ \E s \in Members(sn.sends) :
                /\ s.chunk = c /\ s.finished # None /\ s.out = "SUCCESS"
                /\ \E r \in Members(sn.requests) :
                      /\ {q \in Members(sn.requests) : requestWithinSend(q, s)} = {r}
                      /\ r.end # None /\ r.out = "SUCCESS"
          /\ Cardinality({p \in Members(sn.polls) : p.chunk = c}) >= 2
    /\ sn.expected # <<>>

(* extensionValue: a null may become a value, an array may get longer.       *)
Fills(old, new) == old = None \/ old = new

assertMonotonicExtension(old, new) ==
    /\ Fills(old.finished, new.finished)
    /\ Len(old.requests) <= Len(new.requests)
    /\ \A i \in DOMAIN old.requests :
          LET q == old.requests[i]
              r == new.requests[i]
          IN  /\ q.seq = r.seq /\ q.type = r.type /\ q.start = r.start
              /\ Fills(q.end, r.end) /\ Fills(q.out, r.out)
    /\ Len(old.sends) <= Len(new.sends)
    /\ \A i \in DOMAIN old.sends :
          LET s == old.sends[i]
              t == new.sends[i]
          IN  /\ s.chunk = t.chunk
              /\ Fills(s.started, t.started) /\ Fills(s.finished, t.finished)
              /\ Fills(s.out, t.out)
    /\ IsPrefix(old.polls, new.polls)
    /\ IsPrefix(old.expected, new.expected)
    /\ Complete(old) => Complete(new)

(* persist: the checks, then writeCanonicalJsonAtomic, then the copy in      *)
(* memory.  The write may fail before the rename, or after it in the flush   *)
(* of the directory: the file is then ahead of the memory.                   *)
PersistAfter(spent, next, result) ==
    LET admitted == validateSnapshot(next) /\ assertMonotonicExtension(snap, next)
    IN  \/ /\ result = "ok" /\ admitted
           /\ snap' = next /\ disk' = next
           /\ faults' = spent
        \/ /\ result = "failed" /\ admitted
           /\ spent < MaxFaults /\ faults' = spent + 1
           /\ disk' \in {disk, next}
           /\ UNCHANGED snap
        \/ /\ result = "refused" /\ ~admitted
           /\ faults' = spent
           /\ UNCHANGED <<snap, disk>>

persist(next, result) == PersistAfter(faults, next, result)

Results == {"ok", "failed", "refused"}

-------------------------------------------------------------------------------
(* The window                                                                *)

NewWindow ==
    [pc |-> "create",
     clock |-> 2,           \* the monotonic clock; the preflight used 0 and 1
     recovering |-> FALSE,  \* the first chunk's record is SENT or UNKNOWN
     chunk |-> 0,           \* the chunk at work
     req |-> None,          \* the request at work: its type
     retry |-> 0, polls |-> 0,
     seen |-> "null",       \* what confirm returned, then what became of the chunk
     sendOut |-> None,      \* the outcome recordSendFinish is called with
     error |-> None,        \* what the send failed with: rate, throw
     touched |-> FALSE,     \* a candidate was selected, or the state file changed
     status |-> None,       \* the result of the upload
     confirmed |-> <<>>,    \* confirmedIndexes, completedConfirmations
     evidence |-> None,     \* what finish returned
     refused |-> FALSE]     \* a finish was refused by the store's checks

(* The preflight has read the buffer before the window begins.               *)
Init ==
    /\ snap = None /\ disk = None /\ outcome = None /\ faults = 0
    /\ ledger = << [type |-> "READ", chunk |-> None, out |-> "SUCCESS"] >>
    /\ \E r \in BOOLEAN : win = [NewWindow EXCEPT !.recovering = r]

Tick(w) == [w EXCEPT !.clock = @ + 1]

Goto(w, pc) == [w EXCEPT !.pc = pc]

(* schedule: the request waits for its turn.                                 *)
Schedule(w, type) == [w EXCEPT !.pc = "scheduled", !.req = type, !.retry = 0]

(* createUploadTelemetryStore; without a store the catch block has nothing   *)
(* to finish.                                                                *)
CreateStore ==
    /\ win.pc = "create"
    /\ \/ /\ snap' = EmptySnapshot /\ disk' = EmptySnapshot
          /\ win' = Goto(win, "replay")
          /\ UNCHANGED faults
       \/ /\ faults < MaxFaults /\ faults' = faults + 1
          /\ disk' \in {disk, EmptySnapshot}
          /\ win' = Goto(win, "catch")
          /\ UNCHANGED snap
    /\ UNCHANGED <<ledger, outcome>>

(* recordRpcEntry on the entries the ledger already holds, then subscribe.   *)
Replay ==
    /\ win.pc = "replay"
    /\ \E result \in Results :
          /\ persist([snap EXCEPT !.requests = << [seq |-> 1, type |-> ledger[1].type,
                          start |-> 0, end |-> 1, out |-> ledger[1].out] >>], result)
          /\ win' = IF result # "ok" THEN Goto(win, "catch")
                    ELSE IF win.recovering THEN Schedule(win, "STATUS")
                    ELSE Goto(win, "select")
    /\ UNCHANGED <<ledger, outcome>>

(* sign: recordPreSignCooldown, the keypair, and the blockhash request.      *)
recordPreSignCooldown ==
    /\ win.pc = "select"
    /\ \E result \in Results :
          /\ persist([snap EXCEPT !.sends = Append(@, [chunk |-> win.chunk,
                          started |-> None, finished |-> None, out |-> None])], result)
          /\ LET w == [win EXCEPT !.touched = TRUE, !.polls = 0, !.seen = "null"]
             IN  win' = IF result = "ok" THEN Schedule(w, "BLOCKHASH") ELSE Goto(w, "catch")
    /\ UNCHANGED <<ledger, outcome>>

(* What the window does when a request fails.                                *)
Failed(w, error) ==
    IF w.req = "SEND"
    THEN [w EXCEPT !.pc = "sent", !.sendOut = "ERROR", !.error = error]
    ELSE Goto(w, "catch")

(* Mutant: the failure of an invocation-start subscriber is swallowed.       *)
InvokesAnyway(result) == TRUE

(* record calls the operation once every invocation-start subscriber has     *)
(* returned.                                                                 *)
Invokes(result) == result = "ok"

(* recordRpcStart by the invocation-start subscriber, then the operation.  A *)
(* start that fails uses up a sequence number, but no request follows it.    *)
StartRequest ==
    /\ win.pc = "scheduled"
    /\ \E result \in Results :
          /\ persist([snap EXCEPT
                !.requests = Append(@, [seq |-> Len(ledger) + 1, type |-> win.req,
                                start |-> win.clock, end |-> None, out |-> None]),
                !.polls = IF win.req # "STATUS" THEN @
                          ELSE Append(@, [chunk |-> win.chunk, seq |-> Len(ledger) + 1,
                                          start |-> win.clock])], result)
          /\ \/ /\ Invokes(result)
                /\ ledger' = Append(ledger, [type |-> win.req, chunk |-> win.chunk,
                                             out |-> None])
                /\ win' = Goto(Tick(win), "invoked")
             \/ /\ ~Invokes(result)
                /\ win' = Failed(Tick(win), "throw")
                /\ UNCHANGED ledger
    /\ UNCHANGED outcome

(* What became of a chunk.                                                   *)
reconcileChunk(status, matches, expired) ==
    IF status = "err" THEN "CONFIRMED_FAILURE"
    ELSE IF matches /\ (expired \/ status = "finalized") THEN "CONFIRMED"
    ELSE "UNKNOWN"

(* What the window does with the answer of a request.  confirmSignature      *)
(* polls until the transaction is final or its time is over.                 *)
Answers(w) ==
    CASE w.req = "BLOCKHASH" -> {Goto(w, "signed")}
      [] w.req = "SEND" -> {[w EXCEPT !.pc = "sent", !.sendOut = "SUCCESS"]}
      [] w.req = "READ" ->
            {[w EXCEPT !.pc = "settle", !.seen = reconcileChunk(@, matches, w.recovering)] :
                matches \in BOOLEAN}
      [] w.req = "STATUS" ->
            {Schedule([w EXCEPT !.seen = s], "READ") : s \in {"finalized", "err"}}
            \cup {IF w.polls + 1 < MaxPolls
                  THEN Schedule([w EXCEPT !.polls = @ + 1], "STATUS")
                  ELSE Schedule(w, "READ")}

(* append: the ledger has the entry, then the subscriber records it.  Only   *)
(* reads are tried again, and only when the store took the entry.            *)
EndRequest ==
    /\ win.pc = "invoked"
    /\ \E out \in {"SUCCESS", "RATE_LIMITED", "TIMEOUT", "ERROR"}, result \in Results :
          /\ out = "SUCCESS" \/ faults < MaxFaults
          /\ ledger' = [ledger EXCEPT ![Len(ledger)].out = out]
          /\ PersistAfter(IF out = "SUCCESS" THEN faults ELSE faults + 1, [snap EXCEPT
                            !.requests[Len(snap.requests)].end = win.clock,
                            !.requests[Len(snap.requests)].out = out], result)
          /\ \/ /\ result = "ok" /\ out = "SUCCESS"
                /\ win' \in Answers(Tick(win))
             \/ /\ result = "ok" /\ out \in {"RATE_LIMITED", "TIMEOUT"}
                /\ win.req # "SEND" /\ win.retry < MaxRetries
                /\ win' = [Tick(win) EXCEPT !.pc = "scheduled", !.retry = @ + 1]
             \/ /\ \/ result # "ok"
                   \/ out = "ERROR"
                   \/ out # "SUCCESS" /\ (win.req = "SEND" \/ win.retry = MaxRetries)
                /\ win' = Failed(Tick(win), IF result = "ok" /\ out = "RATE_LIMITED"
                                           THEN "rate" ELSE "throw")
    /\ UNCHANGED outcome

(* The request is not made: a checkpoint that drifted, an aborted scheduler, *)
(* or, for a poll, no time left before the deadline.                         *)
SkipRequest ==
    /\ win.pc = "scheduled"
    /\ \/ win.req = "STATUS" /\ win' = Schedule(win, "READ")
       \/ win' = Failed(win, "throw")
    /\ UNCHANGED <<snap, disk, ledger, outcome, faults>>

(* buildAndSign, and SENT in the checkpoint; then recordSendStart.           *)
recordSendStart ==
    /\ win.pc = "signed"
    /\ \/ /\ win' = Goto(win, "catch")
          /\ UNCHANGED <<snap, disk, faults>>
       \/ \E result \in Results :
             /\ persist([snap EXCEPT !.sends[Len(snap.sends)].started = win.clock], result)
             /\ win' = IF result = "ok" THEN Schedule(Tick(win), "SEND")
                       ELSE Goto(Tick(win), "catch")
    /\ UNCHANGED <<ledger, outcome>>

(* A SUCCESS that cannot be recorded is recorded as an ERROR; what that      *)
(* record fails with hides the error of the send.                            *)
recordSendFinish ==
    /\ win.pc = "sent"
    /\ \E result \in Results :
          /\ persist([snap EXCEPT !.sends[Len(snap.sends)].finished = win.clock,
                                  !.sends[Len(snap.sends)].out = win.sendOut], result)
          /\ win' = CASE win.sendOut = "SUCCESS" /\ result = "ok" ->
                            Schedule(Tick(win), "STATUS")
                      [] win.sendOut = "SUCCESS" /\ result # "ok" ->
                            [Tick(win) EXCEPT !.sendOut = "ERROR", !.error = "throw"]
                      [] win.sendOut = "ERROR" /\ result = "ok" /\ win.error = "rate" ->
                            [Tick(win) EXCEPT !.pc = "finish", !.status = "RATE_LIMITED"]
                      [] OTHER -> Goto(Tick(win), "catch")
    /\ UNCHANGED <<ledger, outcome>>

(* The outcome of a chunk goes to the checkpoint, which may fail.  A chunk   *)
(* that was pending before the window is skipped, not counted.               *)
Settle ==
    /\ win.pc = "settle"
    /\ LET counted == IF win.recovering THEN win.confirmed ELSE Append(win.confirmed, win.chunk)
           done == [win EXCEPT !.recovering = FALSE, !.confirmed = counted,
                               !.chunk = @ + 1, !.touched = TRUE]
       IN  \/ win' = Goto(win, "catch")
           \/ /\ win.seen # "CONFIRMED"
              /\ win' = [win EXCEPT !.pc = "finish", !.status = win.seen, !.touched = TRUE]
           \/ /\ win.seen = "CONFIRMED"
              /\ win' = IF win.chunk + 1 = N
                        THEN [done EXCEPT !.pc = "finish", !.status = "COMPLETE"]
                        ELSE IF Len(counted) >= MaxChunks
                        THEN [done EXCEPT !.pc = "finish", !.status = "WINDOW_LIMIT"]
                        ELSE Goto(done, "select")
    /\ UNCHANGED <<snap, disk, ledger, outcome, faults>>

(* Mutant: the catch block finishes the telemetry in every phase.            *)
CatchFinishes == "catch"

(* The catch block of a window whose phase is TERMINALIZATION.               *)
CatchTerminal == "error"

(* Mutant: the evidence is returned although the file was not written.       *)
EvidenceUnwritten(next, result) == next

(* persist returns the evidence of the snapshot it has written.              *)
EvidenceOf(next, result) == IF result = "ok" THEN next ELSE None

(* finish, at the end of the upload and in the catch block; the catch block  *)
(* skips it when the window had already come to its terminalization.         *)
finish ==
    /\ win.pc \in {"finish", "catch"}
    /\ IF snap = None
       THEN /\ win' = Goto(win, "error")
            /\ UNCHANGED <<snap, disk, faults>>
       ELSE LET next == [snap EXCEPT !.finished = win.clock, !.expected = win.confirmed]
            IN  \E result \in Results :
                  /\ persist(next, result)
                  /\ win' = [Tick(win) EXCEPT
                        !.pc = CASE win.pc = "catch" -> "error"
                                 [] win.pc = "finish" /\ result = "ok" -> "append"
                                 [] OTHER -> CatchTerminal,
                        !.evidence = EvidenceOf(next, result),
                        !.refused = @ \/ result = "refused"]
    /\ UNCHANGED <<ledger, outcome>>

(* appendWindowOutcome of the window's result.  When it fails, the catch     *)
(* block has no evidence to refer to.                                        *)
AppendOutcome ==
    /\ win.pc = "append"
    /\ \/ /\ outcome' = [status |-> win.status, ref |-> win.evidence]
          /\ win' = Goto(win, "ended")
       \/ /\ win' = [win EXCEPT !.pc = CatchTerminal, !.evidence = None]
          /\ UNCHANGED outcome
    /\ UNCHANGED <<snap, disk, ledger, faults>>

(* appendWindowOutcome of an error, unless the failure was pre-selection.    *)
AppendError ==
    /\ win.pc = "error"
    /\ \/ /\ win.touched
          /\ outcome' = [status |-> "EXECUTION_ERROR", ref |-> win.evidence]
       \/ UNCHANGED outcome
    /\ win' = Goto(win, "ended")
    /\ UNCHANGED <<snap, disk, ledger, faults>>

(* The process is killed.                                                    *)
Kill ==
    /\ win.pc # "ended"
    /\ win' = Goto(win, "ended")
    /\ UNCHANGED <<snap, disk, ledger, outcome, faults>>

Next ==
    \/ CreateStore
    \/ Replay
    \/ recordPreSignCooldown
    \/ StartRequest
    \/ EndRequest
    \/ SkipRequest
    \/ recordSendStart
    \/ recordSendFinish
    \/ Settle
    \/ finish
    \/ AppendOutcome
    \/ AppendError
    \/ Kill

Spec == Init /\ [][Next]_vars

-------------------------------------------------------------------------------
Sent == {i \in DOMAIN ledger : ledger[i].type = "SEND"}

(* A send that went over the network has, in telemetry.json, its request and *)
(* its started boundary, whichever writes failed before or since and         *)
(* wherever the process died.  Pre-selection recovery relies on it: it takes *)
(* a file without sends for a window that sent nothing.                      *)
SendIsEvidenced ==
    \A i \in Sent :
        /\ disk # None
        /\ \E r \in Members(disk.requests) : r.seq = i /\ r.type = "SEND"
        /\ \E s \in Members(disk.sends) : s.chunk = ledger[i].chunk /\ s.started # None

(* A COMPLETE verdict leaves nothing out: each chunk the window sent was     *)
(* sent once and settled as confirmed, and every request that went over the  *)
(* network is in the file with the outcome the ledger has for it.            *)
CompleteLeavesNothingOut ==
    disk # None /\ Complete(disk) =>
        /\ \A i \in Sent : ledger[i].chunk \in Members(win.confirmed)
        /\ \A c \in Members(win.confirmed) :
              Cardinality({i \in Sent : ledger[i].chunk = c}) = 1
        /\ \A i \in DOMAIN ledger :
              \E r \in Members(disk.requests) :
                  r.seq = i /\ r.type = ledger[i].type /\ r.out = ledger[i].out

(* The hash an outcome refers to is the hash of the file on disk, also when  *)
(* writes failed on the way: verifyTelemetryStateBinding would refuse to     *)
(* release the lease for ever otherwise.                                     *)
OutcomeNamesTheFile ==
    outcome # None /\ outcome.ref # None => outcome.ref = disk

(* Whatever was recorded before, and whatever could not be, the terminal     *)
(* record passes the store's checks: only a failed write keeps it out.       *)
FinishNeverRefused == ~win.refused
===============================================================================
