--------------------------- MODULE TelemetryProofs ----------------------------
(***************************************************************************)
(* Theorems about Telemetry: the record of an upload window and what went  *)
(* over the network, for any plan, policy and number of faults.            *)
(***************************************************************************)
EXTENDS Telemetry, FiniteSetTheorems, TLAPS

-------------------------------------------------------------------------------
(* Types                                                                     *)

Pcs == {"create", "replay", "select", "scheduled", "invoked", "signed", "sent", "settle",
        "finish", "catch", "append", "error", "ended"}

SeenValues == {"null", "finalized", "err", "CONFIRMED_FAILURE", "CONFIRMED", "UNKNOWN"}

Statuses == SeenValues \cup {"RATE_LIMITED", "COMPLETE", "WINDOW_LIMIT"}

Windows ==
    [pc : Pcs, clock : Nat, recovering : BOOLEAN, chunk : Nat, req : RequestTypes \cup {None},
     retry : Nat, polls : Nat, seen : SeenValues, sendOut : {"SUCCESS", "ERROR", None},
     error : {"rate", "throw", None}, touched : BOOLEAN,
     status : Statuses \cup {None},
     confirmed : Seq(Nat), evidence : Snapshots \cup {None}, refused : BOOLEAN]

Entries ==
    [type : RequestTypes, chunk : Nat \cup {None}, out : RequestOutcomes \cup {None}]

StoreTyped == snap \in Snapshots \cup {None} /\ disk \in Snapshots \cup {None}

LedgerTyped == ledger \in Seq(Entries)

WindowTyped == win \in Windows

-------------------------------------------------------------------------------
(* What a step does to the window.                                           *)

(* The fields only Settle, finish and AppendOutcome change.                  *)
Kept(w, v) ==
    /\ v.chunk = w.chunk /\ v.confirmed = w.confirmed /\ v.evidence = w.evidence
    /\ v.recovering <=> w.recovering
    /\ v.refused <=> w.refused

LEMMA GotoIs ==
    ASSUME NEW w \in Windows, NEW p \in Pcs
    PROVE  /\ Goto(w, p) \in Windows /\ Kept(w, Goto(w, p))
           /\ Goto(w, p).pc = p /\ Goto(w, p).req = w.req /\ Goto(w, p).sendOut = w.sendOut
           /\ Goto(w, p).clock = w.clock
BY DEF Goto, Windows, Kept

LEMMA TickIs ==
    ASSUME NEW w \in Windows
    PROVE  /\ Tick(w) \in Windows /\ Kept(w, Tick(w))
           /\ Tick(w).pc = w.pc /\ Tick(w).req = w.req /\ Tick(w).sendOut = w.sendOut
           /\ Tick(w).polls = w.polls /\ Tick(w).retry = w.retry
BY DEF Tick, Windows, Kept

LEMMA ScheduleIs ==
    ASSUME NEW w \in Windows, NEW t \in RequestTypes
    PROVE  /\ Schedule(w, t) \in Windows /\ Kept(w, Schedule(w, t))
           /\ Schedule(w, t).pc = "scheduled" /\ Schedule(w, t).req = t
           /\ Schedule(w, t).sendOut = w.sendOut
BY DEF Schedule, Windows, Kept, Pcs

LEMMA KeptTwice ==
    ASSUME NEW u, NEW v, NEW w, Kept(u, v), Kept(v, w)
    PROVE  Kept(u, w)
BY DEF Kept

(* A send that fails goes on to its record, any other failure ends the window.*)
FailedTo(w, v) ==
    \/ w.req = "SEND" /\ v.pc = "sent" /\ v.sendOut = "ERROR"
    \/ w.req # "SEND" /\ v.pc = "catch"

LEMMA FailedIs ==
    ASSUME NEW w \in Windows, NEW e \in {"rate", "throw"}
    PROVE  /\ Failed(w, e) \in Windows /\ Kept(w, Failed(w, e)) /\ FailedTo(w, Failed(w, e))
           /\ Failed(w, e).req = w.req
<1>1. CASE w.req = "SEND"
  <2>. DEFINE q == [[[w EXCEPT !.pc = "sent"] EXCEPT !.sendOut = "ERROR"] EXCEPT !.error = e]
  <2>1. Failed(w, e) = q
    BY <1>1 DEF Failed, Windows
  <2>2. q \in Windows /\ Kept(w, q) /\ q.pc = "sent" /\ q.sendOut = "ERROR" /\ q.req = w.req
    BY DEF Windows, Kept, Pcs
  <2>. HIDE DEF q
  <2>. QED  BY <1>1, <2>1, <2>2 DEF FailedTo
<1>2. CASE w.req # "SEND"
  BY <1>2, GotoIs DEF Failed, FailedTo, Pcs
<1>. QED  BY <1>1, <1>2

(* Where an answer leads.                                                    *)
AnsweredTo(w, v) ==
    \/ w.req = "BLOCKHASH" /\ v.pc = "signed"
    \/ w.req = "SEND" /\ v.pc = "sent"
    \/ w.req \in {"STATUS", "READ"} /\ v.pc = "settle"
    \/ w.req \in {"STATUS", "READ"} /\ v.pc = "scheduled" /\ v.req \in {"STATUS", "READ"}

LEMMA AnswersAre ==
    ASSUME NEW w \in Windows, NEW v \in Answers(w), w.req # None
    PROVE  v \in Windows /\ Kept(w, v) /\ AnsweredTo(w, v)
<1>0. w.req \in RequestTypes
  BY DEF Windows
<1>1. CASE w.req = "BLOCKHASH"
  <2>1. v = Goto(w, "signed")
    BY <1>1 DEF Answers
  <2>. QED  BY <1>1, <2>1, GotoIs DEF AnsweredTo, Pcs
<1>2. CASE w.req = "SEND"
  <2>1. v = [[w EXCEPT !.pc = "sent"] EXCEPT !.sendOut = "SUCCESS"]
    BY <1>2 DEF Answers, Windows
  <2>. QED  BY <1>2, <2>1 DEF AnsweredTo, Pcs, Windows, Kept
<1>3. CASE w.req = "READ"
  <2>1. PICK m \in BOOLEAN : v = [w EXCEPT !.pc = "settle",
                                          !.seen = reconcileChunk(w.seen, m, w.recovering)]
    BY <1>3 DEF Answers
  <2>2. reconcileChunk(w.seen, m, w.recovering) \in {"CONFIRMED_FAILURE", "CONFIRMED", "UNKNOWN"}
    BY DEF reconcileChunk
  <2>. QED  BY <1>3, <2>1, <2>2 DEF AnsweredTo, Pcs, Windows, Kept, SeenValues
<1>4. CASE w.req = "STATUS"
  <2>1. \/ \E x \in {"finalized", "err"} : v = Schedule([w EXCEPT !.seen = x], "READ")
        \/ v = Schedule([w EXCEPT !.polls = w.polls + 1], "STATUS")
        \/ v = Schedule(w, "READ")
    BY <1>4 DEF Answers
  <2>2. ASSUME NEW x \in {"finalized", "err"}
        PROVE  [w EXCEPT !.seen = x] \in Windows /\ Kept(w, [w EXCEPT !.seen = x])
    BY <2>2 DEF Windows, Kept, SeenValues
  <2>3. [w EXCEPT !.polls = w.polls + 1] \in Windows /\ Kept(w, [w EXCEPT !.polls = w.polls + 1])
    BY DEF Windows, Kept
  <2>4. \E u \in Windows : Kept(w, u) /\ \E t \in {"STATUS", "READ"} : v = Schedule(u, t)
    <3>1. w \in Windows /\ Kept(w, w)
      BY DEF Kept
    <3>. QED  BY <2>1, <2>2, <2>3, <3>1
  <2>5. PICK u \in Windows, t \in {"STATUS", "READ"} : Kept(w, u) /\ v = Schedule(u, t)
    BY <2>4
  <2>. QED  BY <1>4, <2>5, ScheduleIs, KeptTwice DEF AnsweredTo, RequestTypes
<1>. QED  BY <1>0, <1>1, <1>2, <1>3, <1>4 DEF RequestTypes

-------------------------------------------------------------------------------
(* What a step does to the store.                                            *)

Admits(next) == validateSnapshot(next) /\ assertMonotonicExtension(snap, next)

Wrote(next) == snap' = next /\ disk' = next /\ Admits(next)

(* The memory keeps what it had; the file may have the next record anyway.   *)
Lost(next) == snap' = snap /\ (disk' = disk \/ (disk' = next /\ Admits(next)))

LEMMA PersistEffect ==
    ASSUME NEW spent, NEW next, NEW result \in Results, PersistAfter(spent, next, result)
    PROVE  /\ result = "ok" => Wrote(next)
           /\ result # "ok" => Lost(next)
           /\ result = "refused" => ~Admits(next)
BY DEF PersistAfter, Results, Wrote, Lost, Admits

LEMMA PersistNow ==
    ASSUME NEW next, NEW result \in Results, persist(next, result)
    PROVE  /\ result = "ok" => Wrote(next)
           /\ result # "ok" => Lost(next)
           /\ result = "refused" => ~Admits(next)
BY PersistEffect DEF persist

(* A store that has begun: its fields, and what replacing one leaves alone.  *)
LEMMA WithRequests ==
    ASSUME NEW sn \in Snapshots, NEW rs \in Seq(Requests)
    PROVE  LET q == [sn EXCEPT !.requests = rs]
           IN  /\ q \in Snapshots /\ q.requests = rs /\ q.sends = sn.sends
               /\ q.polls = sn.polls /\ q.finished = sn.finished /\ q.expected = sn.expected
BY DEF Snapshots

LEMMA WithPolls ==
    ASSUME NEW sn \in Snapshots, NEW ps \in Seq(Polls)
    PROVE  LET q == [sn EXCEPT !.polls = ps]
           IN  /\ q \in Snapshots /\ q.requests = sn.requests /\ q.sends = sn.sends
               /\ q.polls = ps /\ q.finished = sn.finished /\ q.expected = sn.expected
BY DEF Snapshots

LEMMA WithSends ==
    ASSUME NEW sn \in Snapshots, NEW ss \in Seq(Sends)
    PROVE  LET q == [sn EXCEPT !.sends = ss]
           IN  /\ q \in Snapshots /\ q.requests = sn.requests /\ q.sends = ss
               /\ q.polls = sn.polls /\ q.finished = sn.finished /\ q.expected = sn.expected
BY DEF Snapshots

Verdict(sn, f, e) == [sn EXCEPT !.finished = f, !.expected = e]

LEMMA WithVerdict ==
    ASSUME NEW sn \in Snapshots, NEW f \in Nat, NEW e \in Seq(Nat)
    PROVE  LET q == Verdict(sn, f, e)
           IN  /\ q \in Snapshots /\ q.requests = sn.requests /\ q.sends = sn.sends
               /\ q.polls = sn.polls /\ q.finished = f /\ q.expected = e
<1>. DEFINE q == [[sn EXCEPT !.finished = f] EXCEPT !.expected = e]
<1>1. q = Verdict(sn, f, e)
  BY DEF Snapshots, Verdict
<1>2. /\ q \in Snapshots /\ q.requests = sn.requests /\ q.sends = sn.sends
      /\ q.polls = sn.polls /\ q.finished = f /\ q.expected = e
  BY DEF Snapshots
<1>. HIDE DEF q
<1>. QED  BY <1>1, <1>2

(* What StartRequest and EndRequest record.                                  *)
NewRequest == [seq |-> Len(ledger) + 1, type |-> win.req, start |-> win.clock,
               end |-> None, out |-> None]

NewPoll == [chunk |-> win.chunk, seq |-> Len(ledger) + 1, start |-> win.clock]

EndedRequest(out) == [[snap.requests[Len(snap.requests)] EXCEPT !.end = win.clock] EXCEPT !.out = out]

(* The same snapshot but for its requests and polls.                         *)
SendsKept(next) ==
    /\ next \in Snapshots /\ next.sends = snap.sends
    /\ next.finished = snap.finished /\ next.expected = snap.expected

LEMMA StartRecord ==
    ASSUME snap \in Snapshots, LedgerTyped, WindowTyped, win.req # None
    PROVE  LET next == [snap EXCEPT
                !.requests = Append(@, [seq |-> Len(ledger) + 1, type |-> win.req,
                                start |-> win.clock, end |-> None, out |-> None]),
                !.polls = IF win.req # "STATUS" THEN @
                          ELSE Append(@, [chunk |-> win.chunk, seq |-> Len(ledger) + 1,
                                          start |-> win.clock])]
           IN  SendsKept(next) /\ next.requests = Append(snap.requests, NewRequest)
<1>. DEFINE rs == Append(snap.requests, NewRequest)
            ps == IF win.req # "STATUS" THEN snap.polls ELSE Append(snap.polls, NewPoll)
            u == [snap EXCEPT !.requests = rs]
            q == [u EXCEPT !.polls = ps]
<1>1. win.req \in RequestTypes /\ win.clock \in Nat /\ win.chunk \in Nat /\ Len(ledger) \in Nat
  BY DEF WindowTyped, Windows, LedgerTyped
<1>2. NewRequest \in Requests /\ NewPoll \in Polls
  BY <1>1 DEF NewRequest, NewPoll, Requests, Polls
<1>3. rs \in Seq(Requests) /\ ps \in Seq(Polls)
  BY <1>2 DEF Snapshots
<1>4. q = [snap EXCEPT !.requests = rs, !.polls = ps]
  BY DEF Snapshots
<1>. HIDE DEF rs, ps
<1>5. /\ u \in Snapshots /\ u.requests = rs /\ u.sends = snap.sends
      /\ u.finished = snap.finished /\ u.expected = snap.expected
  BY <1>3, WithRequests
<1>. HIDE DEF u
<1>6. SendsKept(q) /\ q.requests = rs
  BY <1>3, <1>5, WithPolls DEF SendsKept
<1>. HIDE DEF q
<1>. QED  BY <1>4, <1>6 DEF rs, ps, NewRequest, NewPoll

LEMMA EndRecord ==
    ASSUME snap \in Snapshots, WindowTyped, Len(snap.requests) # 0, NEW out \in RequestOutcomes
    PROVE  LET next == [snap EXCEPT !.requests[Len(snap.requests)].end = win.clock,
                                    !.requests[Len(snap.requests)].out = out]
           IN  /\ SendsKept(next)
               /\ next.requests = [snap.requests EXCEPT ![Len(snap.requests)] = EndedRequest(out)]
<1>. DEFINE n == Len(snap.requests)
            rs == [snap.requests EXCEPT ![n] = EndedRequest(out)]
            q == [snap EXCEPT !.requests = rs]
<1>1. snap.requests \in Seq(Requests) /\ n \in 1 .. Len(snap.requests)
  BY DEF Snapshots
<1>2. snap.requests[n] \in Requests /\ win.clock \in Nat
  BY <1>1 DEF WindowTyped, Windows
<1>3. EndedRequest(out) \in Requests
  BY <1>2 DEF EndedRequest, Requests
<1>4. rs \in Seq(Requests)
  BY <1>1, <1>3
<1>5. q = [snap EXCEPT !.requests[n].end = win.clock, !.requests[n].out = out]
  BY <1>1, <1>2 DEF Snapshots, EndedRequest
<1>6. SendsKept(q) /\ q.requests = rs
  BY <1>4, WithRequests DEF SendsKept
<1>. HIDE DEF rs, q
<1>. QED  BY <1>5, <1>6 DEF rs

(* The same snapshot but for its sends.                                      *)
RequestsKept(next) ==
    /\ next \in Snapshots /\ next.requests = snap.requests
    /\ next.finished = snap.finished /\ next.expected = snap.expected

NewSend == [chunk |-> win.chunk, started |-> None, finished |-> None, out |-> None]

LEMMA CooldownRecord ==
    ASSUME snap \in Snapshots, WindowTyped
    PROVE  LET next == [snap EXCEPT !.sends = Append(@, [chunk |-> win.chunk,
                          started |-> None, finished |-> None, out |-> None])]
           IN  RequestsKept(next) /\ next.sends = Append(snap.sends, NewSend)
<1>. DEFINE ss == Append(snap.sends, NewSend)
            q == [snap EXCEPT !.sends = ss]
<1>1. NewSend \in Sends
  BY DEF NewSend, Sends, WindowTyped, Windows
<1>2. ss \in Seq(Sends)
  BY <1>1 DEF Snapshots
<1>3. RequestsKept(q) /\ q.sends = ss
  BY <1>2, WithSends DEF RequestsKept
<1>4. q = [snap EXCEPT !.sends = Append(@, [chunk |-> win.chunk,
                          started |-> None, finished |-> None, out |-> None])]
  BY DEF NewSend
<1>. HIDE DEF q, ss
<1>. QED  BY <1>3, <1>4 DEF ss, NewSend

(* Only the last send changes, and it keeps its chunk.                       *)
LastSendChanges(next) ==
    /\ RequestsKept(next) /\ Len(next.sends) = Len(snap.sends)
    /\ next.sends[Len(snap.sends)].chunk = snap.sends[Len(snap.sends)].chunk

LEMMA SendStartRecord ==
    ASSUME snap \in Snapshots, WindowTyped, Len(snap.sends) # 0
    PROVE  LET next == [snap EXCEPT !.sends[Len(snap.sends)].started = win.clock]
           IN  LastSendChanges(next) /\ next.sends[Len(snap.sends)].started # None
<1>. DEFINE n == Len(snap.sends)
            x == [snap.sends[n] EXCEPT !.started = win.clock]
            ss == [snap.sends EXCEPT ![n] = x]
            q == [snap EXCEPT !.sends = ss]
<1>1. snap.sends \in Seq(Sends) /\ n \in 1 .. Len(snap.sends)
  BY DEF Snapshots
<1>2. snap.sends[n] \in Sends /\ win.clock \in Nat
  BY <1>1 DEF WindowTyped, Windows
<1>3. x \in Sends /\ x.chunk = snap.sends[n].chunk /\ x.started = win.clock
  BY <1>2 DEF Sends
<1>4. ss \in Seq(Sends) /\ Len(ss) = n /\ ss[n] = x
  BY <1>1, <1>3
<1>5. q = [snap EXCEPT !.sends[n].started = win.clock]
  BY <1>1, <1>2 DEF Snapshots
<1>6. RequestsKept(q) /\ q.sends = ss
  BY <1>4, WithSends DEF RequestsKept
<1>7. x.started # None
  BY <1>2, <1>3, TelemetryAssumption
<1>. HIDE DEF q, ss, x
<1>. QED  BY <1>3, <1>4, <1>5, <1>6, <1>7 DEF LastSendChanges

LEMMA SendFinishRecord ==
    ASSUME snap \in Snapshots, WindowTyped, Len(snap.sends) # 0
    PROVE  LET next == [snap EXCEPT !.sends[Len(snap.sends)].finished = win.clock,
                                    !.sends[Len(snap.sends)].out = win.sendOut]
           IN  LastSendChanges(next)
<1>. DEFINE n == Len(snap.sends)
            x == [[snap.sends[n] EXCEPT !.finished = win.clock] EXCEPT !.out = win.sendOut]
            ss == [snap.sends EXCEPT ![n] = x]
            q == [snap EXCEPT !.sends = ss]
<1>1. snap.sends \in Seq(Sends) /\ n \in 1 .. Len(snap.sends)
  BY DEF Snapshots
<1>2. snap.sends[n] \in Sends /\ win.clock \in Nat /\ win.sendOut \in {"SUCCESS", "ERROR", None}
  BY <1>1 DEF WindowTyped, Windows
<1>3. x \in Sends /\ x.chunk = snap.sends[n].chunk
  BY <1>2 DEF Sends
<1>4. ss \in Seq(Sends) /\ Len(ss) = n /\ ss[n] = x
  BY <1>1, <1>3
<1>5. q = [snap EXCEPT !.sends[n].finished = win.clock, !.sends[n].out = win.sendOut]
  BY <1>1, <1>2 DEF Snapshots
<1>6. RequestsKept(q) /\ q.sends = ss
  BY <1>4, WithSends DEF RequestsKept
<1>. HIDE DEF q, ss, x
<1>. QED  BY <1>3, <1>4, <1>5, <1>6 DEF LastSendChanges

-------------------------------------------------------------------------------
(* What each action does, without the shape of the records.                  *)

(* The send of the chunk at work is recorded but not settled.                *)
InSend ==
    \/ win.pc \in {"signed", "sent"}
    \/ win.pc \in {"scheduled", "invoked"} /\ win.req \in {"BLOCKHASH", "SEND"}

(* What the steps of a request and of a send find in the store.              *)
ReadyInv ==
    /\ win.pc \notin {"create", "catch", "error", "ended"} => snap # None
    /\ win.pc \in {"scheduled", "invoked"} => win.req # None
    /\ win.pc = "invoked" =>
          /\ Len(snap.requests) # 0
          /\ snap.requests[Len(snap.requests)].seq = Len(ledger)
          /\ snap.requests[Len(snap.requests)].end = None
          /\ Len(ledger) # 0
          /\ ledger[Len(ledger)].type = win.req /\ ledger[Len(ledger)].chunk = win.chunk
    /\ InSend => Len(snap.sends) # 0 /\ snap.sends[Len(snap.sends)].chunk = win.chunk
    /\ win.pc = "scheduled" /\ win.req = "SEND" => snap.sends[Len(snap.sends)].started # None

Typed == StoreTyped /\ LedgerTyped /\ WindowTyped

NextWindow == win' \in Windows /\ Kept(win, win')

NewEntry == [type |-> win.req, chunk |-> win.chunk, out |-> None]

LEMMA ReplayEffect ==
    ASSUME Typed, ReadyInv, Len(ledger) # 0, ledger[1].out # None, Replay
    PROVE  /\ NextWindow /\ ledger' = ledger
           /\ \E next, r :
                /\ SendsKept(next) /\ next.requests = <<r>> /\ r \in Requests
                /\ r.seq = 1 /\ r.type = ledger[1].type /\ r.out = ledger[1].out
                /\ \/ Wrote(next) /\ win'.pc = "scheduled" /\ win'.req = "STATUS" /\ win.recovering
                   \/ Wrote(next) /\ win'.pc = "select"
                   \/ Lost(next) /\ win'.pc = "catch"
<1>. DEFINE r == [seq |-> 1, type |-> ledger[1].type, start |-> 0, end |-> 1,
                  out |-> ledger[1].out]
            next == [snap EXCEPT !.requests = <<r>>]
<1>1. snap \in Snapshots /\ win \in Windows /\ ledger[1] \in Entries
  BY DEF Typed, StoreTyped, WindowTyped, LedgerTyped, ReadyInv, Replay
<1>2. r \in Requests /\ r.seq = 1 /\ r.type = ledger[1].type /\ r.out = ledger[1].out
  BY <1>1 DEF Requests, Entries
<1>3. PICK result \in Results :
        /\ persist(next, result)
        /\ win' = IF result # "ok" THEN Goto(win, "catch")
                  ELSE IF win.recovering THEN Schedule(win, "STATUS")
                  ELSE Goto(win, "select")
  BY DEF Replay
<1>. HIDE DEF r
<1>4. SendsKept(next) /\ next.requests = <<r>>
  <2>1. <<r>> \in Seq(Requests)
    BY <1>2
  <2>. QED  BY <1>1, <2>1, WithRequests DEF SendsKept
<1>. HIDE DEF next
<1>5. /\ result = "ok" => Wrote(next)
      /\ result # "ok" => Lost(next)
  BY <1>3, PersistNow
<1>6. /\ NextWindow
      /\ \/ result = "ok" /\ win'.pc = "scheduled" /\ win'.req = "STATUS" /\ win.recovering
         \/ result = "ok" /\ win'.pc = "select"
         \/ result # "ok" /\ win'.pc = "catch"
  BY <1>1, <1>3, GotoIs, ScheduleIs DEF NextWindow, Pcs, RequestTypes
<1>7. ledger' = ledger
  BY DEF Replay
<1>. QED  BY <1>2, <1>4, <1>5, <1>6, <1>7

LEMMA CooldownEffect ==
    ASSUME Typed, ReadyInv, recordPreSignCooldown
    PROVE  /\ NextWindow /\ ledger' = ledger
           /\ \E next :
                /\ RequestsKept(next) /\ next.sends = Append(snap.sends, NewSend)
                /\ \/ Wrote(next) /\ win'.pc = "scheduled" /\ win'.req = "BLOCKHASH"
                   \/ Lost(next) /\ win'.pc = "catch"
<1>. DEFINE next == [snap EXCEPT !.sends = Append(@, [chunk |-> win.chunk,
                          started |-> None, finished |-> None, out |-> None])]
            w == [win EXCEPT !.touched = TRUE, !.polls = 0, !.seen = "null"]
<1>1. snap \in Snapshots /\ win \in Windows
  BY DEF Typed, StoreTyped, WindowTyped, ReadyInv, recordPreSignCooldown
<1>2. PICK result \in Results :
        /\ persist(next, result)
        /\ win' = IF result = "ok" THEN Schedule(w, "BLOCKHASH") ELSE Goto(w, "catch")
  BY DEF recordPreSignCooldown
<1>3. RequestsKept(next) /\ next.sends = Append(snap.sends, NewSend)
  BY <1>1, CooldownRecord DEF Typed
<1>4. w \in Windows /\ Kept(win, w)
  <2>. DEFINE u == [[[win EXCEPT !.touched = TRUE] EXCEPT !.polls = 0] EXCEPT !.seen = "null"]
  <2>1. w = u
    BY <1>1 DEF Windows
  <2>2. u \in Windows /\ Kept(win, u)
    BY <1>1 DEF Windows, Kept, SeenValues
  <2>. HIDE DEF u
  <2>. QED  BY <2>1, <2>2
<1>. HIDE DEF next, w
<1>5. /\ result = "ok" => Wrote(next)
      /\ result # "ok" => Lost(next)
  BY <1>2, PersistNow
<1>6. \/ result = "ok" /\ win' = Schedule(w, "BLOCKHASH")
      \/ result # "ok" /\ win' = Goto(w, "catch")
  BY <1>2
<1>7. /\ NextWindow
      /\ \/ result = "ok" /\ win'.pc = "scheduled" /\ win'.req = "BLOCKHASH"
         \/ result # "ok" /\ win'.pc = "catch"
  BY <1>1, <1>4, <1>6, GotoIs, ScheduleIs, KeptTwice DEF NextWindow, Pcs, RequestTypes
<1>8. ledger' = ledger
  BY DEF recordPreSignCooldown
<1>. QED  BY <1>3, <1>5, <1>7, <1>8

LEMMA StartEffect ==
    ASSUME Typed, ReadyInv, StartRequest
    PROVE  /\ NextWindow /\ win'.req = win.req
           /\ \E next :
                /\ SendsKept(next) /\ next.requests = Append(snap.requests, NewRequest)
                /\ \/ Wrote(next) /\ ledger' = Append(ledger, NewEntry) /\ win'.pc = "invoked"
                   \/ Lost(next) /\ ledger' = ledger /\ FailedTo(win, win')
<1>. DEFINE next == [snap EXCEPT
                !.requests = Append(@, [seq |-> Len(ledger) + 1, type |-> win.req,
                                start |-> win.clock, end |-> None, out |-> None]),
                !.polls = IF win.req # "STATUS" THEN @
                          ELSE Append(@, [chunk |-> win.chunk, seq |-> Len(ledger) + 1,
                                          start |-> win.clock])]
<1>1. snap \in Snapshots /\ win \in Windows /\ win.req # None
  BY DEF Typed, StoreTyped, WindowTyped, ReadyInv, StartRequest
<1>2. PICK result \in Results :
        /\ persist(next, result)
        /\ \/ /\ result = "ok" /\ ledger' = Append(ledger, NewEntry)
              /\ win' = Goto(Tick(win), "invoked")
           \/ /\ result # "ok" /\ ledger' = ledger
              /\ win' = Failed(Tick(win), "throw")
  BY DEF StartRequest, Invokes, NewEntry
<1>3. SendsKept(next) /\ next.requests = Append(snap.requests, NewRequest)
  BY <1>1, StartRecord DEF Typed
<1>. HIDE DEF next
<1>4. /\ result = "ok" => Wrote(next)
      /\ result # "ok" => Lost(next)
  BY <1>2, PersistNow
<1>5. CASE result = "ok"
  <2>1. win' = Goto(Tick(win), "invoked") /\ ledger' = Append(ledger, NewEntry)
    BY <1>2, <1>5
  <2>2. NextWindow /\ win'.req = win.req /\ win'.pc = "invoked"
    BY <1>1, <2>1, TickIs, GotoIs, KeptTwice DEF NextWindow, Pcs
  <2>. QED  BY <1>3, <1>4, <1>5, <2>1, <2>2
<1>6. CASE result # "ok"
  <2>1. win' = Failed(Tick(win), "throw") /\ ledger' = ledger
    BY <1>2, <1>6
  <2>2. NextWindow /\ win'.req = win.req /\ FailedTo(Tick(win), win')
    BY <1>1, <2>1, TickIs, FailedIs, KeptTwice DEF NextWindow
  <2>3. FailedTo(win, win')
    BY <1>1, <2>2, TickIs DEF FailedTo
  <2>. QED  BY <1>3, <1>4, <1>6, <2>1, <2>2, <2>3
<1>. QED  BY <1>5, <1>6

LEMMA EndEffect ==
    ASSUME Typed, ReadyInv, EndRequest
    PROVE  /\ NextWindow
           /\ \E next \in Snapshots, out \in RequestOutcomes :
                /\ SendsKept(next)
                /\ next.requests = [snap.requests EXCEPT ![Len(snap.requests)] = EndedRequest(out)]
                /\ ledger' = [ledger EXCEPT ![Len(ledger)].out = out]
                /\ \/ Wrote(next) /\ AnsweredTo(win, win')
                   \/ /\ Wrote(next) /\ win.req # "SEND"
                      /\ win'.pc = "scheduled" /\ win'.req = win.req
                   \/ (Wrote(next) \/ Lost(next)) /\ FailedTo(win, win') /\ win'.req = win.req
<1>1. /\ snap \in Snapshots /\ win \in Windows /\ win.req # None
      /\ Len(snap.requests) # 0 /\ win.pc = "invoked"
  BY DEF Typed, StoreTyped, WindowTyped, ReadyInv, EndRequest
<1>2. PICK out \in RequestOutcomes, result \in Results :
        /\ ledger' = [ledger EXCEPT ![Len(ledger)].out = out]
        /\ PersistAfter(IF out = "SUCCESS" THEN faults ELSE faults + 1, [snap EXCEPT
                            !.requests[Len(snap.requests)].end = win.clock,
                            !.requests[Len(snap.requests)].out = out], result)
        /\ \/ /\ result = "ok" /\ out = "SUCCESS"
              /\ win' \in Answers(Tick(win))
           \/ /\ result = "ok" /\ win.req # "SEND"
              /\ win' = [Tick(win) EXCEPT !.pc = "scheduled", !.retry = @ + 1]
           \/ win' = Failed(Tick(win), IF result = "ok" /\ out = "RATE_LIMITED"
                                       THEN "rate" ELSE "throw")
  BY DEF EndRequest, RequestOutcomes
<1>. DEFINE next == [snap EXCEPT !.requests[Len(snap.requests)].end = win.clock,
                                 !.requests[Len(snap.requests)].out = out]
            spent == IF out = "SUCCESS" THEN faults ELSE faults + 1
<1>3. /\ SendsKept(next)
      /\ next.requests = [snap.requests EXCEPT ![Len(snap.requests)] = EndedRequest(out)]
  BY <1>1, EndRecord DEF Typed
<1>. HIDE DEF next
<1>4. PersistAfter(spent, next, result)
  BY <1>2 DEF next
<1>. HIDE DEF spent
<1>5. /\ result = "ok" => Wrote(next)
      /\ result # "ok" => Lost(next)
  BY <1>4, PersistEffect
<1>6. /\ Tick(win) \in Windows /\ Kept(win, Tick(win)) /\ Tick(win).pc = win.pc
      /\ Tick(win).req = win.req
  BY <1>1, TickIs
<1>7. next \in Snapshots /\ ledger' = [ledger EXCEPT ![Len(ledger)].out = out]
  BY <1>2, <1>3 DEF SendsKept
<1>8. CASE result = "ok" /\ win' \in Answers(Tick(win))
  <2>1. NextWindow /\ AnsweredTo(Tick(win), win')
    BY <1>1, <1>6, <1>8, AnswersAre, KeptTwice DEF NextWindow
  <2>2. AnsweredTo(win, win')
    BY <1>6, <2>1 DEF AnsweredTo
  <2>. QED  BY <1>3, <1>5, <1>8, <1>7, <2>1, <2>2
<1>9. CASE /\ result = "ok" /\ win.req # "SEND"
           /\ win' = [Tick(win) EXCEPT !.pc = "scheduled", !.retry = @ + 1]
  <2>. DEFINE q == [[Tick(win) EXCEPT !.pc = "scheduled"] EXCEPT !.retry = Tick(win).retry + 1]
  <2>1. win' = q
    BY <1>6, <1>9 DEF Windows
  <2>2. ASSUME NEW T \in Windows, NEW n \in Nat
        PROVE  LET v == [[T EXCEPT !.pc = "scheduled"] EXCEPT !.retry = n]
               IN  v \in Windows /\ Kept(T, v) /\ v.pc = "scheduled" /\ v.req = T.req
    BY DEF Windows, Kept, Pcs
  <2>3. Tick(win).retry + 1 \in Nat
    BY <1>6 DEF Windows
  <2>4. q \in Windows /\ Kept(Tick(win), q) /\ q.pc = "scheduled" /\ q.req = Tick(win).req
    BY <1>6, <2>2, <2>3
  <2>. HIDE DEF q
  <2>5. NextWindow /\ win'.pc = "scheduled" /\ win'.req = win.req
    BY <1>6, <2>1, <2>4, KeptTwice DEF NextWindow
  <2>. QED  BY <1>3, <1>5, <1>9, <1>7, <2>5
<1>10. CASE win' = Failed(Tick(win), IF result = "ok" /\ out = "RATE_LIMITED"
                                    THEN "rate" ELSE "throw")
  <2>1. PICK e \in {"rate", "throw"} : win' = Failed(Tick(win), e)
    BY <1>10
  <2>2. NextWindow /\ win'.req = win.req /\ FailedTo(Tick(win), win')
    BY <1>6, <2>1, FailedIs, KeptTwice DEF NextWindow
  <2>3. FailedTo(win, win')
    BY <1>6, <2>2 DEF FailedTo
  <2>. QED  BY <1>3, <1>5, <1>7, <2>2, <2>3
<1>. QED  BY <1>2, <1>8, <1>9, <1>10

LEMMA SkipEffect ==
    ASSUME Typed, ReadyInv, SkipRequest
    PROVE  /\ NextWindow /\ UNCHANGED <<snap, disk, ledger>>
           /\ \/ win.req = "STATUS" /\ win'.pc = "scheduled" /\ win'.req = "READ"
              \/ FailedTo(win, win') /\ win'.req = win.req
<1>1. win \in Windows
  BY DEF Typed, WindowTyped
<1>2. CASE win.req = "STATUS" /\ win' = Schedule(win, "READ")
  BY <1>1, <1>2, ScheduleIs DEF SkipRequest, NextWindow, RequestTypes
<1>3. CASE win' = Failed(win, "throw")
  BY <1>1, <1>3, FailedIs DEF SkipRequest, NextWindow
<1>. QED  BY <1>2, <1>3 DEF SkipRequest

LEMMA SendStartEffect ==
    ASSUME Typed, ReadyInv, recordSendStart
    PROVE  /\ NextWindow /\ ledger' = ledger
           /\ \/ UNCHANGED <<snap, disk>> /\ win'.pc = "catch"
              \/ \E next :
                   /\ LastSendChanges(next) /\ next.sends[Len(snap.sends)].started # None
                   /\ \/ Wrote(next) /\ win'.pc = "scheduled" /\ win'.req = "SEND"
                      \/ Lost(next) /\ win'.pc = "catch"
<1>1. /\ snap \in Snapshots /\ win \in Windows /\ Len(snap.sends) # 0
      /\ ledger' = ledger
  BY DEF Typed, StoreTyped, WindowTyped, ReadyInv, InSend, recordSendStart
<1>2. CASE UNCHANGED <<snap, disk>> /\ win' = Goto(win, "catch")
  BY <1>1, <1>2, GotoIs DEF NextWindow, Pcs
<1>. DEFINE next == [snap EXCEPT !.sends[Len(snap.sends)].started = win.clock]
<1>3. ASSUME NEW result \in Results, persist(next, result),
             win' = IF result = "ok" THEN Schedule(Tick(win), "SEND")
                    ELSE Goto(Tick(win), "catch")
      PROVE  /\ NextWindow
             /\ LastSendChanges(next) /\ next.sends[Len(snap.sends)].started # None
             /\ \/ Wrote(next) /\ win'.pc = "scheduled" /\ win'.req = "SEND"
                \/ Lost(next) /\ win'.pc = "catch"
  <2>1. LastSendChanges(next) /\ next.sends[Len(snap.sends)].started # None
    BY <1>1, SendStartRecord DEF Typed
  <2>. HIDE DEF next
  <2>2. /\ result = "ok" => Wrote(next)
        /\ result # "ok" => Lost(next)
    BY <1>3, PersistNow
  <2>3. /\ NextWindow
        /\ \/ result = "ok" /\ win'.pc = "scheduled" /\ win'.req = "SEND"
           \/ result # "ok" /\ win'.pc = "catch"
    BY <1>1, <1>3, TickIs, GotoIs, ScheduleIs, KeptTwice DEF NextWindow, Pcs, RequestTypes
  <2>. QED  BY <2>1, <2>2, <2>3
<1>. HIDE DEF next
<1>. QED
  <2>1. \/ UNCHANGED <<snap, disk>> /\ win' = Goto(win, "catch")
        \/ \E result \in Results :
              /\ persist(next, result)
              /\ win' = IF result = "ok" THEN Schedule(Tick(win), "SEND")
                        ELSE Goto(Tick(win), "catch")
    BY DEF recordSendStart, next
  <2>. QED  BY <1>1, <1>2, <1>3, <2>1

LEMMA SendFinishEffect ==
    ASSUME Typed, ReadyInv, recordSendFinish
    PROVE  /\ NextWindow /\ ledger' = ledger
           /\ \E next :
                /\ LastSendChanges(next)
                /\ Wrote(next) \/ Lost(next)
                /\ \/ win.sendOut = "SUCCESS" /\ win'.pc = "scheduled" /\ win'.req = "STATUS"
                   \/ win'.pc = "sent" /\ win'.sendOut = "ERROR"
                   \/ win'.pc \in {"finish", "catch"}
<1>1. /\ snap \in Snapshots /\ win \in Windows /\ Len(snap.sends) # 0 /\ win.pc = "sent"
      /\ ledger' = ledger
  BY DEF Typed, StoreTyped, WindowTyped, ReadyInv, InSend, recordSendFinish
<1>. DEFINE next == [snap EXCEPT !.sends[Len(snap.sends)].finished = win.clock,
                                 !.sends[Len(snap.sends)].out = win.sendOut]
            T == Tick(win)
<1>2. PICK result \in Results : persist(next, result) /\
        \/ win.sendOut = "SUCCESS" /\ result = "ok" /\ win' = Schedule(T, "STATUS")
        \/ win' = [T EXCEPT !.sendOut = "ERROR", !.error = "throw"]
        \/ win' = [T EXCEPT !.pc = "finish", !.status = "RATE_LIMITED"]
        \/ win' = Goto(T, "catch")
  BY DEF recordSendFinish
<1>3. LastSendChanges(next)
  BY <1>1, SendFinishRecord DEF Typed
<1>. HIDE DEF next
<1>4. Wrote(next) \/ Lost(next)
  BY <1>2, PersistNow
<1>5. T \in Windows /\ Kept(win, T) /\ T.pc = "sent"
  BY <1>1, TickIs
<1>. HIDE DEF T
<1>6. CASE win.sendOut = "SUCCESS" /\ win' = Schedule(T, "STATUS")
  <2>1. NextWindow /\ win'.pc = "scheduled" /\ win'.req = "STATUS"
    BY <1>5, <1>6, ScheduleIs, KeptTwice DEF NextWindow, RequestTypes
  <2>. QED  BY <1>1, <1>3, <1>4, <1>6, <2>1
<1>7. CASE win' = [T EXCEPT !.sendOut = "ERROR", !.error = "throw"]
  <2>. DEFINE q == [[T EXCEPT !.sendOut = "ERROR"] EXCEPT !.error = "throw"]
  <2>1. win' = q
    BY <1>5, <1>7 DEF Windows
  <2>2. q \in Windows /\ Kept(T, q) /\ q.pc = "sent" /\ q.sendOut = "ERROR"
    BY <1>5 DEF Windows, Kept
  <2>. HIDE DEF q
  <2>3. NextWindow /\ win'.pc = "sent" /\ win'.sendOut = "ERROR"
    BY <1>5, <2>1, <2>2, KeptTwice DEF NextWindow
  <2>. QED  BY <1>1, <1>3, <1>4, <2>3
<1>8. CASE win' = [T EXCEPT !.pc = "finish", !.status = "RATE_LIMITED"]
  <2>. DEFINE q == [[T EXCEPT !.pc = "finish"] EXCEPT !.status = "RATE_LIMITED"]
  <2>1. win' = q
    BY <1>5, <1>8 DEF Windows
  <2>2. q \in Windows /\ Kept(T, q) /\ q.pc = "finish"
    BY <1>5 DEF Windows, Kept, Pcs, Statuses
  <2>. HIDE DEF q
  <2>3. NextWindow /\ win'.pc = "finish"
    BY <1>5, <2>1, <2>2, KeptTwice DEF NextWindow
  <2>. QED  BY <1>1, <1>3, <1>4, <2>3
<1>9. CASE win' = Goto(T, "catch")
  <2>1. NextWindow /\ win'.pc = "catch"
    BY <1>5, <1>9, GotoIs, KeptTwice DEF NextWindow, Pcs
  <2>. QED  BY <1>1, <1>3, <1>4, <2>1
<1>. QED  BY <1>2, <1>6, <1>7, <1>8, <1>9

LEMMA EmptyIs ==
    /\ EmptySnapshot \in Snapshots /\ EmptySnapshot # None
    /\ EmptySnapshot.finished = None /\ EmptySnapshot.requests = <<>>
    /\ EmptySnapshot.sends = <<>> /\ EmptySnapshot.polls = <<>> /\ EmptySnapshot.expected = <<>>
<1>1. EmptySnapshot \in Snapshots
  BY DEF EmptySnapshot, Snapshots
<1>. QED  BY <1>1, TelemetryAssumption DEF EmptySnapshot

LEMMA CreateEffect ==
    ASSUME Typed, CreateStore
    PROVE  /\ NextWindow /\ ledger' = ledger
           /\ \/ snap' = EmptySnapshot /\ disk' = EmptySnapshot /\ win'.pc = "replay"
              \/ snap' = snap /\ disk' \in {disk, EmptySnapshot} /\ win'.pc = "catch"
BY GotoIs DEF Typed, WindowTyped, CreateStore, NextWindow, Pcs

(* What a settled chunk leaves in the window.                                *)
Counts ==
    /\ win'.chunk = win.chunk + 1 /\ ~win'.recovering
    /\ win'.confirmed = IF win.recovering THEN win.confirmed
                        ELSE Append(win.confirmed, win.chunk)
    /\ win'.evidence = win.evidence /\ (win'.refused <=> win.refused)

LEMMA SettleEffect ==
    ASSUME Typed, Settle
    PROVE  /\ UNCHANGED <<snap, disk, ledger>> /\ win' \in Windows
           /\ \/ Kept(win, win') /\ win'.pc \in {"catch", "finish"}
              \/ Counts /\ win'.pc \in {"select", "finish"}
<1>1. win \in Windows
  BY DEF Typed, WindowTyped
<1>. DEFINE counted == IF win.recovering THEN win.confirmed ELSE Append(win.confirmed, win.chunk)
            done == [win EXCEPT !.recovering = FALSE, !.confirmed = counted,
                                !.chunk = @ + 1, !.touched = TRUE]
<1>2. counted \in Seq(Nat) /\ win.chunk + 1 \in Nat
  BY <1>1 DEF Windows
<1>. HIDE DEF counted
<1>3. ASSUME NEW n \in Nat
      PROVE  LET v == [[[[win EXCEPT !.recovering = FALSE] EXCEPT !.confirmed = counted]
                        EXCEPT !.chunk = n] EXCEPT !.touched = TRUE]
             IN  /\ v \in Windows /\ v.chunk = n /\ ~v.recovering /\ v.confirmed = counted
                 /\ v.evidence = win.evidence /\ (v.refused <=> win.refused)
  BY <1>1, <1>2 DEF Windows
<1>4. done = [[[[win EXCEPT !.recovering = FALSE] EXCEPT !.confirmed = counted]
               EXCEPT !.chunk = win.chunk + 1] EXCEPT !.touched = TRUE]
  BY <1>1 DEF Windows
<1>5. /\ done \in Windows /\ done.chunk = win.chunk + 1 /\ ~done.recovering
      /\ done.confirmed = counted
      /\ done.evidence = win.evidence /\ (done.refused <=> win.refused)
  BY <1>2, <1>3, <1>4
<1>6. /\ UNCHANGED <<snap, disk, ledger>>
      /\ \/ win' = Goto(win, "catch")
         \/ win' = [win EXCEPT !.pc = "finish", !.status = win.seen, !.touched = TRUE]
         \/ win' = [done EXCEPT !.pc = "finish", !.status = "COMPLETE"]
         \/ win' = [done EXCEPT !.pc = "finish", !.status = "WINDOW_LIMIT"]
         \/ win' = Goto(done, "select")
  BY DEF Settle, counted
<1>. HIDE DEF done
<1>7. CASE win' = Goto(win, "catch")
  BY <1>1, <1>6, <1>7, GotoIs DEF Pcs
<1>8. CASE win' = [win EXCEPT !.pc = "finish", !.status = win.seen, !.touched = TRUE]
  <2>. DEFINE q == [[[win EXCEPT !.pc = "finish"] EXCEPT !.status = win.seen] EXCEPT !.touched = TRUE]
  <2>1. win' = q
    BY <1>1, <1>8 DEF Windows
  <2>2. win.seen \in Statuses
    BY <1>1 DEF Windows, Statuses
  <2>3. q \in Windows /\ Kept(win, q) /\ q.pc = "finish"
    BY <1>1, <2>2 DEF Windows, Kept, Pcs
  <2>. HIDE DEF q
  <2>. QED  BY <1>6, <2>1, <2>3
<1>9. ASSUME NEW x \in {"COMPLETE", "WINDOW_LIMIT"},
             win' = [done EXCEPT !.pc = "finish", !.status = x]
      PROVE  Counts /\ win'.pc = "finish" /\ win' \in Windows
  <2>. DEFINE q == [[done EXCEPT !.pc = "finish"] EXCEPT !.status = x]
  <2>1. win' = q
    BY <1>5, <1>9 DEF Windows
  <2>2. q \in Windows /\ Kept(done, q) /\ q.pc = "finish"
    BY <1>5 DEF Windows, Kept, Pcs, Statuses
  <2>. HIDE DEF q
  <2>. QED  BY <1>5, <2>1, <2>2 DEF Counts, Kept, counted
<1>10. CASE win' = Goto(done, "select")
  BY <1>5, <1>6, <1>10, GotoIs DEF Pcs, Counts, Kept, counted
<1>. QED  BY <1>6, <1>7, <1>8, <1>9, <1>10

LEMMA FinishEffect ==
    ASSUME Typed, finish
    PROVE  /\ win' \in Windows /\ UNCHANGED <<ledger, outcome>>
           /\ win'.chunk = win.chunk /\ win'.confirmed = win.confirmed
           /\ win'.pc \in {"append", "error"}
           /\ \/ snap = None /\ UNCHANGED <<snap, disk>> /\ Kept(win, win')
              \/ /\ snap \in Snapshots
                 /\ \E next \in Snapshots :
                      /\ next.requests = snap.requests /\ next.sends = snap.sends
                      /\ next.polls = snap.polls
                      /\ next.finished \in Nat /\ next.expected = win.confirmed
                      /\ \/ Wrote(next) /\ win'.evidence = next
                         \/ Lost(next) /\ win'.evidence = None
                      /\ win'.refused => win.refused \/ ~Admits(next)
<1>1. win \in Windows /\ win.pc \in {"finish", "catch"} /\ UNCHANGED <<ledger, outcome>>
  BY DEF Typed, WindowTyped, finish
<1>2. CASE snap = None
  <2>1. win' = Goto(win, "error") /\ UNCHANGED <<snap, disk>>
    BY <1>2 DEF finish
  <2>. QED  BY <1>1, <1>2, <2>1, GotoIs DEF Pcs, Kept
<1>3. CASE snap # None
  <2>. DEFINE next == Verdict(snap, win.clock, win.confirmed)
              T == Tick(win)
  <2>1. snap \in Snapshots /\ win.clock \in Nat /\ win.confirmed \in Seq(Nat)
    BY <1>1, <1>3 DEF Typed, StoreTyped, Windows
  <2>2. PICK result \in Results, p \in {"append", "error"} :
          /\ persist(next, result)
          /\ win' = [T EXCEPT !.pc = p, !.evidence = EvidenceOf(next, result),
                              !.refused = @ \/ result = "refused"]
    BY <1>3 DEF finish, CatchTerminal, Verdict
  <2>3. /\ next \in Snapshots /\ next.requests = snap.requests /\ next.sends = snap.sends
        /\ next.polls = snap.polls
        /\ next.finished \in Nat /\ next.expected = win.confirmed
    BY <2>1, WithVerdict
  <2>. HIDE DEF next
  <2>4. /\ result = "ok" => Wrote(next)
        /\ result # "ok" => Lost(next)
        /\ result = "refused" => ~Admits(next)
    BY <2>2, PersistNow
  <2>5. T \in Windows /\ Kept(win, T)
    BY <1>1, TickIs
  <2>. HIDE DEF T
  <2>. DEFINE e == EvidenceOf(next, result)
              b == T.refused \/ result = "refused"
              q == [[[T EXCEPT !.pc = p] EXCEPT !.evidence = e] EXCEPT !.refused = b]
  <2>6. e = (IF result = "ok" THEN next ELSE None) /\ e \in Snapshots \cup {None}
    BY <2>3 DEF EvidenceOf
  <2>7. win' = q
    BY <2>2, <2>5 DEF Windows
  <2>8. b \in BOOLEAN /\ (b <=> (T.refused \/ result = "refused"))
    OBVIOUS
  <2>. HIDE DEF e, b
  <2>9. /\ q \in Windows /\ q.pc = p /\ q.evidence = e /\ (q.refused <=> b)
        /\ q.chunk = T.chunk /\ q.confirmed = T.confirmed
    <3>1. p \in Pcs
      BY DEF Pcs
    <3>. HIDE DEF q
    <3>2. q = [[[T EXCEPT !.pc = p] EXCEPT !.evidence = e] EXCEPT !.refused = b]
      BY DEF q
    <3>3. q \in Windows
      BY <2>5, <2>6, <2>8, <3>1, <3>2 DEF Windows
    <3>4. q.pc = p /\ q.evidence = e /\ (q.refused <=> b)
      BY <2>5, <3>2 DEF Windows
    <3>5. q.chunk = T.chunk /\ q.confirmed = T.confirmed
      BY <2>5, <3>2 DEF Windows
    <3>. QED  BY <3>3, <3>4, <3>5
  <2>. HIDE DEF q
  <2>. QED  BY <1>1, <2>1, <2>3, <2>4, <2>5, <2>6, <2>7, <2>8, <2>9 DEF Kept
<1>. QED  BY <1>2, <1>3

LEMMA AppendEffect ==
    ASSUME Typed, AppendOutcome
    PROVE  /\ win' \in Windows /\ UNCHANGED <<snap, disk, ledger>>
           /\ win'.chunk = win.chunk /\ win'.confirmed = win.confirmed
           /\ win'.refused <=> win.refused
           /\ \/ /\ win'.pc = "ended" /\ win'.evidence = win.evidence
                 /\ outcome'.ref = win.evidence
              \/ win'.pc = "error" /\ win'.evidence = None /\ outcome' = outcome
<1>1. win \in Windows
  BY DEF Typed, WindowTyped
<1>2. CASE /\ outcome' = [status |-> win.status, ref |-> win.evidence]
           /\ win' = Goto(win, "ended")
  <2>1. outcome'.ref = win.evidence
    BY <1>2
  <2>. QED  BY <1>1, <1>2, <2>1, GotoIs DEF AppendOutcome, Pcs, Kept
<1>3. CASE win' = [win EXCEPT !.pc = CatchTerminal, !.evidence = None] /\ UNCHANGED outcome
  <2>. DEFINE q == [[win EXCEPT !.pc = "error"] EXCEPT !.evidence = None]
  <2>1. win' = q
    BY <1>1, <1>3 DEF Windows, CatchTerminal
  <2>2. /\ q \in Windows /\ q.pc = "error" /\ q.evidence = None /\ q.chunk = win.chunk
        /\ q.confirmed = win.confirmed /\ (q.refused <=> win.refused)
    BY <1>1 DEF Windows, Pcs
  <2>. HIDE DEF q
  <2>. QED  BY <1>3, <2>1, <2>2 DEF AppendOutcome
<1>. QED  BY <1>2, <1>3 DEF AppendOutcome

LEMMA EndingEffect ==
    ASSUME Typed, AppendError \/ Kill
    PROVE  /\ NextWindow /\ UNCHANGED <<snap, disk, ledger>> /\ win'.pc = "ended"
           /\ \/ outcome' = outcome
              \/ win.pc = "error" /\ outcome'.ref = win.evidence
<1>1. win' = Goto(win, "ended") /\ win \in Windows
  BY DEF AppendError, Kill, Typed, WindowTyped
<1>2. UNCHANGED <<snap, disk, ledger>> /\ (outcome' = outcome \/ (win.pc = "error" /\
          outcome' = [status |-> "EXECUTION_ERROR", ref |-> win.evidence]))
  BY DEF AppendError, Kill
<1>. QED  BY <1>1, <1>2, GotoIs DEF NextWindow, Pcs

-------------------------------------------------------------------------------
(* The inductive invariant.                                                  *)

(* Before the store has replayed the preflight's entry nothing else happened.*)
BeginInv ==
    /\ win.pc = "create" => snap = None /\ disk = None
    /\ win.pc \in {"create", "replay"} =>
          /\ Len(ledger) = 1 /\ ledger[1].type = "READ" /\ ledger[1].out # None
          /\ win.confirmed = <<>>

(* Only finish closes a snapshot, and only the end of a window names it.     *)
OpenInv ==
    /\ win.pc \notin {"append", "error", "ended"} =>
          /\ snap # None => snap.finished = None /\ snap.expected = <<>>
          /\ disk # None => disk.finished = None
          /\ win.evidence = None
    /\ win.pc # "ended" => outcome = None

StoreInv == snap # None => validateSnapshot(snap)

ConfirmedInv ==
    /\ Increasing(win.confirmed)
    /\ \A k \in DOMAIN win.confirmed : win.confirmed[k] < win.chunk

(* The record sn has the request i, and the started send of chunk c.         *)
Shows(sn, i, c) ==
    /\ sn # None
    /\ \E r \in Members(sn.requests) : r.seq = i /\ r.type = "SEND"
    /\ \E s \in Members(sn.sends) : s.chunk = c /\ s.started # None

(* The memory has every send as well: what a failed write put into the file  *)
(* is lost again with the next write.                                        *)
EvidenceInv ==
    \A i \in Sent : Shows(snap, i, ledger[i].chunk) /\ Shows(disk, i, ledger[i].chunk)

(* The chunk at work has not been sent yet.                                  *)
Fresh ==
    \/ win.pc \in {"create", "replay", "select", "signed"}
    \/ win.pc = "scheduled" /\ win.req \in {"BLOCKHASH", "SEND"}
    \/ win.pc = "invoked" /\ win.req = "BLOCKHASH"

(* The window waits for what became of the chunk at work.                    *)
Awaiting ==
    \/ win.pc = "settle"
    \/ win.pc \in {"scheduled", "invoked"} /\ win.req \in {"STATUS", "READ"}

IsSent(c) == \E i \in Sent : ledger[i].chunk = c

(* A chunk is sent once, and a chunk that is settled was sent.               *)
SentInv ==
    /\ \A i \in Sent :
          /\ ledger[i].chunk \in Nat /\ ledger[i].chunk <= win.chunk
          /\ Fresh => ledger[i].chunk < win.chunk
    /\ \A i, j \in Sent : ledger[i].chunk = ledger[j].chunk => i = j
    /\ win.pc = "sent" /\ win.sendOut = "SUCCESS" => IsSent(win.chunk)
    /\ Awaiting /\ ~win.recovering => IsSent(win.chunk)
    /\ \A k \in DOMAIN win.confirmed : IsSent(win.confirmed[k])

(* Each entry of the ledger has its request, with the same end if any.       *)
Matched(rs) ==
    \A i \in DOMAIN ledger : \E k \in DOMAIN rs :
        /\ rs[k].seq = i /\ rs[k].type = ledger[i].type
        /\ rs[k].end # None => rs[k].out = ledger[i].out

MatchInv ==
    /\ snap # None /\ win.pc \notin {"create", "replay"} =>
          \/ Matched(snap.requests)
          \/ win.confirmed = <<>> /\ win.pc \in {"catch", "append", "error", "ended"}
    /\ disk # None /\ disk.finished # None =>
          disk.expected = win.confirmed /\ (Matched(disk.requests) \/ win.confirmed = <<>>)

(* The evidence of a finish is what the file holds.                          *)
NamesTheFile ==
    /\ win.evidence # None => win.evidence = disk
    /\ OutcomeNamesTheFile

TelemetryInv ==
    /\ Typed
    /\ BeginInv /\ OpenInv /\ ReadyInv /\ StoreInv /\ ConfirmedInv
    /\ EvidenceInv /\ SentInv /\ MatchInv
    /\ NamesTheFile /\ FinishNeverRefused

-------------------------------------------------------------------------------
(* What the steps between the first record and the last one have in common.  *)

WorkStep ==
    /\ NextWindow /\ UNCHANGED outcome
    /\ win.pc \notin {"create", "append", "error", "ended"}
    /\ win'.pc \notin {"create", "replay", "append", "error", "ended"}
    /\ \/ UNCHANGED <<snap, disk>>
       \/ \E next \in Snapshots :
             /\ next.finished = snap.finished /\ next.expected = snap.expected
             /\ Wrote(next) \/ Lost(next)

(* The ledger has the same requests, whatever became of them.                *)
LedgerKept ==
    /\ ledger' \in Seq(Entries) /\ Len(ledger') = Len(ledger)
    /\ \A i \in DOMAIN ledger :
          ledger'[i].type = ledger[i].type /\ ledger'[i].chunk = ledger[i].chunk

LEMMA SnapReady ==
    ASSUME Typed, ReadyInv, win.pc \notin {"create", "catch", "error", "ended"}
    PROVE  snap \in Snapshots
BY DEF Typed, StoreTyped, ReadyInv

LEMMA WorkCommon ==
    ASSUME TelemetryInv, WorkStep, snap \in Snapshots
    PROVE  /\ StoreTyped' /\ WindowTyped' /\ BeginInv' /\ OpenInv' /\ StoreInv' /\ ConfirmedInv'
           /\ NamesTheFile' /\ FinishNeverRefused'
<1>. USE DEF TelemetryInv, Typed
<1>1. snap # None
  BY TelemetryAssumption
<1>2. /\ snap' \in Snapshots /\ snap'.finished = None /\ snap'.expected = <<>>
      /\ StoreTyped'
      /\ disk' # None => disk'.finished = None
      /\ validateSnapshot(snap')
  <2>1. /\ snap.finished = None /\ snap.expected = <<>> /\ validateSnapshot(snap)
        /\ disk # None => disk.finished = None
    BY <1>1 DEF WorkStep, OpenInv, StoreInv
  <2>2. CASE UNCHANGED <<snap, disk>>
    BY <2>1, <2>2 DEF StoreTyped
  <2>3. ASSUME NEW next \in Snapshots, Wrote(next) \/ Lost(next),
               next.finished = snap.finished, next.expected = snap.expected
        PROVE  /\ snap' \in Snapshots /\ snap'.finished = None /\ snap'.expected = <<>>
               /\ StoreTyped'
               /\ disk' # None => disk'.finished = None
               /\ validateSnapshot(snap')
    <3>1. CASE Wrote(next)
      BY <2>1, <2>3, <3>1 DEF StoreTyped, Wrote, Admits
    <3>2. CASE Lost(next)
      BY <2>1, <2>3, <3>2 DEF StoreTyped, Lost
    <3>. QED  BY <2>3, <3>1, <3>2
  <2>. QED  BY <2>2, <2>3 DEF WorkStep
<1>3. WindowTyped' /\ BeginInv'
  BY DEF WorkStep, NextWindow, WindowTyped, BeginInv
<1>4. OpenInv' /\ StoreInv'
  BY <1>2 DEF WorkStep, NextWindow, Kept, OpenInv, StoreInv
<1>5. ConfirmedInv' /\ FinishNeverRefused'
  BY DEF WorkStep, NextWindow, Kept, ConfirmedInv, FinishNeverRefused
<1>6. NamesTheFile'
  BY DEF WorkStep, NextWindow, Kept, NamesTheFile, OutcomeNamesTheFile, OpenInv
<1>. QED  BY <1>2, <1>3, <1>4, <1>5, <1>6

(* The store's own check keeps the evidence: a record may only be extended.  *)
LEMMA ShowsExtends ==
    ASSUME NEW old \in Snapshots, NEW new \in Snapshots, assertMonotonicExtension(old, new),
           NEW i, NEW c, Shows(old, i, c)
    PROVE  Shows(new, i, c)
<1>1. new # None
  BY TelemetryAssumption
<1>2. old.requests \in Seq(Requests) /\ new.requests \in Seq(Requests)
      /\ old.sends \in Seq(Sends) /\ new.sends \in Seq(Sends)
  BY DEF Snapshots
<1>3. PICK k \in DOMAIN old.requests : old.requests[k].seq = i /\ old.requests[k].type = "SEND"
  BY DEF Shows, Members
<1>4. /\ k \in DOMAIN new.requests
      /\ new.requests[k].seq = i /\ new.requests[k].type = "SEND"
  BY <1>2, <1>3 DEF assertMonotonicExtension
<1>5. PICK m \in DOMAIN old.sends : old.sends[m].chunk = c /\ old.sends[m].started # None
  BY DEF Shows, Members
<1>6. m \in DOMAIN new.sends
  BY <1>2, <1>5 DEF assertMonotonicExtension
<1>7. new.sends[m].chunk = c /\ new.sends[m].started # None
  BY <1>2, <1>5 DEF assertMonotonicExtension, Fills
<1>. QED  BY <1>1, <1>4, <1>6, <1>7 DEF Shows, Members

LEMMA SentKept ==
    ASSUME Typed, LedgerKept
    PROVE  /\ Sent' = Sent /\ \A i \in Sent : ledger'[i].chunk = ledger[i].chunk
           /\ \A c : IsSent(c) => IsSent(c)'
<1>1. DOMAIN ledger' = DOMAIN ledger
  BY DEF Typed, LedgerTyped, LedgerKept
<1>. QED  BY <1>1 DEF LedgerKept, Sent, IsSent

LEMMA WorkEvidence ==
    ASSUME TelemetryInv, WorkStep, snap \in Snapshots, LedgerKept
    PROVE  EvidenceInv'
<1>1. Sent' = Sent /\ \A i \in Sent : ledger'[i].chunk = ledger[i].chunk
  BY SentKept DEF TelemetryInv
<1>2. ASSUME NEW i \in Sent, NEW c, Shows(snap, i, c), Shows(disk, i, c)
      PROVE  Shows(snap', i, c) /\ Shows(disk', i, c)
  <2>1. CASE UNCHANGED <<snap, disk>>
    BY <1>2, <2>1
  <2>2. ASSUME NEW next \in Snapshots, Wrote(next) \/ Lost(next)
        PROVE  Shows(snap', i, c) /\ Shows(disk', i, c)
    BY <1>2, <2>2, ShowsExtends DEF Wrote, Lost, Admits
  <2>. QED  BY <2>1, <2>2 DEF WorkStep
<1>. QED  BY <1>1, <1>2 DEF TelemetryInv, EvidenceInv

LEMMA WorkSent ==
    ASSUME TelemetryInv, WorkStep, LedgerKept, Fresh' => Fresh,
           win'.pc = "sent" /\ win'.sendOut = "SUCCESS" => IsSent(win.chunk),
           Awaiting' /\ ~win.recovering => IsSent(win.chunk)
    PROVE  SentInv'
<1>1. /\ Sent' = Sent /\ \A i \in Sent : ledger'[i].chunk = ledger[i].chunk
      /\ \A c : IsSent(c) => IsSent(c)'
  BY SentKept DEF TelemetryInv
<1>2. win'.chunk = win.chunk /\ win'.confirmed = win.confirmed /\ (win'.recovering <=> win.recovering)
  BY DEF WorkStep, NextWindow, Kept
<1>3. SentInv
  BY DEF TelemetryInv
<1>4. \A i \in Sent' : /\ ledger'[i].chunk \in Nat /\ ledger'[i].chunk <= win'.chunk
                       /\ Fresh' => ledger'[i].chunk < win'.chunk
  BY <1>1, <1>2, <1>3 DEF SentInv
<1>5. \A i, j \in Sent' : ledger'[i].chunk = ledger'[j].chunk => i = j
  BY <1>1, <1>3 DEF SentInv
<1>6. \A k \in DOMAIN win'.confirmed : IsSent(win.confirmed[k])'
  BY <1>1, <1>2, <1>3 DEF SentInv
<1>7. /\ win'.pc = "sent" /\ win'.sendOut = "SUCCESS" => IsSent(win.chunk)'
      /\ Awaiting' /\ ~win'.recovering => IsSent(win.chunk)'
  BY <1>1, <1>2
<1>. QED  BY <1>2, <1>4, <1>5, <1>6, <1>7 DEF SentInv

LEMMA WorkMatch ==
    ASSUME TelemetryInv, WorkStep, snap \in Snapshots,
           \/ Matched(snap.requests)'
           \/ win.confirmed = <<>> /\ win'.pc = "catch"
    PROVE  MatchInv'
<1>1. OpenInv'
  BY WorkCommon
<1>2. win'.confirmed = win.confirmed /\ win'.pc \notin {"append", "error", "ended"}
  BY DEF WorkStep, NextWindow, Kept
<1>3. disk' # None => disk'.finished = None
  BY <1>1, <1>2 DEF OpenInv
<1>. QED  BY <1>2, <1>3 DEF MatchInv

(* An action of a window at work: what is left to show of it.                *)
LEMMA WorkInv ==
    ASSUME TelemetryInv, WorkStep, snap \in Snapshots, LedgerKept, ReadyInv',
           \/ Matched(snap.requests)'
           \/ win.confirmed = <<>> /\ win'.pc = "catch",
           Fresh' => Fresh,
           win'.pc = "sent" /\ win'.sendOut = "SUCCESS" => IsSent(win.chunk),
           Awaiting' /\ ~win.recovering => IsSent(win.chunk)
    PROVE  TelemetryInv'
<1>1. LedgerTyped'
  BY DEF LedgerKept, LedgerTyped
<1>2. EvidenceInv' /\ SentInv' /\ MatchInv'
  BY WorkEvidence, WorkSent, WorkMatch
<1>. QED  BY <1>1, <1>2, WorkCommon DEF TelemetryInv, Typed

LEMMA LedgerStays ==
    ASSUME Typed, ledger' = ledger
    PROVE  LedgerKept
BY DEF Typed, LedgerTyped, LedgerKept

(* As long as neither the ledger nor the requests change they match.         *)
LEMMA MatchStays ==
    ASSUME MatchInv, snap \in Snapshots, ledger' = ledger, snap'.requests = snap.requests,
           win.pc \notin {"create", "replay", "catch", "append", "error", "ended"}
    PROVE  Matched(snap.requests)'
<1>1. Matched(snap.requests)
  BY TelemetryAssumption DEF MatchInv
<1>. QED  BY <1>1 DEF Matched

LEMMA ReplayStep ==
    ASSUME TelemetryInv, Replay
    PROVE  TelemetryInv'
<1>1. /\ win.pc = "replay" /\ snap \in Snapshots /\ Typed /\ ReadyInv /\ outcome' = outcome
      /\ Len(ledger) = 1 /\ ledger[1].out # None /\ win.confirmed = <<>>
      /\ ledger \in Seq(Entries)
  BY SnapReady DEF TelemetryInv, Replay, BeginInv, Typed, LedgerTyped
<1>2. PICK next, r :
        /\ SendsKept(next) /\ next.requests = <<r>> /\ r \in Requests
        /\ r.seq = 1 /\ r.type = ledger[1].type /\ r.out = ledger[1].out
        /\ \/ Wrote(next) /\ win'.pc = "scheduled" /\ win'.req = "STATUS" /\ win.recovering
           \/ Wrote(next) /\ win'.pc = "select"
           \/ Lost(next) /\ win'.pc = "catch"
  BY <1>1, ReplayEffect
<1>3. NextWindow /\ ledger' = ledger
  BY <1>1, ReplayEffect
<1>4. WorkStep
  BY <1>1, <1>2, <1>3 DEF WorkStep, SendsKept
<1>5. snap' # None
  BY <1>1, <1>2, TelemetryAssumption DEF Wrote, Lost, SendsKept
<1>6. ReadyInv'
  BY <1>2, <1>5, TelemetryAssumption DEF ReadyInv, InSend, RequestTypes
<1>7. CASE Wrote(next)
  <2>1. snap'.requests = <<r>>
    BY <1>2, <1>7 DEF Wrote
  <2>2. Matched(snap.requests)'
    BY <1>1, <1>2, <1>3, <2>1 DEF Matched
  <2>. QED
    BY <1>1, <1>2, <1>3, <1>4, <1>6, <2>2, WorkInv, LedgerStays DEF Fresh, Awaiting
<1>8. CASE Lost(next) /\ win'.pc = "catch"
  BY <1>1, <1>3, <1>4, <1>6, <1>8, WorkInv, LedgerStays DEF Fresh, Awaiting
<1>. QED  BY <1>2, <1>7, <1>8

LEMMA CooldownStep ==
    ASSUME TelemetryInv, recordPreSignCooldown
    PROVE  TelemetryInv'
<1>1. /\ win.pc = "select" /\ snap \in Snapshots /\ Typed /\ ReadyInv /\ MatchInv
      /\ outcome' = outcome
  BY SnapReady DEF TelemetryInv, recordPreSignCooldown
<1>2. PICK next :
        /\ RequestsKept(next) /\ next.sends = Append(snap.sends, NewSend)
        /\ \/ Wrote(next) /\ win'.pc = "scheduled" /\ win'.req = "BLOCKHASH"
           \/ Lost(next) /\ win'.pc = "catch"
  BY <1>1, CooldownEffect
<1>3. NextWindow /\ ledger' = ledger /\ win'.chunk = win.chunk
  BY <1>1, CooldownEffect DEF NextWindow, Kept
<1>4. WorkStep
  BY <1>1, <1>2, <1>3 DEF WorkStep, RequestsKept
<1>5. snap' \in Snapshots /\ snap' # None /\ snap'.requests = snap.requests
  BY <1>1, <1>2, TelemetryAssumption DEF Wrote, Lost, RequestsKept
<1>6. win'.pc = "scheduled" =>
        Len(snap'.sends) # 0 /\ snap'.sends[Len(snap'.sends)].chunk = win.chunk
  <2>1. snap.sends \in Seq(Sends)
    BY <1>1 DEF Snapshots
  <2>2. win'.pc = "scheduled" => snap'.sends = Append(snap.sends, NewSend)
    BY <1>2 DEF Wrote
  <2>. QED  BY <2>1, <2>2 DEF NewSend
<1>7. ReadyInv'
  BY <1>2, <1>3, <1>5, <1>6, TelemetryAssumption DEF ReadyInv, InSend, RequestTypes
<1>8. Matched(snap.requests)'
  BY <1>1, <1>3, <1>5, MatchStays
<1>. QED
  BY <1>1, <1>2, <1>3, <1>4, <1>7, <1>8, WorkInv, LedgerStays DEF Fresh, Awaiting

LEMMA SkipStep ==
    ASSUME TelemetryInv, SkipRequest
    PROVE  TelemetryInv'
<1>1. /\ win.pc = "scheduled" /\ snap \in Snapshots /\ Typed /\ ReadyInv /\ MatchInv
      /\ outcome' = outcome
  BY SnapReady DEF TelemetryInv, SkipRequest
<1>2. /\ NextWindow /\ UNCHANGED <<snap, disk, ledger>>
      /\ \/ win.req = "STATUS" /\ win'.pc = "scheduled" /\ win'.req = "READ"
         \/ FailedTo(win, win') /\ win'.req = win.req
  BY <1>1, SkipEffect
<1>3. WorkStep /\ win'.chunk = win.chunk
  BY <1>1, <1>2 DEF WorkStep, FailedTo, NextWindow, Kept
<1>4. ReadyInv'
  BY <1>1, <1>2, <1>3, TelemetryAssumption DEF ReadyInv, InSend, FailedTo, RequestTypes
<1>5. Matched(snap.requests)'
  BY <1>1, <1>2, MatchStays
<1>6. SentInv
  BY DEF TelemetryInv
<1>. QED
  BY <1>1, <1>2, <1>3, <1>4, <1>5, <1>6, WorkInv, LedgerStays
  DEF Fresh, Awaiting, FailedTo, SentInv

LEMMA SendStartStep ==
    ASSUME TelemetryInv, recordSendStart
    PROVE  TelemetryInv'
<1>1. /\ win.pc = "signed" /\ snap \in Snapshots /\ Typed /\ ReadyInv /\ MatchInv
      /\ outcome' = outcome
  BY SnapReady DEF TelemetryInv, recordSendStart
<1>2. /\ NextWindow /\ ledger' = ledger
      /\ \/ UNCHANGED <<snap, disk>> /\ win'.pc = "catch"
         \/ \E next :
              /\ LastSendChanges(next) /\ next.sends[Len(snap.sends)].started # None
              /\ \/ Wrote(next) /\ win'.pc = "scheduled" /\ win'.req = "SEND"
                 \/ Lost(next) /\ win'.pc = "catch"
  BY <1>1, SendStartEffect
<1>3. WorkStep /\ win'.chunk = win.chunk
  BY <1>1, <1>2 DEF WorkStep, LastSendChanges, RequestsKept, NextWindow, Kept
<1>4. /\ snap' \in Snapshots /\ snap'.requests = snap.requests
      /\ win'.pc = "catch" \/ (win'.pc = "scheduled" /\ win'.req = "SEND")
      /\ win'.pc = "scheduled" =>
            /\ Len(snap'.sends) # 0 /\ snap'.sends[Len(snap'.sends)].chunk = win.chunk
            /\ snap'.sends[Len(snap'.sends)].started # None
  BY <1>1, <1>2 DEF Wrote, Lost, LastSendChanges, RequestsKept, ReadyInv, InSend
<1>5. ReadyInv'
  BY <1>3, <1>4, TelemetryAssumption DEF ReadyInv, InSend, RequestTypes
<1>6. Matched(snap.requests)'
  BY <1>1, <1>2, <1>4, MatchStays
<1>. QED
  BY <1>1, <1>2, <1>3, <1>4, <1>5, <1>6, WorkInv, LedgerStays DEF Fresh, Awaiting

LEMMA SendFinishStep ==
    ASSUME TelemetryInv, recordSendFinish
    PROVE  TelemetryInv'
<1>1. /\ win.pc = "sent" /\ snap \in Snapshots /\ Typed /\ ReadyInv /\ MatchInv /\ SentInv
      /\ outcome' = outcome
  BY SnapReady DEF TelemetryInv, recordSendFinish
<1>2. PICK next :
        /\ LastSendChanges(next)
        /\ Wrote(next) \/ Lost(next)
        /\ \/ win.sendOut = "SUCCESS" /\ win'.pc = "scheduled" /\ win'.req = "STATUS"
           \/ win'.pc = "sent" /\ win'.sendOut = "ERROR"
           \/ win'.pc \in {"finish", "catch"}
  BY <1>1, SendFinishEffect
<1>3. NextWindow /\ ledger' = ledger /\ win'.chunk = win.chunk
  BY <1>1, SendFinishEffect DEF NextWindow, Kept
<1>4. WorkStep
  BY <1>1, <1>2, <1>3 DEF WorkStep, LastSendChanges, RequestsKept
<1>5. /\ snap' \in Snapshots /\ snap'.requests = snap.requests
      /\ Len(snap'.sends) # 0 /\ snap'.sends[Len(snap'.sends)].chunk = win.chunk
  BY <1>1, <1>2 DEF Wrote, Lost, LastSendChanges, RequestsKept, ReadyInv, InSend
<1>6. ReadyInv'
  BY <1>2, <1>3, <1>5, TelemetryAssumption DEF ReadyInv, InSend, RequestTypes
<1>7. Matched(snap.requests)'
  BY <1>1, <1>3, <1>5, MatchStays
<1>8. (win'.pc = "scheduled" => IsSent(win.chunk)) /\ ~(win'.pc = "sent" /\ win'.sendOut = "SUCCESS")
  BY <1>1, <1>2 DEF SentInv
<1>. QED
  BY <1>1, <1>2, <1>3, <1>4, <1>6, <1>7, <1>8, WorkInv, LedgerStays DEF Fresh, Awaiting

LEMMA StartStep ==
    ASSUME TelemetryInv, StartRequest
    PROVE  TelemetryInv'
<1>1. /\ win.pc = "scheduled" /\ snap \in Snapshots /\ Typed /\ ReadyInv /\ MatchInv
      /\ outcome' = outcome /\ win.req \in RequestTypes /\ win.chunk \in Nat
      /\ ledger \in Seq(Entries) /\ snap.requests \in Seq(Requests)
  BY SnapReady
  DEF TelemetryInv, StartRequest, Typed, LedgerTyped, WindowTyped, Windows, ReadyInv, Snapshots
<1>2. PICK next :
        /\ SendsKept(next) /\ next.requests = Append(snap.requests, NewRequest)
        /\ \/ Wrote(next) /\ ledger' = Append(ledger, NewEntry) /\ win'.pc = "invoked"
           \/ Lost(next) /\ ledger' = ledger /\ FailedTo(win, win')
  BY <1>1, StartEffect
<1>3. NextWindow /\ win'.req = win.req /\ win'.chunk = win.chunk
      /\ win'.confirmed = win.confirmed /\ (win'.recovering <=> win.recovering)
  BY <1>1, StartEffect DEF NextWindow, Kept
<1>4. WorkStep
  BY <1>1, <1>2, <1>3 DEF WorkStep, SendsKept, FailedTo
<1>5. EvidenceInv /\ SentInv
  BY DEF TelemetryInv
<1>6. CASE Wrote(next) /\ ledger' = Append(ledger, NewEntry) /\ win'.pc = "invoked"
  <2>. DEFINE n == Len(ledger) + 1
              m == Len(snap.requests) + 1
  <2>1. /\ NewEntry \in Entries /\ NewEntry.type = win.req /\ NewEntry.chunk = win.chunk
        /\ NewRequest.seq = n /\ NewRequest.type = win.req /\ NewRequest.end = None
    BY <1>1 DEF NewEntry, Entries, NewRequest
  <2>2. /\ ledger' \in Seq(Entries) /\ Len(ledger') = n /\ ledger'[n] = NewEntry
        /\ \A i \in DOMAIN ledger : ledger'[i] = ledger[i]
        /\ DOMAIN ledger' = DOMAIN ledger \cup {n}
    BY <1>1, <1>6, <2>1
  <2>3. /\ snap' = next /\ disk' = next /\ snap' \in Snapshots /\ snap'.sends = snap.sends
        /\ assertMonotonicExtension(snap, next) /\ snap' # None
    BY <1>2, <1>6, TelemetryAssumption DEF Wrote, Admits, SendsKept
  <2>4. /\ Len(snap'.requests) = m /\ snap'.requests[m] = NewRequest
        /\ \A k \in DOMAIN snap.requests : k \in DOMAIN snap'.requests
                                           /\ snap'.requests[k] = snap.requests[k]
        /\ m \in DOMAIN snap'.requests /\ m # 0 /\ n # 0
    BY <1>1, <1>2, <2>3
  <2>. HIDE DEF n, m
  <2>5. LedgerTyped'
    BY <2>2 DEF LedgerTyped
  <2>6. ReadyInv'
    BY <1>1, <1>3, <1>6, <2>1, <2>2, <2>3, <2>4, TelemetryAssumption
    DEF ReadyInv, InSend, RequestTypes
  <2>7. /\ \A i \in Sent : ledger'[i].chunk = ledger[i].chunk /\ i \in Sent'
        /\ \A i \in Sent' : i \in Sent \/ (i = n /\ win.req = "SEND")
        /\ win.req = "SEND" => n \in Sent'
        /\ ledger'[n].chunk = win.chunk
    BY <2>1, <2>2 DEF Sent
  <2>8. EvidenceInv'
    <3>1. ASSUME NEW i \in Sent  PROVE Shows(next, i, ledger[i].chunk)
      BY <1>1, <1>2, <1>5, <2>3, ShowsExtends DEF EvidenceInv, SendsKept
    <3>2. ASSUME win.req = "SEND"  PROVE Shows(next, n, win.chunk)
      <4>1. snap.sends[Len(snap.sends)].chunk = win.chunk
            /\ snap.sends[Len(snap.sends)].started # None /\ Len(snap.sends) # 0
        BY <1>1, <3>2 DEF ReadyInv, InSend
      <4>2. Len(snap.sends) \in DOMAIN next.sends /\ next.sends = snap.sends
        BY <1>1, <1>2, <4>1 DEF SendsKept, Snapshots
      <4>. QED  BY <2>1, <2>3, <2>4, <3>2, <4>1, <4>2 DEF Shows, Members
    <3>. QED  BY <2>3, <2>7, <3>1, <3>2 DEF EvidenceInv
  <2>9. SentInv'
    <3>1. ~(win'.pc = "sent") /\ (Awaiting' => Awaiting) /\ (Fresh' => win.req = "BLOCKHASH")
      BY <1>1, <1>3, <1>6 DEF Awaiting, Fresh
    <3>2. \A c : IsSent(c) => IsSent(c)'
      BY <2>7 DEF IsSent
    <3>3. \A i \in Sent : ledger[i].chunk \in Nat /\ ledger[i].chunk <= win.chunk
      BY <1>5 DEF SentInv
    <3>4. win.req \in {"BLOCKHASH", "SEND"} => \A i \in Sent : ledger[i].chunk < win.chunk
      BY <1>1, <1>5 DEF SentInv, Fresh
    <3>5. \A i \in Sent' : /\ ledger'[i].chunk \in Nat /\ ledger'[i].chunk <= win'.chunk
                           /\ Fresh' => ledger'[i].chunk < win'.chunk
      BY <1>1, <1>3, <2>7, <3>1, <3>3, <3>4
    <3>6. \A i \in Sent : win.req = "SEND" => ledger[i].chunk # win.chunk
      BY <1>1, <3>3, <3>4
    <3>7. \A i, j \in Sent' : ledger'[i].chunk = ledger'[j].chunk => i = j
      BY <1>5, <2>7, <3>6 DEF SentInv
    <3>8. \A k \in DOMAIN win'.confirmed : IsSent(win.confirmed[k])'
      BY <1>3, <1>5, <3>2 DEF SentInv
    <3>9. Awaiting' /\ ~win'.recovering => IsSent(win.chunk)'
      BY <1>3, <1>5, <3>1, <3>2 DEF SentInv
    <3>. QED  BY <3>1, <3>5, <3>7, <3>8, <3>9 DEF SentInv
  <2>10. Matched(snap.requests)'
    <3>1. Matched(snap.requests)
      BY <1>1, TelemetryAssumption DEF MatchInv
    <3>2. ASSUME NEW i \in DOMAIN ledger
          PROVE  \E k \in DOMAIN snap'.requests :
                    /\ snap'.requests[k].seq = i /\ snap'.requests[k].type = ledger'[i].type
                    /\ snap'.requests[k].end # None => snap'.requests[k].out = ledger'[i].out
      BY <2>2, <2>4, <3>1 DEF Matched
    <3>3. /\ snap'.requests[m].seq = n /\ snap'.requests[m].type = ledger'[n].type
          /\ snap'.requests[m].end = None
      BY <2>1, <2>2, <2>4
    <3>. QED  BY <2>2, <2>4, <3>2, <3>3 DEF Matched
  <2>11. MatchInv'
    BY <1>1, <1>4, <2>10, WorkMatch
  <2>. QED
    BY <1>1, <1>4, <2>5, <2>6, <2>8, <2>9, <2>11, WorkCommon DEF TelemetryInv, Typed
<1>7. CASE Lost(next) /\ ledger' = ledger /\ FailedTo(win, win')
  <2>1. ReadyInv'
    BY <1>1, <1>3, <1>7, TelemetryAssumption DEF ReadyInv, InSend, FailedTo, RequestTypes, Lost
  <2>2. Matched(snap.requests)'
    BY <1>1, <1>7, MatchStays DEF Lost
  <2>. QED
    BY <1>1, <1>3, <1>4, <1>5, <1>7, <2>1, <2>2, WorkInv, LedgerStays
    DEF Fresh, Awaiting, FailedTo
<1>. QED  BY <1>2, <1>6, <1>7

LEMMA EndStep ==
    ASSUME TelemetryInv, EndRequest
    PROVE  TelemetryInv'
<1>1. /\ win.pc = "invoked" /\ snap \in Snapshots /\ Typed /\ ReadyInv /\ MatchInv
      /\ StoreInv /\ SentInv
      /\ outcome' = outcome /\ ledger \in Seq(Entries) /\ snap.requests \in Seq(Requests)
  BY SnapReady
  DEF TelemetryInv, EndRequest, Typed, LedgerTyped, ReadyInv, Snapshots
<1>. DEFINE n == Len(ledger)
            m == Len(snap.requests)
<1>2. /\ n # 0 /\ m # 0 /\ n \in DOMAIN ledger /\ m \in DOMAIN snap.requests
      /\ snap.requests[m].seq = n /\ snap.requests[m].end = None
      /\ ledger[n].type = win.req /\ ledger[n].chunk = win.chunk
  BY <1>1 DEF ReadyInv
<1>3. PICK next \in Snapshots, out \in RequestOutcomes :
        /\ SendsKept(next)
        /\ next.requests = [snap.requests EXCEPT ![m] = EndedRequest(out)]
        /\ ledger' = [ledger EXCEPT ![n].out = out]
        /\ \/ Wrote(next) /\ AnsweredTo(win, win')
           \/ /\ Wrote(next) /\ win.req # "SEND"
              /\ win'.pc = "scheduled" /\ win'.req = win.req
           \/ (Wrote(next) \/ Lost(next)) /\ FailedTo(win, win') /\ win'.req = win.req
  BY <1>1, EndEffect
<1>4. NextWindow /\ win'.chunk = win.chunk
  BY <1>1, EndEffect DEF NextWindow, Kept
<1>5. WorkStep
  BY <1>1, <1>3, <1>4 DEF WorkStep, SendsKept, FailedTo, AnsweredTo
<1>6. /\ DOMAIN ledger' = DOMAIN ledger /\ ledger' \in Seq(Entries) /\ Len(ledger') = n
      /\ \A i \in DOMAIN ledger : i # n => ledger'[i] = ledger[i]
      /\ ledger'[n].type = ledger[n].type /\ ledger'[n].chunk = ledger[n].chunk
      /\ ledger'[n].out = out
  <2>1. ledger[n] \in Entries
    BY <1>1, <1>2
  <2>. DEFINE e == [ledger[n] EXCEPT !.out = out]
  <2>2. e \in Entries /\ e.type = ledger[n].type /\ e.chunk = ledger[n].chunk /\ e.out = out
    BY <2>1 DEF Entries
  <2>3. ledger' = [ledger EXCEPT ![n] = e]
    BY <1>3
  <2>. HIDE DEF e
  <2>. QED  BY <1>1, <1>2, <2>2, <2>3
<1>7. LedgerKept
  BY <1>6 DEF LedgerKept
<1>8. /\ snap' \in Snapshots /\ snap' # None /\ snap'.sends = snap.sends
      /\ snap' = next \/ snap' = snap
  BY <1>1, <1>3, TelemetryAssumption DEF Wrote, Lost, SendsKept
<1>9. ReadyInv'
  BY <1>1, <1>3, <1>4, <1>8, TelemetryAssumption
  DEF ReadyInv, InSend, FailedTo, AnsweredTo, RequestTypes
<1>10. \A k \in DOMAIN snap.requests : snap.requests[k].seq = n => k = m
  <2>1. Increasing([i \in DOMAIN snap.requests |-> snap.requests[i].seq])
    BY <1>1, TelemetryAssumption DEF StoreInv, validateSnapshot
  <2>. DEFINE q == [i \in DOMAIN snap.requests |-> snap.requests[i].seq]
  <2>2. DOMAIN q = DOMAIN snap.requests /\ \A i \in DOMAIN q : q[i] = snap.requests[i].seq
    OBVIOUS
  <2>. HIDE DEF q
  <2>3. \A i, j \in DOMAIN snap.requests :
           i < j => snap.requests[i].seq < snap.requests[j].seq
    BY <2>1, <2>2 DEF Increasing, q
  <2>4. \A k \in DOMAIN snap.requests : snap.requests[k] \in Requests /\ k <= m /\ k \in Nat
    BY <1>1
  <2>5. \A x \in Requests : x.seq \in Nat
    BY DEF Requests
  <2>6. n \in Nat /\ m \in Nat
    BY <1>1
  <2>. HIDE DEF n, m
  <2>. QED  BY <1>2, <2>3, <2>4, <2>5, <2>6
<1>11. /\ EndedRequest(out).seq = n /\ EndedRequest(out).type = snap.requests[m].type
       /\ EndedRequest(out).out = out
  <2>1. snap.requests[m] \in Requests
    BY <1>1, <1>2
  <2>. QED  BY <1>2, <2>1 DEF EndedRequest, Requests
<1>12. Matched(snap.requests)'
  <2>1. Matched(snap.requests)
    BY <1>1, TelemetryAssumption DEF MatchInv
  <2>2. CASE snap' = snap
    BY <1>2, <1>6, <1>10, <2>1, <2>2 DEF Matched
  <2>3. CASE snap' = next
    <3>1. /\ DOMAIN snap'.requests = DOMAIN snap.requests
          /\ snap'.requests[m] = EndedRequest(out)
          /\ \A k \in DOMAIN snap.requests : k # m => snap'.requests[k] = snap.requests[k]
      BY <1>1, <1>2, <1>3, <2>3
    <3>. HIDE DEF n, m
    <3>2. ASSUME NEW i \in DOMAIN ledger
          PROVE  \E k \in DOMAIN snap'.requests :
                    /\ snap'.requests[k].seq = i /\ snap'.requests[k].type = ledger'[i].type
                    /\ snap'.requests[k].end # None => snap'.requests[k].out = ledger'[i].out
      <4>1. PICK k \in DOMAIN snap.requests :
              /\ snap.requests[k].seq = i /\ snap.requests[k].type = ledger[i].type
              /\ snap.requests[k].end # None => snap.requests[k].out = ledger[i].out
        BY <2>1 DEF Matched
      <4>2. CASE i = n
        BY <1>6, <1>10, <1>11, <3>1, <4>1, <4>2
      <4>3. CASE i # n
        BY <1>2, <1>6, <3>1, <4>1, <4>3
      <4>. QED  BY <4>2, <4>3
    <3>. QED  BY <1>6, <3>2 DEF Matched
  <2>. QED  BY <1>8, <2>2, <2>3
<1>13. Fresh' => Fresh
  BY <1>1, <1>3 DEF Fresh, FailedTo, AnsweredTo
<1>14. win'.pc = "sent" /\ win'.sendOut = "SUCCESS" => IsSent(win.chunk)
  <2>1. win'.pc = "sent" => win.req = "SEND"
    BY <1>3 DEF FailedTo, AnsweredTo
  <2>. QED  BY <1>2, <2>1 DEF IsSent, Sent
<1>15. Awaiting' /\ ~win.recovering => IsSent(win.chunk)
  <2>1. Awaiting' => Awaiting
    BY <1>1, <1>3 DEF Awaiting, FailedTo, AnsweredTo
  <2>. QED  BY <1>1, <2>1 DEF SentInv
<1>. QED  BY <1>1, <1>5, <1>7, <1>9, <1>12, <1>13, <1>14, <1>15, WorkInv

-------------------------------------------------------------------------------
(* The first record, the chunks, and the end of the window.                  *)

LEMMA EmptyIsValid == validateSnapshot(EmptySnapshot)
<1>1. /\ EmptySnapshot.requests = <<>> /\ EmptySnapshot.sends = <<>>
      /\ EmptySnapshot.polls = <<>> /\ EmptySnapshot.expected = <<>>
  BY EmptyIs
<1>2. DOMAIN <<>> = {} /\ Members(<<>>) = {}
  BY DEF Members
<1>. HIDE DEF EmptySnapshot
<1>3. validateRecordLinks(EmptySnapshot)
  BY <1>1, <1>2 DEF validateRecordLinks
<1>4. \A f : DOMAIN f = {} => Increasing(f)
  BY DEF Increasing
<1>5. /\ Increasing([i \in DOMAIN EmptySnapshot.requests |-> EmptySnapshot.requests[i].seq])
      /\ Increasing([i \in DOMAIN EmptySnapshot.sends |-> EmptySnapshot.sends[i].chunk])
      /\ Increasing([i \in DOMAIN EmptySnapshot.polls |-> EmptySnapshot.polls[i].seq])
      /\ Increasing(EmptySnapshot.expected)
  BY <1>1, <1>2, <1>4
<1>. QED  BY <1>1, <1>2, <1>3, <1>5 DEF validateSnapshot

LEMMA CreateStep ==
    ASSUME TelemetryInv, CreateStore
    PROVE  TelemetryInv'
<1>. USE DEF TelemetryInv
<1>1. /\ win.pc = "create" /\ snap = None /\ disk = None /\ outcome' = outcome
      /\ Typed /\ outcome = None /\ win.evidence = None
      /\ Len(ledger) = 1 /\ ledger[1].type = "READ" /\ ledger[1].out # None
      /\ win.confirmed = <<>> /\ ledger \in Seq(Entries)
  BY DEF CreateStore, BeginInv, OpenInv, Typed, LedgerTyped
<1>2. /\ NextWindow /\ ledger' = ledger
      /\ \/ snap' = EmptySnapshot /\ disk' = EmptySnapshot /\ win'.pc = "replay"
         \/ snap' = snap /\ disk' \in {disk, EmptySnapshot} /\ win'.pc = "catch"
  BY <1>1, CreateEffect
<1>3. /\ win'.chunk = win.chunk /\ win'.confirmed = <<>> /\ win'.evidence = None
      /\ win' \in Windows
  BY <1>1, <1>2 DEF NextWindow, Kept
<1>4. Sent = {} /\ Sent' = {}
  BY <1>1, <1>2 DEF Sent
<1>5. Typed'
  BY <1>1, <1>2, <1>3, EmptyIs DEF Typed, StoreTyped, LedgerTyped, WindowTyped
<1>6. BeginInv' /\ OpenInv'
  BY <1>1, <1>2, <1>3, EmptyIs DEF BeginInv, OpenInv
<1>7. ReadyInv' /\ StoreInv'
  BY <1>1, <1>2, <1>3, EmptyIs, EmptyIsValid DEF ReadyInv, StoreInv, InSend
<1>8. ConfirmedInv' /\ FinishNeverRefused'
  BY <1>1, <1>2, <1>3 DEF ConfirmedInv, FinishNeverRefused, NextWindow, Kept
<1>9. EvidenceInv' /\ SentInv'
  BY <1>2, <1>3, <1>4 DEF EvidenceInv, SentInv, Awaiting
<1>10. MatchInv' /\ NamesTheFile'
  BY <1>1, <1>2, <1>3, EmptyIs DEF MatchInv, NamesTheFile, OutcomeNamesTheFile
<1>. QED  BY <1>5, <1>6, <1>7, <1>8, <1>9, <1>10

LEMMA SettleStep ==
    ASSUME TelemetryInv, Settle
    PROVE  TelemetryInv'
<1>1. /\ win.pc = "settle" /\ snap \in Snapshots /\ Typed /\ ReadyInv /\ OpenInv /\ StoreInv
      /\ ConfirmedInv /\ EvidenceInv /\ SentInv /\ MatchInv /\ NamesTheFile
      /\ FinishNeverRefused
      /\ outcome' = outcome /\ win.chunk \in Nat /\ win.confirmed \in Seq(Nat)
  BY SnapReady DEF TelemetryInv, Settle, Typed, WindowTyped, Windows
<1>2. /\ UNCHANGED <<snap, disk, ledger>> /\ win' \in Windows
      /\ \/ Kept(win, win') /\ win'.pc \in {"catch", "finish"}
         \/ Counts /\ win'.pc \in {"select", "finish"}
  BY <1>1, SettleEffect
<1>3. /\ win'.evidence = win.evidence /\ (win'.refused <=> win.refused)
      /\ win'.pc \in {"select", "finish", "catch"} /\ snap # None
  BY <1>1, <1>2, TelemetryAssumption DEF Kept, Counts
<1>4. Typed' /\ BeginInv' /\ OpenInv' /\ StoreInv'
  BY <1>1, <1>2, <1>3
  DEF Typed, StoreTyped, LedgerTyped, WindowTyped, BeginInv, OpenInv, StoreInv
<1>5. ReadyInv' /\ EvidenceInv' /\ NamesTheFile' /\ FinishNeverRefused'
  BY <1>1, <1>2, <1>3
  DEF ReadyInv, InSend, EvidenceInv, Sent, NamesTheFile, OutcomeNamesTheFile, FinishNeverRefused
<1>6. MatchInv'
  <2>1. Matched(snap.requests) /\ (disk # None => disk.finished = None)
    BY <1>1, <1>3 DEF MatchInv, OpenInv
  <2>. QED  BY <1>2, <2>1 DEF MatchInv, Matched
<1>7. CASE Kept(win, win') /\ win'.pc \in {"catch", "finish"}
  <2>1. win'.chunk = win.chunk /\ win'.confirmed = win.confirmed
    BY <1>7 DEF Kept
  <2>2. ConfirmedInv'
    BY <1>1, <2>1 DEF ConfirmedInv
  <2>3. SentInv'
    BY <1>1, <1>2, <1>7, <2>1 DEF SentInv, Sent, IsSent, Fresh, Awaiting
  <2>. QED  BY <1>4, <1>5, <1>6, <2>2, <2>3 DEF TelemetryInv
<1>8. CASE Counts /\ win'.pc \in {"select", "finish"}
  <2>1. /\ win'.chunk = win.chunk + 1
        /\ win'.confirmed = win.confirmed \/ (~win.recovering /\
              win'.confirmed = Append(win.confirmed, win.chunk))
    BY <1>8 DEF Counts
  <2>2. win'.confirmed = Append(win.confirmed, win.chunk) =>
          /\ DOMAIN win'.confirmed = DOMAIN win.confirmed \cup {Len(win.confirmed) + 1}
          /\ \A k \in DOMAIN win.confirmed : win'.confirmed[k] = win.confirmed[k]
                                             /\ k < Len(win.confirmed) + 1
          /\ win'.confirmed[Len(win.confirmed) + 1] = win.chunk
    BY <1>1
  <2>3. \A k \in DOMAIN win.confirmed : win.confirmed[k] \in Nat /\ k \in Nat
    BY <1>1
  <2>4. ConfirmedInv'
    <3>1. CASE win'.confirmed = win.confirmed
      BY <1>1, <2>1, <2>3, <3>1 DEF ConfirmedInv
    <3>2. CASE win'.confirmed = Append(win.confirmed, win.chunk)
      <4>. DEFINE n == Len(win.confirmed) + 1
      <4>1. n \in Nat
        BY <1>1
      <4>. HIDE DEF n
      <4>2. /\ DOMAIN win'.confirmed = DOMAIN win.confirmed \cup {n}
            /\ \A k \in DOMAIN win.confirmed : win'.confirmed[k] = win.confirmed[k] /\ k < n
            /\ win'.confirmed[n] = win.chunk
        BY <2>2, <3>2 DEF n
      <4>3. \A k \in DOMAIN win'.confirmed : win'.confirmed[k] < win'.chunk
        BY <1>1, <2>1, <2>3, <4>2 DEF ConfirmedInv
      <4>4. \A i, j \in DOMAIN win'.confirmed :
               i < j => win'.confirmed[i] < win'.confirmed[j]
        BY <1>1, <2>3, <4>1, <4>2 DEF ConfirmedInv, Increasing
      <4>. QED  BY <4>3, <4>4 DEF ConfirmedInv, Increasing
    <3>. QED  BY <2>1, <3>1, <3>2
  <2>5. SentInv'
    <3>1. Sent' = Sent /\ \A c : IsSent(c) <=> IsSent(c)'
      BY <1>2 DEF Sent, IsSent
    <3>2. \A k \in DOMAIN win'.confirmed : IsSent(win'.confirmed[k])
      BY <1>1, <2>1, <2>2 DEF SentInv, Awaiting
    <3>3. \A i \in Sent : ledger[i].chunk \in Nat /\ ledger[i].chunk < win'.chunk
                          /\ ledger[i].chunk <= win'.chunk
      BY <1>1, <2>1 DEF SentInv
    <3>4. \A k \in DOMAIN win'.confirmed : IsSent(win.confirmed[k])'
      BY <3>1, <3>2
    <3>. QED  BY <1>1, <1>2, <1>8, <3>1, <3>3, <3>4 DEF SentInv, Awaiting
  <2>. QED  BY <1>4, <1>5, <1>6, <2>4, <2>5 DEF TelemetryInv
<1>. QED  BY <1>2, <1>7, <1>8

(* The terminal record passes every check of the store.                      *)
LEMMA VerdictAdmitted ==
    ASSUME snap \in Snapshots, validateSnapshot(snap),
           snap.finished = None, snap.expected = <<>>,
           NEW next \in Snapshots, next.requests = snap.requests, next.sends = snap.sends,
           next.polls = snap.polls, Increasing(next.expected)
    PROVE  Admits(next)
<1>1. validateSnapshot(next)
  BY DEF validateSnapshot, validateRecordLinks
<1>2. /\ Fills(snap.finished, next.finished) /\ ~Complete(snap)
      /\ \A x : Fills(x, x)
  BY DEF Fills, Complete
<1>3. IsPrefix(snap.polls, next.polls) /\ IsPrefix(snap.expected, next.expected)
  <2>1. /\ snap.polls \in Seq(Polls) /\ next.polls = snap.polls
        /\ snap.expected = <<>> /\ next.expected \in Seq(Nat)
    BY DEF Snapshots
  <2>2. IsPrefix(snap.polls, next.polls)
    BY <2>1 DEF IsPrefix
  <2>3. SubSeq(next.expected, 1, 0) = <<>> /\ SubSeq(<<>>, 1, 0) = <<>> /\ Len(<<>>) = 0
        /\ Len(next.expected) \in Nat
    BY <2>1
  <2>4. IsPrefix(snap.expected, next.expected)
    BY <2>1, <2>3 DEF IsPrefix
  <2>. QED  BY <2>2, <2>4
<1>4. assertMonotonicExtension(snap, next)
  <2>1. Len(snap.requests) <= Len(next.requests) /\ Len(snap.sends) <= Len(next.sends)
    BY DEF Snapshots
  <2>. QED  BY <1>2, <1>3, <2>1 DEF assertMonotonicExtension
<1>. QED  BY <1>1, <1>4 DEF Admits

LEMMA FinishStep ==
    ASSUME TelemetryInv, finish
    PROVE  TelemetryInv'
<1>1. /\ win.pc \in {"finish", "catch"} /\ Typed /\ ReadyInv /\ OpenInv /\ StoreInv
      /\ ConfirmedInv /\ EvidenceInv /\ SentInv /\ MatchInv
      /\ ~win.refused /\ outcome = None
  BY DEF TelemetryInv, finish, FinishNeverRefused, OpenInv
<1>2. /\ win' \in Windows /\ UNCHANGED <<ledger, outcome>>
      /\ win'.chunk = win.chunk /\ win'.confirmed = win.confirmed
      /\ win'.pc \in {"append", "error"}
  BY <1>1, FinishEffect
<1>3. ConfirmedInv' /\ SentInv' /\ BeginInv' /\ LedgerTyped' /\ WindowTyped'
  BY <1>1, <1>2 DEF ConfirmedInv, SentInv, BeginInv, Typed, LedgerTyped, WindowTyped, Sent,
                    IsSent, Fresh, Awaiting
<1>4. CASE snap = None /\ UNCHANGED <<snap, disk>> /\ Kept(win, win')
  <2>1. win'.pc = "error"
    BY <1>1, <1>2, <1>4 DEF finish, ReadyInv, Goto, Typed, WindowTyped, Windows
  <2>2. StoreTyped' /\ OpenInv' /\ ReadyInv' /\ StoreInv' /\ EvidenceInv'
    BY <1>1, <1>2, <1>4, <2>1
    DEF Typed, StoreTyped, OpenInv, ReadyInv, InSend, StoreInv, EvidenceInv, Sent
  <2>3. MatchInv'
    <3>1. disk' # None => disk'.finished = None
      BY <1>1, <1>4 DEF OpenInv
    <3>. QED  BY <1>4, <3>1 DEF MatchInv
  <2>4. NamesTheFile' /\ FinishNeverRefused'
    BY <1>1, <1>2, <1>4
    DEF Kept, OpenInv, NamesTheFile, OutcomeNamesTheFile, FinishNeverRefused
  <2>. QED  BY <1>3, <2>2, <2>3, <2>4 DEF TelemetryInv, Typed
<1>5. ASSUME snap \in Snapshots,
             NEW next \in Snapshots,
             next.requests = snap.requests, next.sends = snap.sends, next.polls = snap.polls,
             next.finished \in Nat, next.expected = win.confirmed,
             \/ Wrote(next) /\ win'.evidence = next
             \/ Lost(next) /\ win'.evidence = None,
             win'.refused => win.refused \/ ~Admits(next)
      PROVE  TelemetryInv'
  <2>1. /\ snap # None /\ next # None /\ snap.finished = None /\ snap.expected = <<>>
        /\ validateSnapshot(snap)
        /\ disk # None => disk.finished = None
    BY <1>1, <1>5, TelemetryAssumption DEF OpenInv, StoreInv
  <2>2. Admits(next)
    BY <1>1, <1>5, <2>1, VerdictAdmitted DEF ConfirmedInv
  <2>3. FinishNeverRefused'
    BY <1>1, <1>5, <2>2 DEF FinishNeverRefused
  <2>4. /\ snap' \in Snapshots /\ snap' # None /\ snap'.requests = snap.requests
        /\ validateSnapshot(snap')
        /\ snap' = snap \/ snap' = next
        /\ disk' = disk \/ disk' = next
        /\ StoreTyped'
    BY <1>1, <1>5, <2>1, <2>2 DEF Wrote, Lost, Admits, Typed, StoreTyped
  <2>5. OpenInv' /\ ReadyInv' /\ StoreInv'
    BY <1>1, <1>2, <2>4 DEF OpenInv, ReadyInv, InSend, StoreInv
  <2>6. EvidenceInv'
    <3>1. Sent' = Sent /\ ledger' = ledger
      BY <1>2 DEF Sent
    <3>2. ASSUME NEW i \in Sent
          PROVE  /\ Shows(snap, i, ledger[i].chunk) /\ Shows(disk, i, ledger[i].chunk)
                 /\ Shows(next, i, ledger[i].chunk)
      BY <1>1, <1>5, <2>2, ShowsExtends DEF EvidenceInv, Admits
    <3>. QED  BY <2>4, <3>1, <3>2 DEF EvidenceInv
  <2>7. MatchInv'
    <3>1. Matched(snap.requests) \/ win.confirmed = <<>>
      BY <1>1, <2>1 DEF MatchInv
    <3>2. (Matched(snap.requests) => Matched(snap.requests)')
          /\ (disk' = next /\ Matched(snap.requests) => Matched(disk.requests)')
      BY <1>2, <1>5, <2>4 DEF Matched
    <3>3. /\ disk' # None /\ disk'.finished # None => disk' = next
          /\ disk' = next => disk'.expected = win'.confirmed
      BY <1>2, <1>5, <2>1, <2>4
    <3>. QED  BY <1>2, <3>1, <3>2, <3>3 DEF MatchInv
  <2>8. NamesTheFile'
    BY <1>1, <1>2, <1>5 DEF NamesTheFile, OutcomeNamesTheFile, Wrote
  <2>. QED  BY <1>3, <2>3, <2>4, <2>5, <2>6, <2>7, <2>8 DEF TelemetryInv, Typed
<1>. QED  BY <1>1, <1>4, <1>5, FinishEffect

(* A step that touches neither the store nor the ledger at the end.          *)
LEMMA EndOfWindow ==
    ASSUME TelemetryInv, win' \in Windows, UNCHANGED <<snap, disk, ledger>>,
           win'.chunk = win.chunk, win'.confirmed = win.confirmed,
           win'.refused <=> win.refused, win'.pc \in {"error", "ended"},
           win'.pc = "ended" \/ outcome' = None, NamesTheFile',
           win.pc = "append" \/ win'.pc = "ended"
    PROVE  TelemetryInv'
<1>1. Typed' /\ BeginInv' /\ OpenInv' /\ StoreInv'
  BY DEF TelemetryInv, Typed, StoreTyped, LedgerTyped, WindowTyped, BeginInv, OpenInv, StoreInv
<1>2. ReadyInv' /\ EvidenceInv' /\ ConfirmedInv' /\ FinishNeverRefused'
  BY DEF TelemetryInv, ReadyInv, InSend, EvidenceInv, Sent, ConfirmedInv, FinishNeverRefused
<1>3. SentInv'
  BY DEF TelemetryInv, SentInv, Sent, IsSent, Fresh, Awaiting
<1>4. MatchInv'
  <2>1. (snap # None => Matched(snap.requests) \/ win.confirmed = <<>>)
    BY DEF TelemetryInv, MatchInv, BeginInv
  <2>2. disk # None /\ disk.finished # None =>
           disk.expected = win.confirmed /\ (Matched(disk.requests) \/ win.confirmed = <<>>)
    BY DEF TelemetryInv, MatchInv
  <2>. QED  BY <2>1, <2>2 DEF MatchInv, Matched
<1>. QED  BY <1>1, <1>2, <1>3, <1>4 DEF TelemetryInv

LEMMA AppendStep ==
    ASSUME TelemetryInv, AppendOutcome
    PROVE  TelemetryInv'
<1>1. Typed /\ NamesTheFile /\ win.pc = "append" /\ outcome = None
  BY DEF TelemetryInv, AppendOutcome, OpenInv
<1>2. /\ win' \in Windows /\ UNCHANGED <<snap, disk, ledger>>
      /\ win'.chunk = win.chunk /\ win'.confirmed = win.confirmed
      /\ win'.refused <=> win.refused
      /\ \/ /\ win'.pc = "ended" /\ win'.evidence = win.evidence
            /\ outcome'.ref = win.evidence
         \/ win'.pc = "error" /\ win'.evidence = None /\ outcome' = outcome
  BY <1>1, AppendEffect
<1>3. NamesTheFile'
  BY <1>1, <1>2 DEF NamesTheFile, OutcomeNamesTheFile
<1>. QED  BY <1>1, <1>2, <1>3, EndOfWindow

LEMMA EndingStep ==
    ASSUME TelemetryInv, AppendError \/ Kill
    PROVE  TelemetryInv'
<1>1. Typed /\ NamesTheFile
  BY DEF TelemetryInv
<1>2. /\ NextWindow /\ UNCHANGED <<snap, disk, ledger>> /\ win'.pc = "ended"
      /\ \/ outcome' = outcome
         \/ win.pc = "error" /\ outcome'.ref = win.evidence
  BY <1>1, EndingEffect
<1>3. NamesTheFile'
  BY <1>1, <1>2 DEF NamesTheFile, OutcomeNamesTheFile, NextWindow, Kept
<1>. QED  BY <1>2, <1>3, EndOfWindow DEF NextWindow, Kept

-------------------------------------------------------------------------------
LEMMA TelemetryInitial ==
    ASSUME Init
    PROVE  TelemetryInv
<1>1. /\ snap = None /\ disk = None /\ outcome = None
      /\ Len(ledger) = 1 /\ ledger[1] = [type |-> "READ", chunk |-> None, out |-> "SUCCESS"]
      /\ ledger[1].type = "READ" /\ ledger[1].out = "SUCCESS"
      /\ DOMAIN ledger = {1} /\ ledger \in Seq(Entries)
  BY DEF Init, Entries, RequestTypes, RequestOutcomes
<1>2. PICK r \in BOOLEAN : win = [NewWindow EXCEPT !.recovering = r]
  BY DEF Init
<1>3. /\ win \in Windows /\ win.pc = "create" /\ win.confirmed = <<>> /\ win.evidence = None
      /\ win.chunk = 0 /\ ~win.refused
  <2>1. NewWindow \in Windows
    BY DEF NewWindow, Windows, Pcs, SeenValues
  <2>2. [NewWindow EXCEPT !.recovering = r] \in Windows
    BY <2>1 DEF Windows
  <2>. QED  BY <1>2, <2>2 DEF NewWindow
<1>4. Sent = {}
  BY <1>1 DEF Sent
<1>5. "SUCCESS" # None
  BY TelemetryAssumption DEF RequestOutcomes
<1>6. Typed /\ BeginInv /\ OpenInv /\ ReadyInv /\ StoreInv
  BY <1>1, <1>3, <1>5 DEF Typed, StoreTyped, LedgerTyped, WindowTyped, BeginInv, OpenInv,
                    ReadyInv, InSend, StoreInv
<1>7. ConfirmedInv /\ EvidenceInv /\ SentInv
  BY <1>3, <1>4 DEF ConfirmedInv, Increasing, EvidenceInv, SentInv, Awaiting
<1>8. MatchInv /\ NamesTheFile /\ FinishNeverRefused
  BY <1>1, <1>3 DEF MatchInv, NamesTheFile, OutcomeNamesTheFile, FinishNeverRefused
<1>. QED  BY <1>6, <1>7, <1>8 DEF TelemetryInv

LEMMA TelemetryStays ==
    ASSUME TelemetryInv, UNCHANGED vars
    PROVE  TelemetryInv'
<1>1. Sent' = Sent /\ \A c : IsSent(c)' <=> IsSent(c)
  BY DEF vars, Sent, IsSent
<1>2. Typed' /\ BeginInv' /\ OpenInv' /\ ReadyInv' /\ StoreInv' /\ ConfirmedInv'
  BY DEF TelemetryInv, vars, Typed, StoreTyped, LedgerTyped, WindowTyped, BeginInv, OpenInv,
         ReadyInv, InSend, StoreInv, ConfirmedInv
<1>3. EvidenceInv' /\ NamesTheFile' /\ FinishNeverRefused'
  BY <1>1 DEF TelemetryInv, vars, EvidenceInv, NamesTheFile, OutcomeNamesTheFile,
              FinishNeverRefused
<1>4. SentInv'
  BY DEF TelemetryInv, vars, SentInv, Sent, IsSent, Fresh, Awaiting
<1>5. MatchInv'
  BY DEF TelemetryInv, vars, MatchInv, Matched
<1>. QED  BY <1>2, <1>3, <1>4, <1>5 DEF TelemetryInv

(* In every reachable state the memory and the file have each send of the    *)
(* ledger; chunks are sent once and in order; a finished record has every    *)
(* request of the ledger, or no confirmed chunk; and nothing is written      *)
(* after the record an outcome refers to.                                    *)
THEOREM TelemetryInvariant == Spec => []TelemetryInv
<1>1. Init => TelemetryInv
  BY TelemetryInitial
<1>2. TelemetryInv /\ [Next]_vars => TelemetryInv'
  BY CreateStep, ReplayStep, CooldownStep, StartStep, EndStep, SkipStep, SendStartStep,
     SendFinishStep, SettleStep, FinishStep, AppendStep, EndingStep, TelemetryStays DEF Next
<1>. QED  BY <1>1, <1>2, PTL DEF Spec

(* A send that went over the network has its request and its started         *)
(* boundary in telemetry.json, whatever writes failed.                       *)
THEOREM SendsAreEvidenced == Spec => []SendIsEvidenced
<1>1. TelemetryInv => SendIsEvidenced
  BY DEF TelemetryInv, EvidenceInv, SendIsEvidenced, Shows
<1>. QED  BY <1>1, TelemetryInvariant, PTL

(* The hash an outcome refers to is the hash of the file that is there.      *)
THEOREM OutcomesNameTheFile == Spec => []OutcomeNamesTheFile
<1>1. TelemetryInv => OutcomeNamesTheFile
  BY DEF TelemetryInv, NamesTheFile
<1>. QED  BY <1>1, TelemetryInvariant, PTL

(* Only a failed write keeps the terminal record out of the store.           *)
THEOREM FinishIsAdmitted == Spec => []FinishNeverRefused
<1>1. TelemetryInv => FinishNeverRefused
  BY DEF TelemetryInv
<1>. QED  BY <1>1, TelemetryInvariant, PTL

(* A COMPLETE verdict of computeMissing: each chunk the window sent was sent *)
(* once and is confirmed, and the file has every request of the ledger.      *)
THEOREM CompleteIsComplete == Spec => []CompleteLeavesNothingOut
<1>1. TelemetryInv => CompleteLeavesNothingOut
  <2>. SUFFICES ASSUME TelemetryInv, disk # None, Complete(disk)
                PROVE  /\ \A i \in Sent : ledger[i].chunk \in Members(win.confirmed)
                       /\ \A c \in Members(win.confirmed) :
                             Cardinality({i \in Sent : ledger[i].chunk = c}) = 1
                       /\ \A i \in DOMAIN ledger : \E r \in Members(disk.requests) :
                             r.seq = i /\ r.type = ledger[i].type /\ r.out = ledger[i].out
    BY DEF CompleteLeavesNothingOut
  <2>1. disk.finished # None /\ disk.expected # <<>>
        /\ (\A r \in Members(disk.requests) : r.end # None) /\ SendsAccounted(disk)
    BY DEF Complete
  <2>2. /\ disk.expected = win.confirmed /\ Matched(disk.requests)
        /\ EvidenceInv /\ SentInv
    BY <2>1 DEF TelemetryInv, MatchInv
  <2>3. \A i \in Sent : ledger[i].chunk \in Members(win.confirmed)
    BY <2>1, <2>2 DEF EvidenceInv, Shows, SendsAccounted
  <2>4. ASSUME NEW c \in Members(win.confirmed)
        PROVE  Cardinality({i \in Sent : ledger[i].chunk = c}) = 1
    <3>1. PICK i \in Sent : ledger[i].chunk = c
      BY <2>2 DEF SentInv, IsSent, Members
    <3>2. {j \in Sent : ledger[j].chunk = c} = {i}
      BY <2>2, <3>1 DEF SentInv
    <3>. QED  BY <3>2, FS_Singleton
  <2>5. ASSUME NEW i \in DOMAIN ledger
        PROVE  \E r \in Members(disk.requests) :
                  r.seq = i /\ r.type = ledger[i].type /\ r.out = ledger[i].out
    BY <2>1, <2>2 DEF Matched, Members
  <2>. QED  BY <2>3, <2>4, <2>5
<1>. QED  BY <1>1, TelemetryInvariant, PTL
===============================================================================
