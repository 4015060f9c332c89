--------------------------- MODULE RpcSchedulerProofs --------------------------
(***************************************************************************)
(* Theorems about RpcScheduler, for any requests, capacity, gap, timeout   *)
(* and backoff.                                                            *)
(*                                                                         *)
(* How often a request may be on the network follows from where runItem    *)
(* stands with it (StartsMatchItem), which in turn needs the queue to hold *)
(* distinct requests that were never started (QueueIsFresh); what the      *)
(* ledger holds of it then follows one step at a time (LedgerInv).         *)
(***************************************************************************)
EXTENDS RpcScheduler, TLAPS

Item ==
    [req : Requests \cup {None},
     phase : {"idle", "guard", "gap", "flight", "backoff"},
     retry : Nat,
     timer : Nat,
     observed : BOOLEAN]

States == {"new", "refused", "queued", "active", "rejected", "resolved"}

(* The countdown and the time since the last start cover the gap between     *)
(* them, whatever waits are under way.                                       *)
SpacingInv == gap \in Nat /\ since \in Nat /\ gap + since >= Gap

ItemTyped == item \in Item

(* q could be the queue while the promises are in the states s.              *)
FreshQueue(q, s) ==
    /\ q \in Seq(Requests)
    /\ \A i \in 1 .. Len(q) : s[q[i]] = "queued"
    /\ \A i, j \in 1 .. Len(q) : i # j => q[i] # q[j]

Unstarted(s) ==
    /\ s \in [Requests -> States]
    /\ \A r \in Requests : s[r] \in {"new", "queued"} => starts[r] = 0

QueueIsFresh ==
    /\ FreshQueue(queue, st)
    /\ Unstarted(st)
    /\ item.phase = "idle" => item = Idle /\ queue = <<>>

StartsMatchItem ==
    item.phase # "idle" =>
        /\ item.req \in Requests
        /\ st[item.req] = "active"
        /\ item.phase \in {"guard", "gap"} => starts[item.req] = item.retry
        /\ item.phase \in {"flight", "backoff"} => starts[item.req] = item.retry + 1
        /\ item.retry <= 2
        /\ item.req \in Sends => item.retry = 0
        /\ item.phase = "backoff" => item.req \notin Sends /\ item.retry < 2

AttemptInv ==
    /\ ItemTyped
    /\ starts \in [Requests -> Nat]
    /\ QueueIsFresh
    /\ StartsMatchItem
    /\ AttemptsBounded

-------------------------------------------------------------------------------
(* The two delays of the backoff.                                            *)
LEMMA TwoDelays ==
    /\ Len(RetryBackoff) = 2
    /\ \A i \in 1 .. 2 : RetryBackoff[i] \in Nat
BY SchedulerAssumption

(* pump hands over to the head of a queue of fresh requests.                 *)
LEMMA PumpStep ==
    ASSUME starts \in [Requests -> Nat], AttemptsBounded, UNCHANGED starts,
           NEW q \in Seq(Requests), NEW s \in [Requests -> States], Unstarted(s),
           \A i, j \in 1 .. Len(q) : i # j => q[i] # q[j],
           \A i \in 2 .. Len(q) : s[q[i]] = "queued",
           q # <<>> => s[q[1]] \in {"new", "queued"},
           pump(q, s)
    PROVE  AttemptInv'
<1>1. CASE q = <<>>
  <2>1. queue' = <<>> /\ item' = Idle /\ st' = s
    BY <1>1 DEF pump
  <2>2. ItemTyped'
    BY <2>1 DEF ItemTyped, Item, Idle
  <2>3. item'.phase = "idle"
    BY <2>1 DEF Idle
  <2>. QED
    BY <1>1, <2>1, <2>2, <2>3
       DEF AttemptInv, QueueIsFresh, FreshQueue, Unstarted, StartsMatchItem, AttemptsBounded
<1>2. CASE q # <<>>
  <2>. DEFINE r == q[1]
  <2>1. queue' = Tail(q) /\ item' = Begin(r) /\ st' = [s EXCEPT ![r] = "active"]
    BY <1>2 DEF pump
  <2>2. r \in Requests /\ starts[r] = 0
    BY <1>2 DEF Unstarted
  <2>3. /\ ItemTyped'
        /\ item'.req = r /\ item'.phase = "guard" /\ item'.retry = 0
    BY <2>1, <2>2 DEF ItemTyped, Item, Begin, Idle
  <2>4. /\ Tail(q) \in Seq(Requests)
        /\ Len(Tail(q)) = Len(q) - 1
        /\ \A i \in 1 .. Len(q) - 1 : Tail(q)[i] = q[i + 1] /\ i + 1 \in 2 .. Len(q)
    BY <1>2
  <2>5. \A i \in 2 .. Len(q) : q[i] \in Requests /\ q[i] # r
    BY <1>2
  <2>6. FreshQueue(queue', st')
    BY <2>1, <2>4, <2>5 DEF FreshQueue
  <2>7. Unstarted(st)'
    BY <2>1 DEF Unstarted, States
  <2>8. StartsMatchItem'
    BY <2>1, <2>2, <2>3 DEF StartsMatchItem
  <2>. QED  BY <2>3, <2>6, <2>7, <2>8 DEF AttemptInv, QueueIsFresh, AttemptsBounded
<1>. QED  BY <1>1, <1>2

(* The request runItem works on is settled.                                  *)
LEMMA SettleStep ==
    ASSUME AttemptInv, UNCHANGED starts, item.phase # "idle",
           NEW how \in {"rejected", "resolved"}, Settle(how)
    PROVE  AttemptInv'
<1>. DEFINE s == [st EXCEPT ![item.req] = how]
<1>1. s \in [Requests -> States]
  BY DEF AttemptInv, QueueIsFresh, Unstarted, States
<1>2. Unstarted(s)
  BY <1>1 DEF AttemptInv, QueueIsFresh, Unstarted
<1>3. /\ queue \in Seq(Requests)
      /\ \A i, j \in 1 .. Len(queue) : i # j => queue[i] # queue[j]
      /\ \A i \in 1 .. Len(queue) : s[queue[i]] = "queued"
  BY DEF AttemptInv, QueueIsFresh, FreshQueue, Unstarted, StartsMatchItem
<1>4. queue # <<>> => s[queue[1]] = "queued"
  BY <1>3
<1>5. pump(queue, s)
  BY DEF Settle
<1>. HIDE DEF s
<1>. QED  BY <1>1, <1>2, <1>3, <1>4, <1>5, PumpStep DEF AttemptInv

LEMMA ScheduleStep ==
    ASSUME AttemptInv, NEW r \in Requests, NEW nb, NEW dl, schedule(r, nb, dl)
    PROVE  AttemptInv'
<1>1. st[r] = "new" /\ UNCHANGED starts
  BY DEF schedule
<1>2. CASE item = Idle
  <2>1. queue = <<>>
    BY <1>2 DEF AttemptInv, QueueIsFresh, Idle
  <2>2. pump(<<r>>, st)
    BY <1>2, <2>1 DEF schedule
  <2>3. /\ <<r>> \in Seq(Requests) /\ <<r>> # <<>> /\ <<r>>[1] = r
        /\ \A i, j \in 1 .. Len(<<r>>) : i # j => <<r>>[i] # <<r>>[j]
        /\ \A i \in 2 .. Len(<<r>>) : st[<<r>>[i]] = "queued"
    OBVIOUS
  <2>4. /\ starts \in [Requests -> Nat] /\ AttemptsBounded /\ Unstarted(st)
        /\ st \in [Requests -> States]
    BY DEF AttemptInv, QueueIsFresh, Unstarted
  <2>. QED  BY <1>1, <2>2, <2>3, <2>4, PumpStep
<1>3. CASE item # Idle
  <2>1. queue' = Append(queue, r) /\ st' = [st EXCEPT ![r] = "queued"] /\ UNCHANGED item
    BY <1>3 DEF schedule
  <2>2. item.phase # "idle" /\ item.req # r
    BY <1>1, <1>3 DEF AttemptInv, QueueIsFresh, StartsMatchItem
  <2>3. FreshQueue(queue', st')
    BY <1>1, <2>1 DEF AttemptInv, QueueIsFresh, FreshQueue, Unstarted, States
  <2>4. Unstarted(st)'
    BY <1>1, <2>1 DEF AttemptInv, QueueIsFresh, Unstarted, States
  <2>5. StartsMatchItem'
    BY <1>1, <2>1, <2>2 DEF AttemptInv, QueueIsFresh, Unstarted, StartsMatchItem
  <2>. QED
    BY <1>1, <2>1, <2>2, <2>3, <2>4, <2>5
       DEF AttemptInv, ItemTyped, QueueIsFresh, AttemptsBounded
<1>. QED  BY <1>2, <1>3

(* What markAborted leaves of the promises.                                  *)
LEMMA RejectedQueue ==
    ASSUME AttemptInv
    PROVE  /\ QueueRejected(st) \in [Requests -> States]
           /\ Unstarted(QueueRejected(st))
           /\ item.phase # "idle" => QueueRejected(st)[item.req] = "active"
<1>1. Range(queue) = {queue[i] : i \in 1 .. Len(queue)}
  BY DEF AttemptInv, QueueIsFresh, FreshQueue, Range
<1>2. QueueRejected(st) \in [Requests -> States]
  BY DEF QueueRejected, AttemptInv, QueueIsFresh, Unstarted, States
<1>3. \A r \in Requests : QueueRejected(st)[r] \in {"new", "queued"} => st[r] \in {"new", "queued"}
  BY DEF QueueRejected
<1>4. Unstarted(QueueRejected(st))
  BY <1>2, <1>3 DEF AttemptInv, QueueIsFresh, Unstarted
<1>5. item.phase # "idle" => item.req \notin Range(queue)
  BY <1>1 DEF AttemptInv, QueueIsFresh, FreshQueue, StartsMatchItem
<1>6. item.phase # "idle" => QueueRejected(st)[item.req] = "active"
  BY <1>5 DEF AttemptInv, StartsMatchItem, QueueRejected
<1>. QED  BY <1>2, <1>4, <1>6

LEMMA AttemptOverStep ==
    ASSUME AttemptInv, item.phase = "flight", NEW outcome \in Outcomes, AttemptOver(outcome)
    PROVE  AttemptInv'
<1>1. UNCHANGED starts
  BY DEF AttemptOver
<1>2. CASE pump(<<>>, [QueueRejected(st) EXCEPT ![item.req] = "rejected"])
  <2>. DEFINE s == [QueueRejected(st) EXCEPT ![item.req] = "rejected"]
  <2>1. s \in [Requests -> States]
    BY RejectedQueue DEF States
  <2>2. Unstarted(s)
    BY <2>1, RejectedQueue DEF Unstarted
  <2>3. pump(<<>>, s)
    BY <1>2
  <2>4. /\ <<>> \in Seq(Requests)
        /\ \A i, j \in 1 .. Len(<<>>) : i # j => <<>>[i] # <<>>[j]
        /\ \A i \in 2 .. Len(<<>>) : s[<<>>[i]] = "queued"
    OBVIOUS
  <2>5. starts \in [Requests -> Nat] /\ AttemptsBounded
    BY DEF AttemptInv
  <2>. HIDE DEF s
  <2>. QED  BY <1>1, <2>1, <2>2, <2>3, <2>4, <2>5, PumpStep
<1>3. CASE Settle("rejected") \/ Settle("resolved")
  BY <1>1, <1>3, SettleStep
<1>4. CASE /\ Retryable(outcome)
           /\ item' = [item EXCEPT !.phase = "backoff", !.timer = RetryBackoff[item.retry + 1]]
           /\ UNCHANGED <<queue, st>>
  <2>1. item.retry \in Nat /\ item.retry < 2 /\ item.req \notin Sends /\ item \in Item
    BY <1>4, TwoDelays DEF Retryable, AttemptInv, ItemTyped, Item
  <2>2. RetryBackoff[item.retry + 1] \in Nat
    BY <2>1, TwoDelays
  <2>3. item' \in Item /\ item'.phase = "backoff" /\ item'.req = item.req /\ item'.retry = item.retry
    BY <1>4, <2>1, <2>2 DEF Item
  <2>4. StartsMatchItem'
    BY <1>1, <1>4, <2>1, <2>3 DEF AttemptInv, StartsMatchItem
  <2>. QED
    BY <1>1, <1>4, <2>3, <2>4
       DEF AttemptInv, ItemTyped, QueueIsFresh, FreshQueue, Unstarted, AttemptsBounded
<1>. QED  BY <1>2, <1>3, <1>4 DEF AttemptOver, Reject

LEMMA StartStep ==
    ASSUME AttemptInv, NEW observed \in BOOLEAN, StartAttempt(observed)
    PROVE  AttemptInv'
<1>1. /\ item.phase = "gap" /\ UNCHANGED <<queue, st>>
      /\ starts' = [starts EXCEPT ![item.req] = @ + 1]
      /\ item' = [item EXCEPT !.phase = "flight", !.timer = Timeout, !.observed = observed]
  BY DEF StartAttempt
<1>2. item \in Item
  BY DEF AttemptInv, ItemTyped
<1>3. item' \in Item /\ item'.phase = "flight" /\ item'.req = item.req /\ item'.retry = item.retry
  BY <1>1, <1>2, SchedulerAssumption DEF Item
<1>4. /\ item.req \in Requests /\ starts[item.req] = item.retry /\ item.retry <= 2
      /\ item.req \in Sends => item.retry = 0
  BY <1>1 DEF AttemptInv, StartsMatchItem
<1>5. starts' \in [Requests -> Nat] /\ starts'[item.req] = item.retry + 1
  BY <1>1, <1>2, <1>4 DEF AttemptInv, Item
<1>6. AttemptsBounded'
  BY <1>1, <1>2, <1>4, <1>5 DEF AttemptInv, AttemptsBounded, Item
<1>7. StartsMatchItem'
  BY <1>1, <1>3, <1>4, <1>5 DEF AttemptInv, StartsMatchItem
<1>8. Unstarted(st)'
  BY <1>1, <1>4 DEF AttemptInv, QueueIsFresh, Unstarted, StartsMatchItem
<1>. QED
  BY <1>1, <1>3, <1>5, <1>6, <1>7, <1>8 DEF AttemptInv, ItemTyped, QueueIsFresh, FreshQueue

(* runItem moves on without a start.                                         *)
LEMMA PhaseStep ==
    ASSUME AttemptInv, UNCHANGED <<queue, st, starts>>, item.phase # "idle",
           item' \in Item, item'.req = item.req,
           \/ item.phase = "guard" /\ item'.phase = "gap" /\ item'.retry = item.retry
           \/ item.phase = "backoff" /\ item'.phase = "guard" /\ item'.retry = item.retry + 1
    PROVE  AttemptInv'
<1>1. item.retry \in Nat
  BY DEF AttemptInv, ItemTyped, Item
<1>2. StartsMatchItem'
  BY <1>1 DEF AttemptInv, StartsMatchItem
<1>. QED
  BY <1>2 DEF AttemptInv, ItemTyped, QueueIsFresh, FreshQueue, Unstarted, AttemptsBounded

LEMMA TickStep ==
    ASSUME AttemptInv, Tick
    PROVE  AttemptInv'
<1>1. item \in Item /\ item' = [item EXCEPT !.timer = Less(@)] /\ UNCHANGED <<queue, st, starts>>
  BY DEF AttemptInv, ItemTyped, Tick
<1>2. item.timer \in Nat /\ Less(item.timer) \in Nat
  BY <1>1, SchedulerAssumption DEF Item, Less
<1>3. item' \in Item /\ item'.phase = item.phase /\ item'.req = item.req /\ item'.retry = item.retry
  BY <1>1, <1>2 DEF Item
<1>4. ASSUME item = Idle  PROVE item' = Idle
  <2>1. item' = [Idle EXCEPT !.timer = Less(Idle.timer)]
    BY <1>1, <1>4
  <2>2. Less(Idle.timer) = 0
    BY DEF Idle, Less
  <2>. QED  BY <2>1, <2>2 DEF Idle
<1>. QED
  BY <1>1, <1>3, <1>4
     DEF AttemptInv, ItemTyped, QueueIsFresh, FreshQueue, Unstarted, StartsMatchItem, AttemptsBounded

LEMMA AttemptStep == AttemptInv /\ [Next]_vars => AttemptInv'
<1>. SUFFICES ASSUME AttemptInv, [Next]_vars  PROVE AttemptInv'
  OBVIOUS
<1>1. ASSUME NEW r \in Requests, ScheduleRefused(r)  PROVE AttemptInv'
  BY <1>1
     DEF ScheduleRefused, AttemptInv, ItemTyped, QueueIsFresh, FreshQueue, Unstarted, States,
         StartsMatchItem, AttemptsBounded
<1>2. ASSUME NEW r \in Requests, NEW nb, NEW dl, schedule(r, nb, dl)  PROVE AttemptInv'
  BY <1>2, ScheduleStep
<1>3. CASE abort
  <2>1. UNCHANGED <<item, starts>> /\ queue' = <<>> /\ st' = QueueRejected(st)
    BY <1>3 DEF abort
  <2>2. Unstarted(st)' /\ (item.phase # "idle" => st'[item.req] = "active")
    BY <2>1, RejectedQueue DEF Unstarted
  <2>. QED
    BY <2>1, <2>2
       DEF AttemptInv, ItemTyped, QueueIsFresh, FreshQueue, StartsMatchItem, AttemptsBounded
<1>4. CASE BeforeAttempt
  <2>1. /\ item.phase = "guard" /\ UNCHANGED <<queue, st, starts>>
        /\ item' = [item EXCEPT !.phase = "gap"]
    BY <1>4 DEF BeforeAttempt
  <2>2. item' \in Item /\ item'.phase = "gap" /\ item'.req = item.req /\ item'.retry = item.retry
    BY <2>1 DEF AttemptInv, ItemTyped, Item
  <2>. QED  BY <2>1, <2>2, PhaseStep
<1>5. CASE BackoffOver
  <2>1. /\ item.phase = "backoff" /\ UNCHANGED <<queue, st, starts>>
        /\ item' = [item EXCEPT !.phase = "guard", !.retry = @ + 1]
    BY <1>5 DEF BackoffOver
  <2>2. item' \in Item /\ item'.phase = "guard" /\ item'.req = item.req /\ item'.retry = item.retry + 1
    <3>1. item \in Item /\ item.retry + 1 \in Nat
      BY DEF AttemptInv, ItemTyped, Item
    <3>. QED  BY <2>1, <3>1 DEF Item
  <2>. QED  BY <2>1, <2>2, PhaseStep
<1>6. CASE BeforeAttemptThrows \/ WaitAborted \/ DeadlineReject \/ SubscriberThrows
  <2>1. item.phase # "idle" /\ Settle("rejected") /\ UNCHANGED starts
    BY <1>6 DEF BeforeAttemptThrows, WaitAborted, DeadlineReject, SubscriberThrows, Reject
  <2>. QED  BY <2>1, SettleStep
<1>7. ASSUME NEW observed \in BOOLEAN, StartAttempt(observed)  PROVE AttemptInv'
  BY <1>7, StartStep
<1>8. CASE TimedOut
  BY <1>8, AttemptOverStep DEF TimedOut, Outcomes
<1>9. ASSUME NEW o \in Outcomes, Answered(o)  PROVE AttemptInv'
  BY <1>9, AttemptOverStep DEF Answered
<1>10. CASE Tick
  BY <1>10, TickStep
<1>11. CASE UNCHANGED <<queue, item, st, starts>>
  BY <1>11
     DEF AttemptInv, ItemTyped, QueueIsFresh, FreshQueue, Unstarted, StartsMatchItem, AttemptsBounded
<1>. QED
  BY <1>1, <1>2, <1>3, <1>4, <1>5, <1>6, <1>7, <1>8, <1>9, <1>10, <1>11
     DEF Next, Run, close, LateAnswer, vars

LEMMA SpacingStep == SpacingInv /\ [Next]_vars => SpacingInv'
<1>. SUFFICES ASSUME SpacingInv, [Next]_vars  PROVE SpacingInv'
  OBVIOUS
<1>. USE SchedulerAssumption DEF SpacingInv
<1>1. ASSUME NEW observed \in BOOLEAN, StartAttempt(observed)  PROVE SpacingInv'
  BY <1>1 DEF StartAttempt
<1>2. CASE Tick
  <2>1. gap' = IF gap = 0 THEN 0 ELSE gap - 1
    BY <1>2 DEF Tick, Less
  <2>2. since' = IF since < Gap THEN since + 1 ELSE since
    BY <1>2 DEF Tick
  <2>. QED  BY <2>1, <2>2
<1>3. CASE UNCHANGED <<gap, since>>
  BY <1>3
<1>. QED
  BY <1>1, <1>2, <1>3
     DEF Next, Run, ScheduleRefused, schedule, close, abort, BeforeAttempt, BeforeAttemptThrows,
         WaitAborted, DeadlineReject, SubscriberThrows, TimedOut, BackoffOver, Answered,
         AttemptOver, LateAnswer, vars

(* Only StartAttempt puts a request on the network.                          *)
LEMMA OnlyStartAttempt ==
    ASSUME [Next]_vars, starts' # starts
    PROVE  \E observed \in BOOLEAN : StartAttempt(observed)
BY DEF Next, Run, ScheduleRefused, schedule, close, abort, BeforeAttempt, BeforeAttemptThrows,
       WaitAborted, DeadlineReject, SubscriberThrows, TimedOut, BackoffOver, Answered,
       AttemptOver, LateAnswer, Tick, vars

-------------------------------------------------------------------------------
(* The ledger                                                                *)

LedgerInv ==
    /\ counts \in [Requests -> [Outcomes -> Nat]]
    /\ EveryAttemptRecorded

(* A request that begins is not on the network yet.                          *)
LEMMA PumpLands ==
    ASSUME NEW q, NEW s, pump(q, s)
    PROVE  ~InFlight'
BY DEF pump, InFlight, Idle, Begin

(* A step that starts nothing and ends no attempt.                           *)
LEMMA LedgerStays ==
    ASSUME LedgerInv, UNCHANGED <<counts, starts>>,
           \/ ~InFlight /\ ~InFlight'
           \/ item'.phase = item.phase /\ item'.req = item.req
    PROVE  LedgerInv'
BY DEF LedgerInv, EveryAttemptRecorded, Entries, InFlight

LEMMA LedgerStart ==
    ASSUME AttemptInv, LedgerInv, NEW observed \in BOOLEAN, StartAttempt(observed)
    PROVE  LedgerInv'
<1>1. /\ item.phase = "gap" /\ UNCHANGED counts
      /\ starts' = [starts EXCEPT ![item.req] = @ + 1]
      /\ item' = [item EXCEPT !.phase = "flight", !.timer = Timeout, !.observed = observed]
  BY DEF StartAttempt
<1>2. /\ item \in Item /\ item.req \in Requests /\ starts \in [Requests -> Nat]
  BY <1>1 DEF AttemptInv, ItemTyped, StartsMatchItem
<1>3. ~InFlight /\ InFlight' /\ item'.req = item.req
  BY <1>1, <1>2 DEF InFlight, Item
<1>4. \A r \in Requests : Entries(r)' = Entries(r) /\ Entries(r) \in Nat
  BY <1>1 DEF LedgerInv, Entries, Outcomes
<1>5. \A r \in Requests : starts'[r] = starts[r] + (IF item.req = r THEN 1 ELSE 0)
  BY <1>1, <1>2
<1>6. EveryAttemptRecorded'
  BY <1>2, <1>3, <1>4, <1>5 DEF LedgerInv, EveryAttemptRecorded
<1>. QED  BY <1>1, <1>6 DEF LedgerInv

(* However an attempt ends, it leaves one entry.                             *)
LEMMA LedgerEntry ==
    ASSUME AttemptInv, LedgerInv, item.phase = "flight", NEW outcome \in Outcomes,
           AttemptOver(outcome)
    PROVE  LedgerInv'
<1>1. counts' = [counts EXCEPT ![item.req][outcome] = @ + 1] /\ UNCHANGED starts
  BY DEF AttemptOver, Recorded
<1>2. /\ item \in Item /\ item.req \in Requests /\ InFlight
      /\ counts \in [Requests -> [Outcomes -> Nat]] /\ starts \in [Requests -> Nat]
  BY DEF AttemptInv, ItemTyped, StartsMatchItem, LedgerInv, InFlight
<1>3. ~InFlight'
  <2>1. CASE \E q, s : pump(q, s)
    BY <2>1, PumpLands
  <2>2. CASE item' = [item EXCEPT !.phase = "backoff", !.timer = RetryBackoff[item.retry + 1]]
    BY <1>2, <2>2 DEF InFlight, Item
  <2>. QED  BY <2>1, <2>2 DEF AttemptOver, Reject, Settle
<1>4. ASSUME NEW r \in Requests
      PROVE  Entries(r)' = Entries(r) + (IF item.req = r THEN 1 ELSE 0)
  <2>1. \A o \in Outcomes :
           /\ counts[r][o] \in Nat
           /\ counts'[r][o] = counts[r][o] + (IF item.req = r /\ o = outcome THEN 1 ELSE 0)
    BY <1>1, <1>2
  <2>2. outcome \in {"SUCCESS", "RPC_RATE_LIMITED", "RPC_REQUEST_TIMEOUT", "RPC_ERROR"}
    BY DEF Outcomes
  <2>. QED  BY <2>1, <2>2 DEF Entries, Outcomes
<1>5. \A r \in Requests : Entries(r) \in Nat
  BY <1>2 DEF Entries, Outcomes
<1>6. EveryAttemptRecorded'
  BY <1>1, <1>2, <1>3, <1>4, <1>5 DEF LedgerInv, EveryAttemptRecorded
<1>7. counts' \in [Requests -> [Outcomes -> Nat]]
  BY <1>1, <1>2
<1>. QED  BY <1>6, <1>7 DEF LedgerInv

LEMMA LedgerStep == AttemptInv /\ LedgerInv /\ [Next]_vars => LedgerInv'
<1>. SUFFICES ASSUME AttemptInv, LedgerInv, [Next]_vars  PROVE LedgerInv'
  OBVIOUS
<1>1. item \in Item
  BY DEF AttemptInv, ItemTyped
<1>2. ASSUME NEW observed \in BOOLEAN, StartAttempt(observed)  PROVE LedgerInv'
  BY <1>2, LedgerStart
<1>3. CASE TimedOut
  BY <1>3, LedgerEntry DEF TimedOut, Outcomes
<1>4. ASSUME NEW o \in Outcomes, Answered(o)  PROVE LedgerInv'
  BY <1>4, LedgerEntry DEF Answered
<1>5. CASE BeforeAttemptThrows \/ WaitAborted \/ DeadlineReject \/ SubscriberThrows
  <2>1. item.phase \in {"guard", "gap", "backoff"} /\ UNCHANGED <<counts, starts>>
        /\ \E q, s : pump(q, s)
    BY <1>5 DEF BeforeAttemptThrows, WaitAborted, DeadlineReject, SubscriberThrows, Reject, Settle
  <2>. QED  BY <2>1, PumpLands, LedgerStays DEF InFlight
<1>6. ASSUME NEW r, NEW nb, NEW dl, schedule(r, nb, dl)  PROVE LedgerInv'
  <2>1. UNCHANGED <<counts, starts>>
    BY <1>6 DEF schedule
  <2>2. CASE item = Idle
    <3>1. ~InFlight /\ ~InFlight'
      BY <1>6, <2>2, PumpLands DEF schedule, InFlight, Idle
    <3>. QED  BY <2>1, <3>1, LedgerStays
  <2>. QED  BY <1>6, <2>1, <2>2, LedgerStays DEF schedule
<1>7. CASE BeforeAttempt \/ BackoffOver \/ Tick
  <2>1. UNCHANGED <<counts, starts>>
    BY <1>7 DEF BeforeAttempt, BackoffOver, Tick
  <2>2. CASE BeforeAttempt \/ BackoffOver
    <3>1. ~InFlight /\ ~InFlight'
      BY <1>1, <2>2 DEF BeforeAttempt, BackoffOver, InFlight, Item
    <3>. QED  BY <2>1, <3>1, LedgerStays
  <2>3. CASE Tick
    <3>1. item'.phase = item.phase /\ item'.req = item.req
      BY <1>1, <2>3 DEF Tick, Item
    <3>. QED  BY <2>1, <3>1, LedgerStays
  <2>. QED  BY <1>7, <2>2, <2>3
<1>8. CASE UNCHANGED <<item, counts, starts>>
  BY <1>8, LedgerStays
<1>. QED
  BY <1>2, <1>3, <1>4, <1>5, <1>6, <1>7, <1>8
     DEF Next, Run, ScheduleRefused, close, abort, LateAnswer, vars

-------------------------------------------------------------------------------
(* No request is put on the network within minimumRequestStartGapMs of the   *)
(* one before it: the wait for the gap and the wait for notBeforeMonotonicMs *)
(* are both over when waitForRequestStartGap lets an attempt through.        *)
THEOREM RequestsAreSpaced == Spec => StartsSpaced
<1>1. Init => SpacingInv
  BY SchedulerAssumption DEF Init, SpacingInv
<1>2. SpacingInv /\ [Next]_vars => [starts' # starts => since >= Gap]_vars
  <2>1. ASSUME SpacingInv, NEW observed \in BOOLEAN, StartAttempt(observed)
        PROVE  since >= Gap
    BY <2>1, SchedulerAssumption DEF SpacingInv, StartAttempt, waitForRequestStartGap
  <2>. QED  BY <2>1, OnlyStartAttempt
<1>. QED  BY <1>1, <1>2, SpacingStep, PTL DEF Spec, StartsSpaced

(* The inductive invariant of the queue and the request runItem works on.    *)
THEOREM AttemptInvariant == Spec => []AttemptInv
<1>1. Init => AttemptInv
  BY SchedulerAssumption
     DEF Init, AttemptInv, ItemTyped, Item, Idle, QueueIsFresh, FreshQueue, Unstarted, States,
         StartsMatchItem, AttemptsBounded
<1>. QED  BY <1>1, AttemptStep, PTL DEF Spec

(* A transaction is put on the network once, a read at most three times,     *)
(* however its attempts end and whatever else is scheduled.                  *)
THEOREM AttemptsAreBounded == Spec => []AttemptsBounded
<1>1. AttemptInv => AttemptsBounded
  BY DEF AttemptInv
<1>. QED  BY <1>1, AttemptInvariant, PTL

(* What the ledger holds of a request is exactly what was put on the network *)
(* for it: no attempt is lost or recorded twice, whether it was answered,    *)
(* timed out, ended by an observer or a subscriber, or cut off by abort().   *)
THEOREM AttemptsAreRecorded == Spec => []EveryAttemptRecorded
<1>1. Init => LedgerInv
  <2>1. ASSUME Init, NEW r \in Requests  PROVE Entries(r) = 0 /\ starts[r] = 0 /\ ~InFlight
    BY <2>1 DEF Init, Entries, Outcomes, InFlight, Idle
  <2>2. Init => counts \in [Requests -> [Outcomes -> Nat]]
    BY DEF Init
  <2>. QED  BY <2>1, <2>2 DEF LedgerInv, EveryAttemptRecorded
<1>2. LedgerInv => EveryAttemptRecorded
  BY DEF LedgerInv
<1>. QED  BY <1>1, <1>2, LedgerStep, AttemptInvariant, PTL DEF Spec

(* After abort() nothing more is put on the network, in whatever wait it     *)
(* found the active request.                                                 *)
THEOREM AbortIsFinal == Spec => AbortStopsStarts
<1>1. [Next]_vars => [aborted => starts' = starts]_vars
  BY OnlyStartAttempt DEF StartAttempt
<1>. QED  BY <1>1, PTL DEF Spec, AbortStopsStarts
===============================================================================
