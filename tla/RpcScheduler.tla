----------------------------- MODULE RpcScheduler -----------------------------
(***************************************************************************)
(* The invocation-scoped RPC scheduler of scripts/devnet: a FIFO queue     *)
(* that runs one request at a time, keeps a gap between request starts,    *)
(* gives every attempt a timeout, retries reads twice after a rate limit   *)
(* or a timeout, and can be closed or aborted.  The ledger that records    *)
(* the attempts is part of the model.                                      *)
(*                                                                         *)
(* Times are countdowns: lastRequestStartMs is the time `gap` until the    *)
(* next start is allowed, a deadline is the time left until it.  A timer   *)
(* may fire late, so Tick is never disabled by a timer that is due.        *)
(***************************************************************************)
EXTENDS Naturals, Sequences, SequencesExt, Functions

CONSTANTS
    Requests,     \* calls of schedule()
    Sends,        \* those of class SEND_RAW_TRANSACTION
    Capacity,     \* queueCapacity
    Gap,          \* minimumRequestStartGapMs
    Timeout,      \* requestTimeoutMs
    RetryBackoff, \* retryBackoffMs, two delays
    NotBefores,   \* values of notBeforeMonotonicMs, relative to the call
    Deadlines,    \* values of deadlineMonotonicMs, relative to the call
    Cleanup,      \* requiredCleanupMs
    Faults,       \* bound: which callbacks may throw
    None

ASSUME SchedulerAssumption ==
    /\ Sends \subseteq Requests
    /\ Capacity \in Nat \ {0}
    /\ Gap \in Nat
    /\ Timeout \in Nat \ {0}
    /\ RetryBackoff \in (Nat \ {0}) \X (Nat \ {0})
    /\ NotBefores \subseteq Nat
    /\ Deadlines \subseteq Nat
    /\ Cleanup \in Nat
    /\ Faults \subseteq {"guard", "observer", "subscriber"}
    /\ None \notin Requests \cup Nat

VARIABLES
    queue,      \* requests that wait
    item,       \* the request runItem works on, its phase, retryNumber and timer
    st,         \* st[r]: what became of the promise of request r
    notBefore,  \* notBefore[r]: time until the first start is allowed, or None
    budget,     \* budget[r]: time left until the deadline, or None
    gap,        \* time until lastRequestStartMs + minimumRequestStartGapMs
    closed, aborted,
    waiter,     \* the promise of close() or abort(): "none", "waiting", "idle"
    net,        \* operations under way, with the ones a timeout gave up
    counts,     \* counts[r][o]: ledger entries of request r with outcome o
    starts,     \* history: starts[r], how often request r was put on the network
    since       \* history: time since the last start, up to Gap

vars == <<queue, item, st, notBefore, budget, gap, closed, aborted, waiter, net,
          counts, starts, since>>

Outcomes == {"SUCCESS", "RPC_RATE_LIMITED", "RPC_REQUEST_TIMEOUT", "RPC_ERROR"}

Idle == [req |-> None, phase |-> "idle", retry |-> 0, timer |-> 0, observed |-> TRUE]

Begin(r) == [Idle EXCEPT !.req = r, !.phase = "guard"]

Options(S) == S \cup {None}

Init ==
    /\ queue = <<>>
    /\ item = Idle
    /\ st = [r \in Requests |-> "new"]
    /\ notBefore = [r \in Requests |-> None]
    /\ budget = [r \in Requests |-> None]
    /\ gap = 0
    /\ closed = FALSE
    /\ aborted = FALSE
    /\ waiter = "none"
    /\ net = {}
    /\ counts = [r \in Requests |-> [o \in Outcomes |-> 0]]
    /\ starts = [r \in Requests |-> 0]
    /\ since = Gap

(***************************************************************************)
(* pump and settleIdleWaiters                                              *)
(***************************************************************************)
(* Mutant of pump: the last request does not wake the waiters.               *)
PumpForgetsWaiters(q, s) ==
    /\ queue' = IF q = <<>> THEN q ELSE Tail(q)
    /\ item' = IF q = <<>> THEN Idle ELSE Begin(Head(q))
    /\ st' = IF q = <<>> THEN s ELSE [s EXCEPT ![Head(q)] = "active"]
    /\ UNCHANGED waiter

(* Nothing is active: the head of q becomes active, or the waiters of close  *)
(* and abort are told.                                                       *)
pump(q, s) ==
    /\ queue' = IF q = <<>> THEN q ELSE Tail(q)
    /\ item' = IF q = <<>> THEN Idle ELSE Begin(Head(q))
    /\ st' = IF q = <<>> THEN s ELSE [s EXCEPT ![Head(q)] = "active"]
    /\ waiter' = IF q = <<>> /\ waiter = "waiting" THEN "idle" ELSE waiter

Settle(how) == pump(queue, [st EXCEPT ![item.req] = how])

Reject == Settle("rejected")

(* what markAborted makes of the requests in the queue                       *)
QueueRejected(s) ==
    [r \in Requests |-> IF r \in Range(queue) THEN "rejected" ELSE s[r]]

waitUntilIdle(i, q) == IF i = Idle /\ q = <<>> THEN "idle" ELSE "waiting"

(***************************************************************************)
(* schedule, close, abort                                                  *)
(***************************************************************************)
Refused == closed \/ Len(queue) >= Capacity

ScheduleRefused(r) ==
    /\ st[r] = "new"
    /\ Refused
    /\ st' = [st EXCEPT ![r] = "refused"]
    /\ UNCHANGED <<queue, item, notBefore, budget, gap, closed, aborted, waiter, net,
                   counts, starts, since>>

schedule(r, nb, dl) ==
    /\ st[r] = "new"
    /\ ~Refused
    /\ notBefore' = [notBefore EXCEPT ![r] = nb]
    /\ budget' = [budget EXCEPT ![r] = dl]
    /\ IF item = Idle
       THEN pump(Append(queue, r), st)
       ELSE /\ queue' = Append(queue, r)
            /\ st' = [st EXCEPT ![r] = "queued"]
            /\ UNCHANGED <<item, waiter>>
    /\ UNCHANGED <<gap, closed, aborted, net, counts, starts, since>>

close ==
    /\ ~closed
    /\ closed' = TRUE
    /\ waiter' = waitUntilIdle(item, queue)
    /\ UNCHANGED <<queue, item, st, notBefore, budget, gap, aborted, net, counts,
                   starts, since>>

abort ==
    /\ ~aborted
    /\ aborted' = TRUE
    /\ closed' = TRUE
    /\ queue' = <<>>
    /\ st' = QueueRejected(st)
    /\ waiter' = waitUntilIdle(item, <<>>)
    /\ UNCHANGED <<item, notBefore, budget, gap, net, counts, starts, since>>

(***************************************************************************)
(* runItem                                                                 *)
(***************************************************************************)
runUnchanged == <<notBefore, budget, closed, aborted>>

(* The guard of this attempt, beforeAttempt, returns.                        *)
BeforeAttempt ==
    /\ item.phase = "guard"
    /\ ~aborted
    /\ item' = [item EXCEPT !.phase = "gap"]
    /\ UNCHANGED <<queue, st, gap, waiter, net, counts, starts, since>>
    /\ UNCHANGED runUnchanged

BeforeAttemptThrows ==
    /\ "guard" \in Faults
    /\ item.phase = "guard"
    /\ ~aborted
    /\ Reject
    /\ UNCHANGED <<gap, net, counts, starts, since>>
    /\ UNCHANGED runUnchanged

(* A wait ends, on time or early, and finds the scheduler aborted.           *)
WaitAborted ==
    /\ item.phase \in {"guard", "gap", "backoff"}
    /\ aborted
    /\ Reject
    /\ UNCHANGED <<gap, net, counts, starts, since>>
    /\ UNCHANGED runUnchanged

(* Mutant of waitForRequestStartGap: notBeforeMonotonicMs replaces the gap.  *)
NotBeforeOnly ==
    IF item.retry = 0 /\ notBefore[item.req] # None
    THEN notBefore[item.req] = 0
    ELSE gap = 0

(* Both the gap and, on the first attempt, notBeforeMonotonicMs are over.    *)
waitForRequestStartGap ==
    /\ gap = 0
    /\ item.retry = 0 => notBefore[item.req] \in {0, None}

DeadlineExhausted ==
    /\ budget[item.req] # None
    /\ Timeout + Cleanup > budget[item.req]

DeadlineReject ==
    /\ item.phase = "gap"
    /\ waitForRequestStartGap
    /\ ~aborted
    /\ DeadlineExhausted
    /\ Reject
    /\ UNCHANGED <<gap, net, counts, starts, since>>
    /\ UNCHANGED runUnchanged

(* A subscriber of invocation starts throws: the operation is not invoked.   *)
SubscriberThrows ==
    /\ "subscriber" \in Faults
    /\ item.phase = "gap"
    /\ waitForRequestStartGap
    /\ ~aborted
    /\ ~DeadlineExhausted
    /\ Reject
    /\ UNCHANGED <<gap, net, counts, starts, since>>
    /\ UNCHANGED runUnchanged

(* Mutant of StartAttempt: no look at aborted after the wait.                *)
StartUnchecked(observed) ==
    /\ item.phase = "gap"
    /\ waitForRequestStartGap
    /\ ~DeadlineExhausted
    /\ item' = [item EXCEPT !.phase = "flight", !.timer = Timeout, !.observed = observed]
    /\ net' = net \cup {<<item.req, item.retry>>}
    /\ gap' = Gap
    /\ starts' = [starts EXCEPT ![item.req] = @ + 1]
    /\ since' = 0
    /\ UNCHANGED <<queue, st, waiter, counts>>
    /\ UNCHANGED runUnchanged

(* The ledger assigns the start, the operation goes out, the timer is set;   *)
(* the observer of the caller may throw, which is looked at on completion.   *)
StartAttempt(observed) ==
    /\ item.phase = "gap"
    /\ waitForRequestStartGap
    /\ ~aborted
    /\ ~DeadlineExhausted
    /\ observed \/ "observer" \in Faults
    /\ item' = [item EXCEPT !.phase = "flight", !.timer = Timeout, !.observed = observed]
    /\ net' = net \cup {<<item.req, item.retry>>}
    /\ gap' = Gap
    /\ starts' = [starts EXCEPT ![item.req] = @ + 1]
    /\ since' = 0
    /\ UNCHANGED <<queue, st, waiter, counts>>
    /\ UNCHANGED runUnchanged

(* Mutant of Retryable: a send is retried like a read.                       *)
AnyRetryable(outcome) ==
    /\ outcome \in {"RPC_RATE_LIMITED", "RPC_REQUEST_TIMEOUT"}
    /\ item.retry < Len(RetryBackoff)
    /\ ~aborted

Retryable(outcome) ==
    /\ item.req \notin Sends
    /\ outcome \in {"RPC_RATE_LIMITED", "RPC_REQUEST_TIMEOUT"}
    /\ item.retry < Len(RetryBackoff)
    /\ ~aborted

(* Mutant of Recorded: an attempt that timed out leaves no entry.            *)
AnswersRecorded(outcome) ==
    counts' = [counts EXCEPT ![item.req][outcome] =
                   IF outcome = "RPC_REQUEST_TIMEOUT" THEN @ ELSE @ + 1]

Recorded(outcome) == counts' = [counts EXCEPT ![item.req][outcome] = @ + 1]

(* The attempt is over: a failed observer aborts the scheduler, a subscriber *)
(* that throws on the entry fails the request, a success resolves it, and    *)
(* the rest is retried or rejected.                                          *)
AttemptOver(outcome) ==
    /\ Recorded(outcome)
    /\ \/ /\ ~item.observed
          /\ aborted' = TRUE
          /\ closed' = TRUE
          /\ pump(<<>>, [QueueRejected(st) EXCEPT ![item.req] = "rejected"])
       \/ /\ item.observed
          /\ "subscriber" \in Faults
          /\ Reject
          /\ UNCHANGED <<aborted, closed>>
       \/ /\ item.observed
          /\ outcome = "SUCCESS"
          /\ Settle("resolved")
          /\ UNCHANGED <<aborted, closed>>
       \/ /\ item.observed
          /\ outcome # "SUCCESS"
          /\ ~Retryable(outcome)
          /\ Reject
          /\ UNCHANGED <<aborted, closed>>
       \/ /\ item.observed
          /\ Retryable(outcome)
          /\ item' = [item EXCEPT !.phase = "backoff", !.timer = RetryBackoff[item.retry + 1]]
          /\ UNCHANGED <<queue, st, waiter, aborted, closed>>
    /\ UNCHANGED <<notBefore, budget, gap, starts, since>>

Answered(outcome) ==
    /\ item.phase = "flight"
    /\ outcome # "RPC_REQUEST_TIMEOUT"
    /\ net' = net \ {<<item.req, item.retry>>}
    /\ AttemptOver(outcome)

(* Mutant of TimedOut: the timer of a retry is never set.                    *)
FirstAttemptTimedOut ==
    /\ item.phase = "flight"
    /\ item.timer = 0
    /\ item.retry = 0
    /\ AttemptOver("RPC_REQUEST_TIMEOUT")
    /\ UNCHANGED net

(* The timer fires: the signal is aborted, but no operation listens to it,   *)
(* so the request stays on the network.                                      *)
TimedOut ==
    /\ item.phase = "flight"
    /\ item.timer = 0
    /\ AttemptOver("RPC_REQUEST_TIMEOUT")
    /\ UNCHANGED net

BackoffOver ==
    /\ item.phase = "backoff"
    /\ item.timer = 0
    /\ ~aborted
    /\ item' = [item EXCEPT !.phase = "guard", !.retry = @ + 1]
    /\ UNCHANGED <<queue, st, gap, waiter, net, counts, starts, since>>
    /\ UNCHANGED runUnchanged

(***************************************************************************)
(* The network and the clock                                               *)
(***************************************************************************)
InFlight == item.phase = "flight"

(* The answer to an operation that timed out: nobody waits for it.           *)
LateAnswer ==
    /\ \E op \in net :
           /\ InFlight => op # <<item.req, item.retry>>
           /\ net' = net \ {op}
    /\ UNCHANGED <<queue, item, st, notBefore, budget, gap, closed, aborted, waiter,
                   counts, starts, since>>

Less(t) == IF t \in {0, None} THEN t ELSE t - 1

Tick ==
    /\ item' = [item EXCEPT !.timer = Less(@)]
    /\ gap' = Less(gap)
    /\ notBefore' = [r \in Requests |-> Less(notBefore[r])]
    /\ budget' = [r \in Requests |-> Less(budget[r])]
    /\ since' = IF since < Gap THEN since + 1 ELSE since
    /\ UNCHANGED <<queue, st, closed, aborted, waiter, net, counts, starts>>

(* what the event loop runs by itself: guards, timers and their continuations *)
Run ==
    \/ BeforeAttempt
    \/ BeforeAttemptThrows
    \/ WaitAborted
    \/ DeadlineReject
    \/ SubscriberThrows
    \/ \E observed \in BOOLEAN : StartAttempt(observed)
    \/ TimedOut
    \/ BackoffOver

Next ==
    \/ \E r \in Requests :
           \/ ScheduleRefused(r)
           \/ \E nb \in Options(NotBefores), dl \in Options(Deadlines) :
                  schedule(r, nb, dl)
    \/ close
    \/ abort
    \/ Run
    \/ \E o \in Outcomes : Answered(o)
    \/ LateAnswer
    \/ Tick

Spec == Init /\ [][Next]_vars

(* Timers fire and the event loop runs; the network owes nobody an answer.   *)
FairSpec == Spec /\ WF_vars(Run) /\ WF_vars(Tick)

(***************************************************************************)
(* Properties                                                              *)
(***************************************************************************)
(* No two requests are put on the network within minimumRequestStartGapMs of *)
(* each other, whichever requests, retries and not-before times are mixed.   *)
StartsSpaced == [][starts' # starts => since >= Gap]_vars

(* A transaction goes out once however its send ends; a read three times.    *)
AttemptsBounded ==
    \A r \in Requests : starts[r] <= IF r \in Sends THEN 1 ELSE 3

(* Every operation that reached the network is in the ledger when its        *)
(* attempt is over, once and with one outcome, whatever ends the attempt:    *)
(* what the ledger and its summary count of a request is what went out.      *)
Entries(r) ==
    counts[r]["SUCCESS"] + counts[r]["RPC_RATE_LIMITED"]
        + counts[r]["RPC_REQUEST_TIMEOUT"] + counts[r]["RPC_ERROR"]

EveryAttemptRecorded ==
    \A r \in Requests :
        starts[r] = Entries(r) + (IF InFlight /\ item.req = r THEN 1 ELSE 0)

(* Once aborted, the scheduler puts nothing more on the network, whatever    *)
(* wait the active request was in.                                           *)
AbortStopsStarts == [][aborted => starts' = starts]_vars

(* Every request that schedule() accepted is settled, although the network   *)
(* may never answer.                                                         *)
EveryRequestSettles ==
    \A r \in Requests :
        st[r] \in {"queued", "active"} ~> st[r] \in {"resolved", "rejected"}

(* close() and abort() return.                                               *)
DrainEnds == waiter = "waiting" ~> waiter = "idle"
===============================================================================
