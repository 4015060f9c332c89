-------------------------- MODULE ValidatorSupervisor -------------------------
(***************************************************************************)
(* scripts/local-validator-supervisor.mjs: it starts a local validator on  *)
(* one fixed port and one fixed ledger directory, waits until the port     *)
(* answers, runs the integration tests and takes the validator down again. *)
(* A signal starts a second flow inside the same process that terminates   *)
(* whatever is active while main goes on.  Nothing keeps two supervisors   *)
(* apart but a look at the port, and the look itself binds it for an       *)
(* instant.                                                                *)
(*                                                                         *)
(* What the validator and the tests do is not modelled: a validator binds  *)
(* the port if it can, any process may end by itself or ignore SIGTERM, and*)
(* none outlives SIGKILL; the tests pass or fail.                          *)
(***************************************************************************)
EXTENDS Naturals, FiniteSets

CONSTANTS
    Supervisors,
    MaxPolls,    \* probes that fit into the startup timeout
    MaxSignals,  \* signals sent to supervisors, SIGKILL included
    Null

ASSUME SupervisorAssumption ==
    /\ Null \notin Supervisors
    /\ MaxPolls \in Nat \ {0} /\ MaxSignals \in Nat

VARIABLES
    sup,        \* sup[s]: the process of supervisor s
    validator,  \* validator[s]: the process it spawned
    test,       \* test[s]: the test process it spawned
    port,       \* who is bound to the RPC port: [by, s], or Null
    ledger,     \* whose validator wrote the ledger directory, or Null
    sent,       \* signals sent so far
    met         \* history variable: supervisors that shared the machine with another

vars == <<sup, validator, test, port, ledger, sent, met>>

Signals == {"SIGINT", "SIGTERM"}

Over == {"ended", "dead"}

NoProcess == [st |-> "none", sig |-> "none"]

Exited == [st |-> "exited", sig |-> "none"]

Alive(p) == p.st \in {"starting", "serving", "running"}

NewSupervisor ==
    [pc |-> "idle",
     polls |-> 0,
     h |-> "off",           \* the interrupt handler
     caught |-> 0,          \* listeners that have fired
     active |-> FALSE,      \* activeValidator is set
     strange |-> FALSE,     \* history: the tests were started on another's validator
     result |-> Null,       \* "passed" or "failed" tests, or a startup "failure"
     ok |-> FALSE,          \* cleanupResult.ok
     exit |-> Null]         \* process.exitCode

Init ==
    /\ sup = [s \in Supervisors |-> NewSupervisor]
    /\ validator = [s \in Supervisors |-> NoProcess]
    /\ test = [s \in Supervisors |-> NoProcess]
    /\ port = Null /\ ledger = Null /\ sent = 0 /\ met = {}

Set(s, pc) == sup' = [sup EXCEPT ![s].pc = pc]

Handling(s) == sup[s].h \notin {"off", "armed", "done"}

Interrupted(s) == sup[s].caught > 0

-------------------------------------------------------------------------------
(* main up to the first probe                                                *)

(* Everyone at work, or left behind, when s begins.                          *)
Others(s) ==
    {t \in Supervisors \ {s} :
        sup[t].pc \notin {"idle"} \cup Over \/ Alive(validator[t]) \/ Alive(test[t])}

(* The inputs are checked, prepareRuntime removes the ledger, and            *)
(* checkPortFree begins to listen.  A port in use, or whatever else, throws. *)
Begin(s) ==
    /\ sup[s].pc = "idle"
    /\ ledger' = Null
    /\ met' = met \cup IF Others(s) = {} THEN {} ELSE Others(s) \cup {s}
    /\ \/ /\ port = Null
          /\ port' = [by |-> "check", s |-> s]
          /\ Set(s, "bound")
       \/ Set(s, "refused") /\ UNCHANGED port
    /\ UNCHANGED <<validator, test, sent>>

(* The catch around main removes the ledger once more.                       *)
Refuse(s) ==
    /\ sup[s].pc = "refused"
    /\ ledger' = Null
    /\ sup' = [sup EXCEPT ![s].pc = "ended", ![s].exit = 1]
    /\ UNCHANGED <<validator, test, port, sent, met>>

(* The port is given back; the handlers are installed and the validator is   *)
(* spawned.  The spawn throws, or reports its failure in an event: the first *)
(* probe goes out before any event of the child.                             *)
Spawn(s) ==
    /\ sup[s].pc = "bound"
    /\ port' = Null
    /\ \/ \E st \in {"starting", "none"} :
             /\ validator' = [validator EXCEPT ![s].st = st]
             /\ sup' = [sup EXCEPT ![s].pc = "probe", ![s].h = "armed",
                                   ![s].active = st = "starting"]
       \/ /\ sup' = [sup EXCEPT ![s].pc = "clean", ![s].h = "armed", ![s].result = "failure"]
          /\ UNCHANGED validator
    /\ UNCHANGED <<test, ledger, sent, met>>

(* Mutant: the readiness loop has no end.                                    *)
NeverOver(s) == FALSE

StartupOver(s) == sup[s].polls = MaxPolls

(* The head of waitForValidatorReadiness after a pause: the timeout, then    *)
(* the child, whose end may not have been noticed yet.  The probe is         *)
(* answered by whoever serves the port.                                      *)
Poll(s) ==
    /\ sup[s].pc = "poll"
    /\ \/ /\ StartupOver(s) \/ ~Alive(validator[s])
          /\ sup' = [sup EXCEPT ![s].pc = "clean", ![s].result = "failure", ![s].polls = 0]
       \/ /\ ~StartupOver(s) /\ validator[s].st # "none"
          /\ Set(s, "probe")
    /\ UNCHANGED <<validator, test, port, ledger, sent, met>>

(* The tests are spawned as soon as a blockhash and the program are there.   *)
Probe(s) ==
    /\ sup[s].pc = "probe"
    /\ \/ /\ sup' = [sup EXCEPT ![s].pc = "poll",
                                ![s].polls = IF @ < MaxPolls THEN @ + 1 ELSE @]
          /\ UNCHANGED test
       \/ /\ port # Null /\ port.by = "validator"
          /\ sup' = [sup EXCEPT ![s].pc = "tests", ![s].polls = 0, ![s].strange = port.s # s]
          /\ test' = [test EXCEPT ![s].st = "running"]
    /\ UNCHANGED <<validator, port, ledger, sent, met>>

(* The test process closes: its exit code, 1 when a signal ended it.         *)
TestsEnd(s) ==
    /\ test[s].st = "running"
    /\ test' = [test EXCEPT ![s] = Exited]
    /\ \E result \in {"passed", "failed"} :
         /\ test[s].sig = "KILL" => result = "failed"
         /\ sup' = IF sup[s].pc = "tests"
                   THEN [sup EXCEPT ![s].pc = "clean", ![s].result = result]
                   ELSE sup
    /\ UNCHANGED <<validator, port, ledger, sent, met>>

-------------------------------------------------------------------------------
(* The processes                                                             *)

(* The validator takes the port, or ends because it is taken.                *)
Bind(s) ==
    /\ validator[s].st = "starting"
    /\ \/ /\ port = Null
          /\ port' = [by |-> "validator", s |-> s]
          /\ validator' = [validator EXCEPT ![s].st = "serving"]
          /\ ledger' = s
       \/ /\ port # Null
          /\ validator' = [validator EXCEPT ![s] = Exited]
          /\ UNCHANGED <<port, ledger>>
    /\ UNCHANGED <<sup, test, sent, met>>

ValidatorEnds(s) ==
    /\ Alive(validator[s])
    /\ validator' = [validator EXCEPT ![s] = Exited]
    /\ port' = IF validator[s].st = "serving" THEN Null ELSE port
    /\ UNCHANGED <<sup, test, ledger, sent, met>>

-------------------------------------------------------------------------------
(* cleanupOwnedProcessTree, in main and in the handler                       *)

(* Mutant: whoever waits moves on when the first wait runs out.              *)
MovesOn(p) == ~Alive(p) \/ p.sig = "TERM"

(* terminateOwnedTree returns once the process is gone: SIGKILL ends it      *)
(* within the second wait.                                                   *)
Gone(p) == ~Alive(p)

(* SIGTERM to the group, if there is a process.                              *)
Terminated(p) == IF Alive(p) /\ p.sig = "none" THEN [p EXCEPT !.sig = "TERM"] ELSE p

(* SIGKILL when the wait has run out.                                        *)
Killed(p) == [p EXCEPT !.sig = "KILL"]

(* Mutant: the runtime directory is cleaned up before the process tree.      *)
CleanRuntimeFirst(s) ==
    /\ sup[s].pc = "clean"
    /\ validator' = [validator EXCEPT ![s] = Terminated(@)]
    /\ Set(s, IF validator[s].st = "none" THEN "free" ELSE "wait")
    /\ ledger' = Null
    /\ UNCHANGED <<test, port, sent, met>>

(* The finally of superviseLocalValidator.                                   *)
Clean(s) ==
    /\ sup[s].pc = "clean"
    /\ validator' = [validator EXCEPT ![s] = Terminated(@)]
    /\ Set(s, IF validator[s].st = "none" THEN "free" ELSE "wait")
    /\ UNCHANGED <<test, port, ledger, sent, met>>

Wait(s) ==
    /\ sup[s].pc = "wait"
    /\ \/ /\ Gone(validator[s])
          /\ Set(s, "free")
          /\ UNCHANGED validator
       \/ /\ Alive(validator[s]) /\ validator[s].sig # "KILL"
          /\ validator' = [validator EXCEPT ![s] = Killed(@)]
          /\ UNCHANGED sup
    /\ UNCHANGED <<test, port, ledger, sent, met>>

(* waitForPortFree polls until its deadline; activeValidator is forgotten    *)
(* and the handlers are removed.  Without a process the result is ok.        *)
Free(s) ==
    /\ sup[s].pc = "free"
    /\ sup' = [sup EXCEPT ![s].pc = "after", ![s].active = FALSE,
                          ![s].ok = port = Null \/ validator[s].st = "none",
                          ![s].h = IF @ = "armed" THEN "off" ELSE @]
    /\ UNCHANGED <<validator, test, port, ledger, sent, met>>

(* interruptExitCode ?? result.exitCode; tests that passed count only with a *)
(* clean end.  130 stands for the exit codes of both signals.                *)
ExitCode(s) ==
    IF Interrupted(s) THEN 130 ELSE IF sup[s].result = "passed" /\ sup[s].ok THEN 0 ELSE 1

(* await interruptCleanup, then cleanupRuntime and the exit code.            *)
Finish(s) ==
    /\ sup[s].pc = "after"
    /\ ~Handling(s)
    /\ ledger' = Null
    /\ sup' = [sup EXCEPT ![s] = [NewSupervisor EXCEPT
                    !.pc = "ended", !.exit = ExitCode(s), !.caught = sup[s].caught,
                    !.strange = sup[s].strange, !.result = sup[s].result]]
    /\ UNCHANGED <<validator, test, port, sent, met>>

-------------------------------------------------------------------------------
(* Signals                                                                   *)

(* process.once: the first signal starts terminateActiveChildren, and one of *)
(* the other kind is swallowed.                                              *)
Signal(s) ==
    /\ sup[s].pc \notin {"idle", "after"} \cup Over
    /\ sup[s].h # "off" /\ sup[s].caught < Cardinality(Signals)
    /\ sent < MaxSignals
    /\ sent' = sent + 1
    /\ sup' = [sup EXCEPT ![s].caught = @ + 1, ![s].h = IF @ = "armed" THEN "tests" ELSE @]
    /\ UNCHANGED <<validator, test, port, ledger, met>>

(* SIGKILL, or a signal whose listener has fired, is removed or is not yet   *)
(* installed: the supervisor ends where it stands, its children go on.       *)
Die(s) ==
    /\ sup[s].pc \notin {"idle"} \cup Over
    /\ sent < MaxSignals
    /\ sent' = sent + 1
    /\ sup' = [sup EXCEPT ![s] = [NewSupervisor EXCEPT !.pc = "dead"]]
    /\ port' = IF port = [by |-> "check", s |-> s] THEN Null ELSE port
    /\ UNCHANGED <<validator, test, ledger, met>>

(* terminateActiveChildren: the tests that are active now, then the          *)
(* validator; what main starts later is not looked at again.                 *)
HandleTests(s) ==
    /\ sup[s].h = "tests"
    /\ test' = [test EXCEPT ![s] = Terminated(@)]
    /\ sup' = [sup EXCEPT ![s].h = IF Alive(test[s]) THEN "waitTests" ELSE "validator"]
    /\ UNCHANGED <<validator, port, ledger, sent, met>>

HandleTestsWait(s) ==
    /\ sup[s].h = "waitTests"
    /\ \/ /\ Gone(test[s])
          /\ sup' = [sup EXCEPT ![s].h = "validator"]
          /\ UNCHANGED test
       \/ /\ Alive(test[s]) /\ test[s].sig # "KILL"
          /\ test' = [test EXCEPT ![s] = Killed(@)]
          /\ UNCHANGED sup
    /\ UNCHANGED <<validator, port, ledger, sent, met>>

HandleValidator(s) ==
    /\ sup[s].h = "validator"
    /\ validator' = [validator EXCEPT ![s] = IF sup[s].active THEN Terminated(@) ELSE @]
    /\ sup' = [sup EXCEPT ![s].h = IF sup[s].active THEN "wait" ELSE "done"]
    /\ UNCHANGED <<test, port, ledger, sent, met>>

HandleValidatorWait(s) ==
    /\ sup[s].h = "wait"
    /\ \/ /\ Gone(validator[s])
          /\ sup' = [sup EXCEPT ![s].h = "free"]
          /\ UNCHANGED validator
       \/ /\ Alive(validator[s]) /\ validator[s].sig # "KILL"
          /\ validator' = [validator EXCEPT ![s] = Killed(@)]
          /\ UNCHANGED sup
    /\ UNCHANGED <<test, port, ledger, sent, met>>

HandleFree(s) ==
    /\ sup[s].h = "free"
    /\ sup' = [sup EXCEPT ![s].h = "done", ![s].active = FALSE]
    /\ UNCHANGED <<validator, test, port, ledger, sent, met>>

-------------------------------------------------------------------------------
Main(s) ==
    \/ Begin(s) \/ Refuse(s) \/ Spawn(s) \/ Poll(s) \/ Probe(s)
    \/ Clean(s) \/ Wait(s) \/ Free(s) \/ Finish(s)

Handler(s) ==
    /\ sup[s].pc \notin Over
    /\ \/ HandleTests(s) \/ HandleTestsWait(s)
       \/ HandleValidator(s) \/ HandleValidatorWait(s) \/ HandleFree(s)

Processes(s) == TestsEnd(s) \/ Bind(s) \/ ValidatorEnds(s)

Next ==
    \E s \in Supervisors :
        \/ Main(s)
        \/ Handler(s)
        \/ Processes(s)
        \/ Signal(s)
        \/ Die(s)

(* The event loop goes on; the tests end, mocha times each of them out; a    *)
(* killed validator ends.                                                    *)
Fairness ==
    \A s \in Supervisors :
        /\ WF_vars(Main(s))
        /\ WF_vars(Handler(s))
        /\ WF_vars(TestsEnd(s))
        /\ WF_vars(validator[s].sig = "KILL" /\ ValidatorEnds(s))

Spec == Init /\ [][Next]_vars /\ Fairness

-------------------------------------------------------------------------------
(* A supervisor that came to its own end left no process behind, however     *)
(* main and the interrupt handler interleaved and whatever ignored SIGTERM;  *)
(* and its exit code 0 says that the tests passed and no signal was caught.  *)
NothingLeftBehind ==
    \A s \in Supervisors : sup[s].pc = "ended" =>
        /\ ~Alive(validator[s]) /\ ~Alive(test[s])
        /\ sup[s].exit = 0 => sup[s].result = "passed" /\ ~Interrupted(s)

(* Tests run on another supervisor's validator, and the ledger directory is  *)
(* taken away under a validator that serves, only for a supervisor that      *)
(* shared the machine with another one or with what a killed one left: both  *)
(* look at the port before either validator has it, and a start removes the  *)
(* ledger before it looks.                                                   *)
InterferenceNeedsAnother ==
    \A s \in Supervisors :
        sup[s].strange \/ (validator[s].st = "serving" /\ ledger # s) => s \in met

(* Every supervisor that begins ends, by itself or by a signal: the startup  *)
(* times out, and neither main nor the handler waits forever for a process   *)
(* the other one took down.                                                  *)
SupervisorEnds ==
    \A s \in Supervisors : sup[s].pc # "idle" ~> sup[s].pc \in Over
===============================================================================
