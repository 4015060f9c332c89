----------------------- MODULE ValidatorSupervisorProofs ----------------------
(***************************************************************************)
(* Theorems about ValidatorSupervisor, for any number of supervisors,      *)
(* probes and signals.                                                     *)
(*                                                                         *)
(* The properties are not inductive by themselves: that nothing is left    *)
(* behind at the end rests on what is alive at every earlier step of main  *)
(* (ProcessesMatchMain), and that interference needs another supervisor    *)
(* rests on who serves the port (PortIsServed) and on the fact that any    *)
(* two supervisors at work know of each other (SharersMet).                *)
(***************************************************************************)
EXTENDS ValidatorSupervisor, TLAPS

Steps == {"idle", "bound", "refused", "poll", "probe", "tests", "clean", "wait", "free", "after"}

Supervisor ==
    [pc : Steps \cup Over,
     polls : Nat,
     h : {"off", "armed", "tests", "waitTests", "validator", "wait", "free", "done"},
     caught : Nat,
     active : BOOLEAN,
     strange : BOOLEAN,
     result : {Null, "passed", "failed", "failure"},
     ok : BOOLEAN,
     exit : {Null, 0, 1, 130}]

ValidatorProcess ==
    [st : {"none", "starting", "serving", "exited"}, sig : {"none", "TERM", "KILL"}]

TestProcess == [st : {"none", "running", "exited"}, sig : {"none", "TERM", "KILL"}]

Binding == [by : {"check", "validator"}, s : Supervisors]

(* What is alive at each step of main, whatever the handler does.            *)
ProcessesMatchMain ==
    \A s \in Supervisors :
        /\ sup[s].pc \in {"idle", "bound", "refused"} => validator[s].st = "none"
        /\ sup[s].pc \in {"free", "after", "ended"} => ~Alive(validator[s])
        /\ Alive(test[s]) => sup[s].pc \in {"tests", "dead"}

(* The exit code 0 is earned.                                                *)
ZeroIsEarned ==
    \A s \in Supervisors : sup[s].pc = "ended" /\ sup[s].exit = 0 =>
        sup[s].result = "passed" /\ ~Interrupted(s)

(* A validator that is bound to the port serves.                             *)
PortIsServed ==
    port # Null /\ port.by = "validator" => validator[port.s].st = "serving"

(* s is at work, or has left a process behind.                               *)
AtWork(s) ==
    sup[s].pc \notin {"idle"} \cup Over \/ Alive(validator[s]) \/ Alive(test[s])

(* Two supervisors that are at work at the same time have met.               *)
SharersMet ==
    \A s, t \in Supervisors : s # t /\ AtWork(s) /\ AtWork(t) => s \in met

-------------------------------------------------------------------------------
SupTyped == sup \in [Supervisors -> Supervisor]

ProcessesTyped ==
    /\ validator \in [Supervisors -> ValidatorProcess]
    /\ test \in [Supervisors -> TestProcess]

(* The fields of sup[t] that the invariant is about.                         *)
SameVerdict(t) ==
    /\ sup'[t].pc = sup[t].pc
    /\ sup'[t].exit = sup[t].exit
    /\ sup'[t].result = sup[t].result

NotStranger(t) == sup'[t].strange => sup[t].strange

SameStates == \A t \in Supervisors : validator'[t].st = validator[t].st /\ test'[t].st = test[t].st

LEMMA HandlerStates ==
    ASSUME SupTyped, ProcessesTyped, NEW s \in Supervisors, Handler(s)
    PROVE  SameStates
<1>1. CASE HandleTests(s)
  BY <1>1 DEF HandleTests, Terminated, ProcessesTyped, ValidatorProcess, TestProcess, SameStates
<1>2. CASE HandleTestsWait(s)
  BY <1>2 DEF HandleTestsWait, Killed, ProcessesTyped, ValidatorProcess, TestProcess, SameStates
<1>3. CASE HandleValidator(s)
  BY <1>3 DEF HandleValidator, Terminated, ProcessesTyped, ValidatorProcess, TestProcess, SameStates
<1>4. CASE HandleValidatorWait(s)
  BY <1>4 DEF HandleValidatorWait, Killed, ProcessesTyped, ValidatorProcess, TestProcess, SameStates
<1>5. CASE HandleFree(s)
  BY <1>5 DEF HandleFree, SameStates
<1>. QED  BY <1>1, <1>2, <1>3, <1>4, <1>5 DEF Handler

LEMMA HandlerSup ==
    ASSUME SupTyped, NEW s \in Supervisors, Handler(s), NEW t \in Supervisors
    PROVE  SameVerdict(t) /\ NotStranger(t) /\ sup'[t].caught = sup[t].caught
<1>1. CASE HandleTests(s)
  BY <1>1 DEF HandleTests, SupTyped, Supervisor, SameVerdict, NotStranger
<1>2. CASE HandleTestsWait(s)
  <2>1. sup' = sup \/ sup' = [sup EXCEPT ![s].h = "validator"]
    BY <1>2 DEF HandleTestsWait
  <2>. QED  BY <2>1 DEF SupTyped, Supervisor, SameVerdict, NotStranger
<1>3. CASE HandleValidator(s)
  BY <1>3 DEF HandleValidator, SupTyped, Supervisor, SameVerdict, NotStranger
<1>4. CASE HandleValidatorWait(s)
  <2>1. sup' = sup \/ sup' = [sup EXCEPT ![s].h = "free"]
    BY <1>4 DEF HandleValidatorWait
  <2>. QED  BY <2>1 DEF SupTyped, Supervisor, SameVerdict, NotStranger
<1>5. CASE HandleFree(s)
  BY <1>5 DEF HandleFree, SupTyped, Supervisor, SameVerdict, NotStranger
<1>. QED  BY <1>1, <1>2, <1>3, <1>4, <1>5 DEF Handler

LEMMA WaitStates ==
    ASSUME ProcessesTyped, NEW s \in Supervisors, Wait(s)
    PROVE  SameStates
BY DEF Wait, Killed, ProcessesTyped, ValidatorProcess, TestProcess, SameStates

LEMMA WaitSup ==
    ASSUME SupTyped, NEW s \in Supervisors, Wait(s)
    PROVE  \/ sup' = sup
           \/ sup' = [sup EXCEPT ![s].pc = "free"] /\ validator' = validator /\ ~Alive(validator[s])
<1>1. CASE Gone(validator[s]) /\ Set(s, "free") /\ UNCHANGED validator
  BY <1>1 DEF Gone, Set
<1>2. CASE sup' = sup
  BY <1>2
<1>. QED  BY <1>1, <1>2 DEF Wait

LEMMA ProbeSup ==
    ASSUME SupTyped, NEW s \in Supervisors, Probe(s)
    PROVE  /\ \A t \in Supervisors \ {s} : sup'[t] = sup[t]
           /\ \/ sup'[s].pc = "poll" /\ NotStranger(s) /\ test' = test
              \/ /\ sup'[s].pc = "tests"
                 /\ test' = [test EXCEPT ![s].st = "running"]
                 /\ port # Null /\ port.by = "validator"
                 /\ sup'[s].strange => port.s # s
<1>1. sup[s] \in Supervisor
  BY DEF SupTyped
<1>2. CASE /\ sup' = [sup EXCEPT ![s].pc = "poll", ![s].polls = IF @ < MaxPolls THEN @ + 1 ELSE @]
           /\ UNCHANGED test
  <2>1. PICK p : sup' = [sup EXCEPT ![s] = [@ EXCEPT !.pc = "poll", !.polls = p]]
    BY <1>1, <1>2 DEF SupTyped, Supervisor
  <2>2. sup'[s].pc = "poll" /\ NotStranger(s)
    BY <1>1, <2>1 DEF SupTyped, Supervisor, NotStranger
  <2>. QED  BY <1>2, <2>1, <2>2 DEF SupTyped
<1>3. CASE /\ port # Null /\ port.by = "validator"
           /\ sup' = [sup EXCEPT ![s].pc = "tests", ![s].polls = 0, ![s].strange = port.s # s]
           /\ test' = [test EXCEPT ![s].st = "running"]
  <2>1. sup' = [sup EXCEPT ![s] = [@ EXCEPT !.pc = "tests", !.polls = 0, !.strange = port.s # s]]
    BY <1>1, <1>3 DEF SupTyped, Supervisor
  <2>2. sup'[s].pc = "tests" /\ (sup'[s].strange => port.s # s)
    BY <1>1, <2>1 DEF SupTyped, Supervisor
  <2>. QED  BY <1>3, <2>1, <2>2 DEF SupTyped
<1>. QED  BY <1>2, <1>3 DEF Probe

LEMMA PollSup ==
    ASSUME SupTyped, NEW s \in Supervisors, Poll(s)
    PROVE  /\ \A t \in Supervisors \ {s} : sup'[t] = sup[t]
           /\ sup'[s].pc \in {"clean", "probe"} /\ NotStranger(s)
<1>1. \/ sup' = [sup EXCEPT ![s].pc = "clean", ![s].result = "failure", ![s].polls = 0]
      \/ sup' = [sup EXCEPT ![s].pc = "probe"]
  BY DEF Poll, Set
<1>. QED  BY <1>1 DEF SupTyped, Supervisor, NotStranger

LEMMA SpawnSup ==
    ASSUME SupTyped, NEW s \in Supervisors, Spawn(s)
    PROVE  \/ \E st \in {"starting", "none"}, a \in BOOLEAN :
                /\ validator' = [validator EXCEPT ![s].st = st]
                /\ sup' = [sup EXCEPT ![s] = [@ EXCEPT !.pc = "probe", !.h = "armed", !.active = a]]
           \/ /\ validator' = validator
              /\ sup' = [sup EXCEPT ![s] =
                            [@ EXCEPT !.pc = "clean", !.h = "armed", !.result = "failure"]]
BY DEF Spawn, SupTyped, Supervisor

LEMMA SpawnKeeps ==
    ASSUME SupTyped, NEW s \in Supervisors, Spawn(s)
    PROVE  /\ \A t \in Supervisors \ {s} : sup'[t] = sup[t]
           /\ sup'[s].pc \in {"probe", "clean"} /\ \A t \in Supervisors : NotStranger(t)
<1>. DEFINE q(a) == [sup[s] EXCEPT !.pc = "probe", !.h = "armed", !.active = a]
            f == [sup[s] EXCEPT !.pc = "clean", !.h = "armed", !.result = "failure"]
<1>1. PICK r : sup' = [sup EXCEPT ![s] = r] /\ (r = f \/ \E a \in BOOLEAN : r = q(a))
  BY SpawnSup
<1>2. sup[s] \in Supervisor
  BY DEF SupTyped
<1>3. r.pc \in {"probe", "clean"} /\ r.strange = sup[s].strange
  BY <1>1, <1>2 DEF Supervisor
<1>. HIDE DEF q, f
<1>. QED  BY <1>1, <1>3 DEF SupTyped, NotStranger

LEMMA SignalSup ==
    ASSUME SupTyped, NEW s \in Supervisors, Signal(s)
    PROVE  \E c \in Nat, h \in {sup[s].h, "tests"} :
               sup' = [sup EXCEPT ![s] = [@ EXCEPT !.caught = c, !.h = h]]
<1>. DEFINE c == sup[s].caught + 1
            h == IF sup[s].h = "armed" THEN "tests" ELSE sup[s].h
<1>1. sup[s] \in Supervisor
  BY DEF SupTyped
<1>2. c \in Nat /\ h \in {sup[s].h, "tests"}
  BY <1>1 DEF Supervisor
<1>3. sup' = [sup EXCEPT ![s].caught = c, ![s].h = h]
  <2>1. sup' = [sup EXCEPT ![s].caught = @ + 1, ![s].h = IF @ = "armed" THEN "tests" ELSE @]
    BY DEF Signal
  <2>. QED  BY <1>1, <2>1 DEF SupTyped, Supervisor
<1>. HIDE DEF c, h
<1>4. sup' = [sup EXCEPT ![s] = [@ EXCEPT !.caught = c, !.h = h]]
  BY <1>3 DEF SupTyped, Supervisor
<1>. QED  BY <1>2, <1>4

-------------------------------------------------------------------------------
LEMMA MatchStep ==
    ASSUME SupTyped, ProcessesTyped, ProcessesMatchMain, [Next]_vars
    PROVE  ProcessesMatchMain'
<1>3. ASSUME NEW s \in Supervisors, Poll(s)  PROVE ProcessesMatchMain'
  <2>1. sup[s].pc = "poll" /\ UNCHANGED <<validator, test>>
    BY <1>3 DEF Poll
  <2>2. /\ \A t \in Supervisors \ {s} : sup'[t] = sup[t]
        /\ sup'[s].pc \in {"clean", "probe"}
    BY <1>3, PollSup
  <2>. QED  BY <2>1, <2>2 DEF ProcessesMatchMain, Alive
<1>4. ASSUME NEW s \in Supervisors, Probe(s)  PROVE ProcessesMatchMain'
  <2>1. sup[s].pc = "probe" /\ UNCHANGED validator
    BY <1>4 DEF Probe
  <2>2. /\ \A t \in Supervisors \ {s} : sup'[t] = sup[t]
        /\ \/ sup'[s].pc = "poll" /\ test' = test
           \/ sup'[s].pc = "tests" /\ test' = [test EXCEPT ![s].st = "running"]
    BY <1>4, ProbeSup
  <2>. QED  BY <2>1, <2>2 DEF ProcessesMatchMain, Alive, ProcessesTyped, TestProcess
<1>6. ASSUME NEW s \in Supervisors, Wait(s)  PROVE ProcessesMatchMain'
  <2>1. sup[s].pc = "wait"
    BY <1>6 DEF Wait
  <2>2. SameStates
    BY <1>6, WaitStates
  <2>3. \/ sup' = sup
        \/ sup' = [sup EXCEPT ![s].pc = "free"] /\ validator' = validator /\ ~Alive(validator[s])
    BY <1>6, WaitSup
  <2>. QED  BY <2>1, <2>2, <2>3 DEF SupTyped, Supervisor, SameStates, ProcessesMatchMain, Alive
<1>9. ASSUME NEW s \in Supervisors, Handler(s)  PROVE ProcessesMatchMain'
  <2>1. SameStates /\ \A t \in Supervisors : SameVerdict(t)
    BY <1>9, HandlerStates, HandlerSup
  <2>. QED  BY <2>1 DEF SameStates, SameVerdict, ProcessesMatchMain, Alive
<1>. USE DEF SupTyped, ProcessesTyped, Supervisor, ValidatorProcess, TestProcess, ProcessesMatchMain,
             Alive, Over, Steps
<1>1. ASSUME NEW s \in Supervisors, Begin(s)  PROVE ProcessesMatchMain'
  BY <1>1 DEF Begin, Set
<1>16. ASSUME NEW s \in Supervisors, Refuse(s)  PROVE ProcessesMatchMain'
  BY <1>16 DEF Refuse
<1>2. ASSUME NEW s \in Supervisors, Spawn(s)  PROVE ProcessesMatchMain'
  <2>1. \/ validator' = validator
        \/ \E st \in {"starting", "none"} : validator' = [validator EXCEPT ![s].st = st]
    BY <1>2 DEF Spawn
  <2>2. sup[s].pc = "bound" /\ test' = test
    BY <1>2 DEF Spawn
  <2>3. sup'[s].pc \in {"probe", "clean"} /\ \A t \in Supervisors \ {s} : sup'[t] = sup[t]
    BY <1>2, SpawnKeeps
  <2>. QED  BY <2>1, <2>2, <2>3
<1>5. ASSUME NEW s \in Supervisors, Clean(s)  PROVE ProcessesMatchMain'
  BY <1>5 DEF Clean, Set, Terminated
<1>7. ASSUME NEW s \in Supervisors, Free(s)  PROVE ProcessesMatchMain'
  BY <1>7 DEF Free
<1>8. ASSUME NEW s \in Supervisors, Finish(s)  PROVE ProcessesMatchMain'
  BY <1>8 DEF Finish, NewSupervisor
<1>10. ASSUME NEW s \in Supervisors, TestsEnd(s)  PROVE ProcessesMatchMain'
  BY <1>10 DEF TestsEnd, Exited
<1>11. ASSUME NEW s \in Supervisors, Bind(s)  PROVE ProcessesMatchMain'
  BY <1>11 DEF Bind, Exited
<1>12. ASSUME NEW s \in Supervisors, ValidatorEnds(s)  PROVE ProcessesMatchMain'
  BY <1>12 DEF ValidatorEnds, Exited
<1>13. ASSUME NEW s \in Supervisors, Signal(s)  PROVE ProcessesMatchMain'
  BY <1>13 DEF Signal
<1>14. ASSUME NEW s \in Supervisors, Die(s)  PROVE ProcessesMatchMain'
  BY <1>14 DEF Die, NewSupervisor
<1>15. CASE UNCHANGED vars
  BY <1>15 DEF vars
<1>. QED
  BY <1>1, <1>2, <1>3, <1>4, <1>5, <1>6, <1>7, <1>8, <1>9, <1>10, <1>11, <1>12, <1>13, <1>14, <1>15,
     <1>16 DEF Next, Main, Processes

LEMMA ZeroStep ==
    ASSUME SupTyped, ZeroIsEarned, [Next]_vars
    PROVE  ZeroIsEarned'
<1>. USE DEF SupTyped, Supervisor, ZeroIsEarned, Interrupted, Over, Steps
<1>1. ASSUME NEW s \in Supervisors, Begin(s)  PROVE ZeroIsEarned'
  BY <1>1 DEF Begin, Set
<1>2. ASSUME NEW s \in Supervisors, Spawn(s)  PROVE ZeroIsEarned'
  BY <1>2, SpawnKeeps
<1>14. ASSUME NEW s \in Supervisors, Refuse(s)  PROVE ZeroIsEarned'
  BY <1>14 DEF Refuse
<1>3. ASSUME NEW s \in Supervisors, Poll(s)  PROVE ZeroIsEarned'
  BY <1>3, PollSup
<1>4. ASSUME NEW s \in Supervisors, Probe(s)  PROVE ZeroIsEarned'
  BY <1>4, ProbeSup
<1>5. ASSUME NEW s \in Supervisors, Clean(s)  PROVE ZeroIsEarned'
  BY <1>5 DEF Clean, Set
<1>6. ASSUME NEW s \in Supervisors, Wait(s)  PROVE ZeroIsEarned'
  BY <1>6, WaitSup
<1>7. ASSUME NEW s \in Supervisors, Free(s)  PROVE ZeroIsEarned'
  BY <1>7 DEF Free
<1>8. ASSUME NEW s \in Supervisors, Finish(s)  PROVE ZeroIsEarned'
  <2>1. /\ sup'[s].exit = ExitCode(s) /\ sup'[s].result = sup[s].result
        /\ sup'[s].caught = sup[s].caught
    BY <1>8 DEF Finish, NewSupervisor
  <2>2. ExitCode(s) = 0 => sup[s].result = "passed" /\ ~(sup[s].caught > 0)
    BY DEF ExitCode
  <2>3. \A t \in Supervisors \ {s} : sup'[t] = sup[t]
    BY <1>8 DEF Finish
  <2>. QED  BY <2>1, <2>2, <2>3
<1>9. ASSUME NEW s \in Supervisors, Handler(s)  PROVE ZeroIsEarned'
  BY <1>9, HandlerSup DEF SameVerdict
<1>10. ASSUME NEW s \in Supervisors, TestsEnd(s)  PROVE ZeroIsEarned'
  BY <1>10 DEF TestsEnd
<1>11. ASSUME NEW s \in Supervisors, Signal(s)  PROVE ZeroIsEarned'
  BY <1>11 DEF Signal
<1>12. ASSUME NEW s \in Supervisors, Die(s)  PROVE ZeroIsEarned'
  BY <1>12 DEF Die, NewSupervisor
<1>13. ASSUME UNCHANGED sup  PROVE ZeroIsEarned'
  BY <1>13
<1>. QED
  BY <1>1, <1>2, <1>3, <1>4, <1>5, <1>6, <1>7, <1>8, <1>9, <1>10, <1>11, <1>12, <1>13,
     <1>14 DEF Next, Main, Processes, Bind, ValidatorEnds, vars

PortTyped == port \in Binding \cup {Null}

LEMMA PortStep ==
    ASSUME SupTyped, ProcessesTyped, ProcessesMatchMain, PortTyped, PortIsServed, [Next]_vars
    PROVE  PortIsServed'
<1>1. ASSUME SameStates, UNCHANGED port  PROVE PortIsServed'
  BY <1>1 DEF SameStates, PortTyped, Binding, PortIsServed
<1>2. ASSUME NEW s \in Supervisors, Wait(s)  PROVE PortIsServed'
  BY <1>1, <1>2, WaitStates DEF Wait
<1>3. ASSUME NEW s \in Supervisors, Handler(s)  PROVE PortIsServed'
  <2>1. UNCHANGED port
    BY <1>3 DEF Handler, HandleTests, HandleTestsWait, HandleValidator, HandleValidatorWait,
                HandleFree
  <2>. QED  BY <1>1, <1>3, <2>1, HandlerStates
<1>. USE DEF ProcessesTyped, ValidatorProcess, ProcessesMatchMain, PortTyped, Binding, PortIsServed
<1>4. ASSUME UNCHANGED <<validator, port>>  PROVE PortIsServed'
  BY <1>4
<1>5. ASSUME NEW s \in Supervisors, Begin(s)  PROVE PortIsServed'
  BY <1>5 DEF Begin
<1>6. ASSUME NEW s \in Supervisors, Spawn(s)  PROVE PortIsServed'
  BY <1>6 DEF Spawn
<1>7. ASSUME NEW s \in Supervisors, Clean(s)  PROVE PortIsServed'
  BY <1>7 DEF Clean, Terminated
<1>8. ASSUME NEW s \in Supervisors, Bind(s)  PROVE PortIsServed'
  BY <1>8 DEF Bind, Exited
<1>9. ASSUME NEW s \in Supervisors, ValidatorEnds(s)  PROVE PortIsServed'
  BY <1>9 DEF ValidatorEnds, Exited
<1>10. ASSUME NEW s \in Supervisors, Die(s)  PROVE PortIsServed'
  BY <1>10 DEF Die
<1>. QED
  BY <1>2, <1>3, <1>4, <1>5, <1>6, <1>7, <1>8, <1>9, <1>10
     DEF Next, Main, Processes, Refuse, Poll, Probe, Free, Finish, TestsEnd, Signal, vars

-------------------------------------------------------------------------------
(* Nobody comes to work but by Begin, and only Begin lets supervisors meet.  *)
LEMMA NobodyJoins ==
    ASSUME SupTyped, ProcessesTyped, ProcessesMatchMain, [Next]_vars,
           ~ \E s \in Supervisors : Begin(s), NEW t \in Supervisors, AtWork(t)'
    PROVE  AtWork(t)
<1>3. ASSUME NEW s \in Supervisors, Poll(s)  PROVE AtWork(t)
  <2>1. sup[s].pc = "poll" /\ UNCHANGED <<validator, test>>
    BY <1>3 DEF Poll
  <2>2. \A u \in Supervisors \ {s} : sup'[u] = sup[u]
    BY <1>3, PollSup
  <2>. QED  BY <2>1, <2>2 DEF AtWork, Alive, Over
<1>4. ASSUME NEW s \in Supervisors, Probe(s)  PROVE AtWork(t)
  <2>1. sup[s].pc = "probe" /\ UNCHANGED validator
    BY <1>4 DEF Probe
  <2>2. /\ \A u \in Supervisors \ {s} : sup'[u] = sup[u]
        /\ test' = test \/ test' = [test EXCEPT ![s].st = "running"]
    BY <1>4, ProbeSup
  <2>. QED  BY <2>1, <2>2 DEF AtWork, Alive, Over, ProcessesTyped, TestProcess
<1>6. ASSUME NEW s \in Supervisors, Wait(s)  PROVE AtWork(t)
  <2>1. sup[s].pc = "wait"
    BY <1>6 DEF Wait
  <2>2. SameStates
    BY <1>6, WaitStates
  <2>3. sup' = sup \/ sup' = [sup EXCEPT ![s].pc = "free"]
    BY <1>6, WaitSup
  <2>. QED  BY <2>1, <2>2, <2>3 DEF SupTyped, Supervisor, SameStates, AtWork, Alive, Over
<1>9. ASSUME NEW s \in Supervisors, Handler(s)  PROVE AtWork(t)
  <2>1. SameStates /\ SameVerdict(t)
    BY <1>9, HandlerStates, HandlerSup
  <2>. QED  BY <2>1 DEF SameStates, SameVerdict, AtWork, Alive
<1>2. ASSUME NEW s \in Supervisors, Spawn(s)  PROVE AtWork(t)
  <2>2. sup[s].pc = "bound" /\ test' = test
    BY <1>2 DEF Spawn
  <2>3. \A u \in Supervisors \ {s} : sup'[u] = sup[u] /\ validator'[u] = validator[u]
    BY <1>2, SpawnKeeps DEF Spawn, ProcessesTyped
  <2>. QED  BY <2>2, <2>3 DEF AtWork, Alive, Over
<1>16. ASSUME NEW s \in Supervisors, Refuse(s)  PROVE AtWork(t)
  BY <1>16 DEF Refuse, SupTyped, AtWork, Alive, Over
<1>. USE DEF SupTyped, ProcessesTyped, Supervisor, ValidatorProcess, TestProcess, AtWork, Alive, Over
<1>5. ASSUME NEW s \in Supervisors, Clean(s)  PROVE AtWork(t)
  BY <1>5 DEF Clean, Set, Terminated
<1>7. ASSUME NEW s \in Supervisors, Free(s)  PROVE AtWork(t)
  BY <1>7 DEF Free
<1>8. ASSUME NEW s \in Supervisors, Finish(s)  PROVE AtWork(t)
  BY <1>8 DEF Finish, NewSupervisor
<1>10. ASSUME NEW s \in Supervisors, TestsEnd(s)  PROVE AtWork(t)
  BY <1>10 DEF TestsEnd, Exited
<1>11. ASSUME NEW s \in Supervisors, Bind(s)  PROVE AtWork(t)
  BY <1>11 DEF Bind, Exited
<1>12. ASSUME NEW s \in Supervisors, ValidatorEnds(s)  PROVE AtWork(t)
  BY <1>12 DEF ValidatorEnds, Exited
<1>13. ASSUME NEW s \in Supervisors, Signal(s)  PROVE AtWork(t)
  BY <1>13 DEF Signal
<1>14. ASSUME NEW s \in Supervisors, Die(s)  PROVE AtWork(t)
  BY <1>14 DEF Die, NewSupervisor
<1>15. CASE UNCHANGED vars
  BY <1>15 DEF vars
<1>. HIDE DEF AtWork
<1>. QED
  BY <1>2, <1>3, <1>4, <1>5, <1>6, <1>7, <1>8, <1>9, <1>10, <1>11, <1>12, <1>13, <1>14, <1>15,
     <1>16 DEF Next, Main, Processes

LEMMA SharersStep ==
    ASSUME SupTyped, ProcessesTyped, ProcessesMatchMain, SharersMet, [Next]_vars
    PROVE  SharersMet'
<1>1. CASE \E s \in Supervisors : Begin(s)
  <2>1. PICK s \in Supervisors : Begin(s)
    BY <1>1
  <2>2. UNCHANGED <<validator, test>> /\ \A t \in Supervisors \ {s} : sup'[t] = sup[t]
    BY <2>1 DEF Begin, Set, SupTyped
  <2>3. met \subseteq met' /\ \A t \in Supervisors \ {s} : AtWork(t) => {s, t} \subseteq met'
    BY <2>1 DEF Begin, Others, AtWork
  <2>4. \A t \in Supervisors \ {s} : AtWork(t)' => AtWork(t)
    BY <2>2 DEF AtWork
  <2>. QED  BY <2>3, <2>4 DEF SharersMet
<1>2. CASE ~ \E s \in Supervisors : Begin(s)
  <2>1. \A t \in Supervisors : AtWork(t)' => AtWork(t)
    BY <1>2, NobodyJoins
  <2>2. met' = met
    BY <1>2 DEF Next, Main, Handler, Processes, Refuse, Spawn, Poll, Probe, Clean, Wait, Free,
                Finish, HandleTests, HandleTestsWait, HandleValidator, HandleValidatorWait, HandleFree,
                TestsEnd, Bind, ValidatorEnds, Signal, Die, vars
  <2>. QED  BY <2>1, <2>2 DEF SharersMet
<1>. QED  BY <1>1, <1>2

(* What the two halves of InterferenceNeedsAnother look at stays.            *)
NoInterference ==
    /\ \A t \in Supervisors : NotStranger(t)
    /\ SameStates
    /\ UNCHANGED <<ledger, met>>

LEMMA InterferenceStep ==
    ASSUME SupTyped, ProcessesTyped, PortTyped, ProcessesMatchMain, PortIsServed, SharersMet,
           InterferenceNeedsAnother, [Next]_vars
    PROVE  InterferenceNeedsAnother'
<1>1. ASSUME NoInterference  PROVE InterferenceNeedsAnother'
  BY <1>1 DEF NoInterference, NotStranger, SameStates, InterferenceNeedsAnother
<1>2. ASSUME NEW s \in Supervisors, Begin(s)  PROVE InterferenceNeedsAnother'
  <2>1. /\ \A t \in Supervisors : NotStranger(t)
        /\ UNCHANGED validator /\ validator[s].st = "none"
    BY <1>2 DEF Begin, Set, SupTyped, Supervisor, NotStranger, ProcessesMatchMain
  <2>2. met \subseteq met' /\ \A t \in Supervisors \ {s} : AtWork(t) => t \in met'
    BY <1>2 DEF Begin, Others, AtWork
  <2>3. \A t \in Supervisors \ {s} : validator[t].st = "serving" => t \in met'
    BY <2>2 DEF AtWork, Alive
  <2>. QED  BY <2>1, <2>2, <2>3 DEF InterferenceNeedsAnother, NotStranger
<1>3. ASSUME NEW s \in Supervisors, Spawn(s)  PROVE InterferenceNeedsAnother'
  <2>1. \/ validator' = validator
        \/ \E st \in {"starting", "none"} : validator' = [validator EXCEPT ![s].st = st]
    BY <1>3 DEF Spawn
  <2>2. \A t \in Supervisors : NotStranger(t)
    BY <1>3, SpawnKeeps
  <2>3. /\ \A t \in Supervisors : validator'[t].st = "serving" => validator[t].st = "serving"
        /\ UNCHANGED <<ledger, met>>
    BY <1>3, <2>1 DEF Spawn, ProcessesTyped, ValidatorProcess
  <2>. QED  BY <2>2, <2>3 DEF InterferenceNeedsAnother, NotStranger
<1>4. ASSUME NEW s \in Supervisors, Poll(s)  PROVE InterferenceNeedsAnother'
  <2>1. UNCHANGED <<validator, ledger, met>>
    BY <1>4 DEF Poll
  <2>2. \A t \in Supervisors : NotStranger(t)
    BY <1>4, PollSup DEF NotStranger
  <2>. QED  BY <2>1, <2>2 DEF InterferenceNeedsAnother, NotStranger
<1>5. ASSUME NEW s \in Supervisors, Probe(s)  PROVE InterferenceNeedsAnother'
  <2>1. UNCHANGED <<validator, ledger, met>> /\ sup[s].pc = "probe"
    BY <1>5 DEF Probe
  <2>2. \A t \in Supervisors \ {s} : NotStranger(t)
    BY <1>5, ProbeSup DEF NotStranger
  <2>3. \/ NotStranger(s)
        \/ port # Null /\ port.by = "validator" /\ (sup'[s].strange => port.s # s)
    BY <1>5, ProbeSup
  <2>4. CASE NotStranger(s)
    BY <2>1, <2>2, <2>4 DEF InterferenceNeedsAnother, NotStranger
  <2>5. CASE port # Null /\ port.by = "validator" /\ port.s # s
    <3>1. port.s \in Supervisors
      BY <2>5 DEF PortTyped, Binding
    <3>2. AtWork(s) /\ AtWork(port.s)
      BY <2>1, <2>5, <3>1 DEF PortIsServed, AtWork, Alive, Over
    <3>3. s \in met
      BY <2>5, <3>1, <3>2 DEF SharersMet
    <3>. QED  BY <2>1, <2>2, <3>3 DEF InterferenceNeedsAnother, NotStranger
  <2>6. CASE ~sup'[s].strange
    BY <2>4, <2>6 DEF NotStranger
  <2>. QED  BY <2>3, <2>4, <2>5, <2>6
<1>6. ASSUME NEW s \in Supervisors, Clean(s)  PROVE InterferenceNeedsAnother'
  <2>1. \A t \in Supervisors : NotStranger(t)
    BY <1>6 DEF Clean, Set, SupTyped, Supervisor, NotStranger
  <2>2. SameStates /\ UNCHANGED <<ledger, met>>
    BY <1>6 DEF Clean, Terminated, ProcessesTyped, ValidatorProcess, SameStates
  <2>. QED  BY <1>1, <2>1, <2>2 DEF NoInterference
<1>7. ASSUME NEW s \in Supervisors, Wait(s)  PROVE InterferenceNeedsAnother'
  <2>1. sup' = sup \/ sup' = [sup EXCEPT ![s].pc = "free"]
    BY <1>7, WaitSup
  <2>2. \A t \in Supervisors : NotStranger(t)
    BY <2>1 DEF SupTyped, Supervisor, NotStranger
  <2>3. SameStates
    BY <1>7, WaitStates
  <2>4. UNCHANGED <<ledger, met>>
    BY <1>7 DEF Wait
  <2>. QED  BY <1>1, <2>2, <2>3, <2>4 DEF NoInterference
<1>8. ASSUME NEW s \in Supervisors, Free(s)  PROVE InterferenceNeedsAnother'
  <2>1. \A t \in Supervisors : NotStranger(t)
    BY <1>8 DEF Free, SupTyped, Supervisor, NotStranger
  <2>. QED  BY <1>1, <1>8, <2>1 DEF Free, NoInterference, SameStates
<1>9. ASSUME NEW s \in Supervisors, Finish(s)  PROVE InterferenceNeedsAnother'
  <2>1. UNCHANGED <<validator, met>> /\ sup[s].pc = "after"
    BY <1>9 DEF Finish
  <2>2. \A t \in Supervisors : NotStranger(t)
    BY <1>9 DEF Finish, NewSupervisor, SupTyped, Supervisor, NotStranger
  <2>3. \A t \in Supervisors : validator[t].st = "serving" => t # s /\ AtWork(t) /\ AtWork(s)
    BY <2>1 DEF ProcessesMatchMain, AtWork, Alive, Over
  <2>4. \A t \in Supervisors : validator[t].st = "serving" => t \in met
    BY <2>3 DEF SharersMet
  <2>. QED  BY <2>1, <2>2, <2>4 DEF InterferenceNeedsAnother, NotStranger
<1>17. ASSUME NEW s \in Supervisors, Refuse(s)  PROVE InterferenceNeedsAnother'
  <2>1. UNCHANGED <<validator, met>> /\ sup[s].pc = "refused"
    BY <1>17 DEF Refuse
  <2>2. \A t \in Supervisors : NotStranger(t)
    BY <1>17 DEF Refuse, SupTyped, Supervisor, NotStranger
  <2>3. \A t \in Supervisors : validator[t].st = "serving" => t # s /\ AtWork(t) /\ AtWork(s)
    BY <2>1 DEF ProcessesMatchMain, AtWork, Alive, Over
  <2>4. \A t \in Supervisors : validator[t].st = "serving" => t \in met
    BY <2>3 DEF SharersMet
  <2>. QED  BY <2>1, <2>2, <2>4 DEF InterferenceNeedsAnother, NotStranger
<1>10. ASSUME NEW s \in Supervisors, Handler(s)  PROVE InterferenceNeedsAnother'
  <2>1. SameStates /\ \A t \in Supervisors : NotStranger(t)
    BY <1>10, HandlerStates, HandlerSup
  <2>2. UNCHANGED <<ledger, met>>
    BY <1>10 DEF Handler, HandleTests, HandleTestsWait, HandleValidator, HandleValidatorWait,
                 HandleFree
  <2>. QED  BY <1>1, <2>1, <2>2 DEF NoInterference
<1>11. ASSUME NEW s \in Supervisors, TestsEnd(s)  PROVE InterferenceNeedsAnother'
  <2>1. UNCHANGED <<validator, ledger, met>>
    BY <1>11 DEF TestsEnd
  <2>2. \A t \in Supervisors : NotStranger(t)
    BY <1>11 DEF TestsEnd, SupTyped, Supervisor, NotStranger
  <2>. QED  BY <2>1, <2>2 DEF InterferenceNeedsAnother, NotStranger
<1>12. ASSUME NEW s \in Supervisors, Bind(s)  PROVE InterferenceNeedsAnother'
  <2>1. UNCHANGED <<sup, met>> /\ validator[s].st = "starting"
    BY <1>12 DEF Bind
  <2>2. CASE ledger' = s /\ validator' = [validator EXCEPT ![s].st = "serving"]
    <3>1. \A t \in Supervisors \ {s} : validator[t].st = "serving" => t \in met
      BY <2>1 DEF SharersMet, AtWork, Alive
    <3>. QED  BY <2>1, <2>2, <3>1 DEF InterferenceNeedsAnother, ProcessesTyped
  <2>3. CASE ledger' = ledger /\ validator' = [validator EXCEPT ![s] = Exited]
    BY <2>1, <2>3 DEF InterferenceNeedsAnother, ProcessesTyped, Exited
  <2>. QED  BY <1>12, <2>2, <2>3 DEF Bind
<1>13. ASSUME NEW s \in Supervisors, ValidatorEnds(s)  PROVE InterferenceNeedsAnother'
  BY <1>13 DEF ValidatorEnds, Exited, InterferenceNeedsAnother, ProcessesTyped
<1>14. ASSUME NEW s \in Supervisors, Signal(s)  PROVE InterferenceNeedsAnother'
  <2>1. PICK c, h : sup' = [sup EXCEPT ![s] = [@ EXCEPT !.caught = c, !.h = h]]
    BY <1>14, SignalSup
  <2>2. \A t \in Supervisors : NotStranger(t)
    BY <2>1 DEF SupTyped, Supervisor, NotStranger
  <2>. QED  BY <1>1, <1>14, <2>2 DEF Signal, NoInterference, SameStates
<1>15. ASSUME NEW s \in Supervisors, Die(s)  PROVE InterferenceNeedsAnother'
  <2>1. \A t \in Supervisors : NotStranger(t)
    BY <1>15 DEF Die, NewSupervisor, SupTyped, NotStranger
  <2>. QED  BY <1>1, <1>15, <2>1 DEF Die, NoInterference, SameStates
<1>16. CASE UNCHANGED vars
  BY <1>16 DEF vars, InterferenceNeedsAnother
<1>. QED
  BY <1>2, <1>3, <1>4, <1>5, <1>6, <1>7, <1>8, <1>9, <1>10, <1>11, <1>12, <1>13, <1>14, <1>15,
     <1>16, <1>17 DEF Next, Main, Processes

-------------------------------------------------------------------------------
(* Types: sup first, then the processes and the machine.                     *)
LEMMA SupTypeStep ==
    ASSUME SupTyped, [Next]_vars
    PROVE  SupTyped'
<1>. USE SupervisorAssumption
<1>0. \A s \in Supervisors : sup[s] \in Supervisor
  BY DEF SupTyped
<1>1. ASSUME NEW s \in Supervisors, NEW r \in Supervisor, sup' = [sup EXCEPT ![s] = r]
      PROVE  SupTyped'
  BY <1>1 DEF SupTyped
<1>2. ASSUME NEW s \in Supervisors, Begin(s)  PROVE SupTyped'
  BY <1>2 DEF Begin, Set, SupTyped, Supervisor, Steps, Over
<1>3. ASSUME NEW s \in Supervisors, Spawn(s)  PROVE SupTyped'
  <2>1. sup[s] \in Supervisor
    BY <1>0
  <2>2. \A a \in BOOLEAN :
            [sup[s] EXCEPT !.pc = "probe", !.h = "armed", !.active = a] \in Supervisor
    BY <2>1 DEF Supervisor, Steps
  <2>3. [sup[s] EXCEPT !.pc = "clean", !.h = "armed", !.result = "failure"] \in Supervisor
    BY <2>1 DEF Supervisor, Steps
  <2>. QED  BY <1>1, <1>3, <2>2, <2>3, SpawnSup
<1>17. ASSUME NEW s \in Supervisors, Refuse(s)  PROVE SupTyped'
  <2>1. sup' = [sup EXCEPT ![s] = [@ EXCEPT !.pc = "ended", !.exit = 1]]
    BY <1>17 DEF Refuse, SupTyped, Supervisor
  <2>2. [sup[s] EXCEPT !.pc = "ended", !.exit = 1] \in Supervisor
    <3>1. sup[s] \in Supervisor
      BY <1>0
    <3>. QED  BY <3>1 DEF Supervisor, Over
  <2>. QED  BY <1>1, <2>1, <2>2
<1>4. ASSUME NEW s \in Supervisors, Poll(s)  PROVE SupTyped'
  BY <1>4 DEF Poll, Set, SupTyped, Supervisor, Steps, Over
<1>5. ASSUME NEW s \in Supervisors, Probe(s)  PROVE SupTyped'
  BY <1>5 DEF Probe, SupTyped, Supervisor, Steps, Over
<1>6. ASSUME NEW s \in Supervisors, Clean(s)  PROVE SupTyped'
  BY <1>6 DEF Clean, Set, SupTyped, Supervisor, Steps, Over
<1>7. ASSUME NEW s \in Supervisors, Wait(s)  PROVE SupTyped'
  <2>1. sup' = sup \/ sup' = [sup EXCEPT ![s].pc = "free"]
    BY <1>7, WaitSup
  <2>. QED  BY <2>1 DEF SupTyped, Supervisor, Steps
<1>8. ASSUME NEW s \in Supervisors, Free(s)  PROVE SupTyped'
  <2>1. PICK k \in BOOLEAN, h \in {sup[s].h, "off"} :
            sup' = [sup EXCEPT ![s] =
                        [@ EXCEPT !.pc = "after", !.active = FALSE, !.ok = k, !.h = h]]
    BY <1>8 DEF Free, SupTyped, Supervisor
  <2>2. [sup[s] EXCEPT !.pc = "after", !.active = FALSE, !.ok = k, !.h = h] \in Supervisor
    <3>1. sup[s] \in Supervisor
      BY <1>0
    <3>. QED  BY <3>1 DEF Supervisor, Steps
  <2>. QED  BY <1>1, <2>1, <2>2
<1>9. ASSUME NEW s \in Supervisors, Finish(s)  PROVE SupTyped'
  <2>1. ExitCode(s) \in {0, 1, 130}
    BY DEF ExitCode
  <2>2. [NewSupervisor EXCEPT !.pc = "ended", !.exit = ExitCode(s), !.caught = sup[s].caught,
                              !.strange = sup[s].strange, !.result = sup[s].result] \in Supervisor
    BY <1>0, <2>1 DEF NewSupervisor, Supervisor, Steps, Over
  <2>. QED  BY <1>1, <1>9, <2>2 DEF Finish
<1>10. ASSUME NEW s \in Supervisors, HandleTests(s) \/ HandleValidator(s)  PROVE SupTyped'
  BY <1>10 DEF HandleTests, HandleValidator, SupTyped, Supervisor, Steps, Over
<1>11. ASSUME NEW s \in Supervisors, HandleTestsWait(s) \/ HandleValidatorWait(s)  PROVE SupTyped'
  <2>1. sup' = sup \/ \E h \in {"validator", "free"} : sup' = [sup EXCEPT ![s].h = h]
    BY <1>11 DEF HandleTestsWait, HandleValidatorWait
  <2>. QED  BY <2>1 DEF SupTyped, Supervisor, Steps, Over
<1>12. ASSUME NEW s \in Supervisors, HandleFree(s)  PROVE SupTyped'
  <2>1. sup' = [sup EXCEPT ![s] = [@ EXCEPT !.h = "done", !.active = FALSE]]
    BY <1>12 DEF HandleFree, SupTyped, Supervisor
  <2>2. [sup[s] EXCEPT !.h = "done", !.active = FALSE] \in Supervisor
    <3>1. sup[s] \in Supervisor
      BY <1>0
    <3>. QED  BY <3>1 DEF Supervisor
  <2>. QED  BY <1>1, <2>1, <2>2
<1>13. ASSUME NEW s \in Supervisors, TestsEnd(s)  PROVE SupTyped'
  <2>1. PICK result \in {"passed", "failed"} :
            sup' = sup \/ sup' = [sup EXCEPT ![s].pc = "clean", ![s].result = result]
    BY <1>13 DEF TestsEnd
  <2>. QED  BY <2>1 DEF SupTyped, Supervisor, Steps
<1>14. ASSUME NEW s \in Supervisors, Signal(s)  PROVE SupTyped'
  <2>1. PICK c \in Nat, h \in {sup[s].h, "tests"} :
            sup' = [sup EXCEPT ![s] = [@ EXCEPT !.caught = c, !.h = h]]
    BY <1>14, SignalSup
  <2>2. [sup[s] EXCEPT !.caught = c, !.h = h] \in Supervisor
    <3>1. sup[s] \in Supervisor
      BY <1>0
    <3>. QED  BY <3>1 DEF Supervisor
  <2>. QED  BY <1>1, <2>1, <2>2
<1>15. ASSUME NEW s \in Supervisors, Die(s)  PROVE SupTyped'
  BY <1>15 DEF Die, NewSupervisor, SupTyped, Supervisor, Steps, Over
<1>16. ASSUME UNCHANGED sup  PROVE SupTyped'
  BY <1>16 DEF SupTyped
<1>. QED
  BY <1>2, <1>3, <1>4, <1>5, <1>6, <1>7, <1>8, <1>9, <1>10, <1>11, <1>12, <1>13, <1>14, <1>15,
     <1>16, <1>17 DEF Next, Main, Handler, Processes, Bind, ValidatorEnds, vars

LEMMA ProcessTypeStep ==
    ASSUME ProcessesTyped, [Next]_vars
    PROVE  ProcessesTyped'
<1>. USE DEF ProcessesTyped, ValidatorProcess, TestProcess
<1>1. ASSUME NEW s \in Supervisors, Spawn(s)  PROVE ProcessesTyped'
  BY <1>1 DEF Spawn
<1>2. ASSUME NEW s \in Supervisors, Probe(s)  PROVE ProcessesTyped'
  BY <1>2 DEF Probe
<1>3. ASSUME NEW s \in Supervisors, Clean(s)  PROVE ProcessesTyped'
  BY <1>3 DEF Clean, Terminated
<1>4. ASSUME NEW s \in Supervisors, Wait(s)  PROVE ProcessesTyped'
  BY <1>4 DEF Wait, Killed
<1>5. ASSUME NEW s \in Supervisors, HandleTests(s)  PROVE ProcessesTyped'
  BY <1>5 DEF HandleTests, Terminated
<1>6. ASSUME NEW s \in Supervisors, HandleTestsWait(s)  PROVE ProcessesTyped'
  BY <1>6 DEF HandleTestsWait, Killed
<1>7. ASSUME NEW s \in Supervisors, HandleValidator(s)  PROVE ProcessesTyped'
  BY <1>7 DEF HandleValidator, Terminated
<1>8. ASSUME NEW s \in Supervisors, HandleValidatorWait(s)  PROVE ProcessesTyped'
  BY <1>8 DEF HandleValidatorWait, Killed
<1>9. ASSUME NEW s \in Supervisors, TestsEnd(s)  PROVE ProcessesTyped'
  BY <1>9 DEF TestsEnd, Exited
<1>10. ASSUME NEW s \in Supervisors, Bind(s)  PROVE ProcessesTyped'
  BY <1>10 DEF Bind, Exited
<1>11. ASSUME NEW s \in Supervisors, ValidatorEnds(s)  PROVE ProcessesTyped'
  BY <1>11 DEF ValidatorEnds, Exited
<1>12. ASSUME UNCHANGED <<validator, test>>  PROVE ProcessesTyped'
  BY <1>12
<1>. QED
  BY <1>1, <1>2, <1>3, <1>4, <1>5, <1>6, <1>7, <1>8, <1>9, <1>10, <1>11, <1>12
     DEF Next, Main, Handler, Processes, Begin, Refuse, Poll, Free, Finish, HandleFree, Signal, Die, vars

MachineTyped ==
    /\ ledger \in Supervisors \cup {Null}
    /\ sent \in Nat
    /\ met \in SUBSET Supervisors

LEMMA MachineTypeStep ==
    ASSUME PortTyped, MachineTyped, [Next]_vars
    PROVE  PortTyped' /\ MachineTyped'
<1>. USE DEF PortTyped, Binding, MachineTyped
<1>1. ASSUME NEW s \in Supervisors, Begin(s)  PROVE PortTyped' /\ MachineTyped'
  BY <1>1 DEF Begin, Others
<1>2. ASSUME NEW s \in Supervisors, Spawn(s) \/ Refuse(s) \/ Finish(s)
      PROVE  PortTyped' /\ MachineTyped'
  BY <1>2 DEF Spawn, Refuse, Finish
<1>3. ASSUME NEW s \in Supervisors, Bind(s) \/ ValidatorEnds(s)  PROVE PortTyped' /\ MachineTyped'
  BY <1>3 DEF Bind, ValidatorEnds
<1>4. ASSUME NEW s \in Supervisors, Signal(s) \/ Die(s)  PROVE PortTyped' /\ MachineTyped'
  BY <1>4 DEF Signal, Die
<1>5. ASSUME UNCHANGED <<port, ledger, sent, met>>  PROVE PortTyped' /\ MachineTyped'
  BY <1>5
<1>. QED
  BY <1>1, <1>2, <1>3, <1>4, <1>5
     DEF Next, Main, Handler, Processes, Poll, Probe, Clean, Wait, Free, HandleTests,
         HandleTestsWait, HandleValidator, HandleValidatorWait, HandleFree, TestsEnd, vars

TypeOK == SupTyped /\ ProcessesTyped /\ PortTyped /\ MachineTyped

SupervisorInv ==
    /\ TypeOK
    /\ ProcessesMatchMain
    /\ ZeroIsEarned
    /\ PortIsServed
    /\ SharersMet
    /\ InterferenceNeedsAnother

-------------------------------------------------------------------------------
(* The inductive invariant holds in every reachable state.                   *)
THEOREM SupervisorInvariant == Spec => []SupervisorInv
<1>1. Init => SupervisorInv
  BY SupervisorAssumption
     DEF Init, SupervisorInv, TypeOK, SupTyped, ProcessesTyped, PortTyped, MachineTyped,
         ProcessesMatchMain, ZeroIsEarned, PortIsServed, AtWork, SharersMet,
         InterferenceNeedsAnother, NewSupervisor, NoProcess, Supervisor, ValidatorProcess,
         TestProcess, Steps, Over, Alive
<1>2. SupervisorInv /\ [Next]_vars => SupervisorInv'
  BY SupTypeStep, ProcessTypeStep, MachineTypeStep, MatchStep, ZeroStep, PortStep, SharersStep,
     InterferenceStep DEF SupervisorInv, TypeOK
<1>. QED  BY <1>1, <1>2, PTL DEF Spec

(* A supervisor that came to its own end left neither a validator nor a      *)
(* test process alive, and its exit code 0 says that the tests passed and no *)
(* signal was caught, for any number of supervisors and of signals.          *)
THEOREM NothingIsLeftBehind == Spec => []NothingLeftBehind
<1>1. SupervisorInv => NothingLeftBehind
  BY DEF SupervisorInv, ProcessesMatchMain, ZeroIsEarned, NothingLeftBehind
<1>. QED  BY <1>1, SupervisorInvariant, PTL

(* Tests on another supervisor's validator, and a ledger removed under a     *)
(* validator that serves, happen only to a supervisor that shared the        *)
(* machine with another one.                                                 *)
THEOREM InterferenceExplained == Spec => []InterferenceNeedsAnother
<1>1. SupervisorInv => InterferenceNeedsAnother
  BY DEF SupervisorInv
<1>. QED  BY <1>1, SupervisorInvariant, PTL
===============================================================================
