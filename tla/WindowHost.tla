------------------------------ MODULE WindowHost ------------------------------
(***************************************************************************)
(* The processes around one upload window: the outer host                  *)
(* (upload-window-host.mjs) verifies the authorization, consumes the       *)
(* execution id, spawns the supervisor (upload-process-supervisor.mjs)     *)
(* and persists a verdict; the supervisor spawns the uploader and kills it *)
(* on a timeout.  Of the uploader this module keeps its life and the lease *)
(* it takes: UploadSystem models the rest.                                 *)
(*                                                                         *)
(* Timers fire at any moment their code allows, in the order they were     *)
(* set: what holds here holds for every choice of the timeouts.            *)
(***************************************************************************)
EXTENDS FiniteSets, Naturals

CONSTANTS
    Hosts,     \* invocations of upload-window-host
    Ids,       \* execution ids
    Platforms, \* the platforms the machine may be: "posix", "win32"
    Faults,    \* bound: "drift", "write", "kill", "spawn", "stuck"
    None

ASSUME WindowHostAssumption ==
    /\ None \notin Hosts \cup Ids
    /\ Platforms \subseteq {"posix", "win32"}
    /\ Faults \subseteq {"drift", "write", "kill", "spawn", "stuck"}

VARIABLES
    host,   \* host[h]: the outer host
    sup,    \* sup[h]: the supervisor it spawned
    upl,    \* upl[h]: the uploader that supervisor spawned
    lease,  \* the owner of <state>.upload-lease, or None
    dir     \* dir[i]: the execution directory of id i

vars == <<host, sup, upl, lease, dir>>

(* spawned: the spawn event came; term: how far the termination went, "over" *)
(* once the close event cleared its timers; why: what began it; lost: a log  *)
(* or the invocation was not persisted.                                      *)
NewHost ==
    [phase |-> "off", id |-> None, platform |-> "posix", spawned |-> FALSE, failed |-> FALSE, closed |-> FALSE,
     term |-> "none", why |-> "none", lost |-> FALSE, expired |-> FALSE, cleaned |-> FALSE,
     late |-> FALSE, verdict |-> "none"]

(* sig: the last signal it was sent; stage: how far runOwnedProcess went;      *)
(* out: the terminal record on stdout; code: exit code 0, 1 or a signal.     *)
NewSup ==
    [st |-> "none", sig |-> "none", stage |-> "start", timedOut |-> FALSE,
     cleaned |-> FALSE, out |-> "none", code |-> "none"]

NewUpl == [st |-> "none", sig |-> "none", leased |-> FALSE, code |-> "none"]

NewDir == [made |-> FALSE, authorization |-> FALSE, invocation |-> FALSE,
           result |-> "none"]

Init ==
    /\ \E p \in Platforms : host = [h \in Hosts |-> [NewHost EXCEPT !.platform = p]]
    /\ sup = [h \in Hosts |-> NewSup]
    /\ upl = [h \in Hosts |-> NewUpl]
    /\ lease = None
    /\ dir = [i \in Ids |-> NewDir]

HostUp(h) == host[h].phase \notin {"off", "done", "dead"}

SupUp(h) == sup[h].st = "up"

UplUp(h) == upl[h].st = "up"

(* "stuck": a process that was sent SIGKILL may still finish a step.         *)
Runs(p) == p.st = "up" /\ (p.sig = "KILL" => "stuck" \in Faults)

(* What outlives a process: the host's verdict and what it said of the       *)
(* cleanup, the supervisor's record, the exit codes.                         *)
Ended(h, verdict) ==
    [NewHost EXCEPT !.phase = "done", !.id = host[h].id, !.verdict = verdict,
                    !.cleaned = host[h].cleaned /\ ~host[h].expired]

Return(h, verdict) == host' = [host EXCEPT ![h] = Ended(h, verdict)]

SupEnds(h, out, code) ==
    sup' = [sup EXCEPT ![h] = [NewSup EXCEPT !.st = "dead", !.out = out, !.code = code,
                                             !.cleaned = sup[h].cleaned]]

UplEnds(h, code) ==
    upl' = [upl EXCEPT ![h] = [NewUpl EXCEPT !.st = "dead", !.code = code]]

(***************************************************************************)
(* The outer host before the spawn                                         *)
(***************************************************************************)
StartHost(h, i) ==
    /\ host[h].phase = "off"
    /\ host' = [host EXCEPT ![h].phase = "verify", ![h].id = i]
    /\ UNCHANGED <<sup, upl, lease, dir>>

(* Mutant of RetainedProcess: other hosts are not a role of the classifier.  *)
RetainedChild(h) == \E g \in Hosts \ {h} : SupUp(g) \/ UplUp(g)

(* The process table shows another host, supervisor or uploader.             *)
RetainedProcess(h) == \E g \in Hosts \ {h} : HostUp(g) \/ SupUp(g) \/ UplUp(g)

(* The manifest check: "drift" stands for a repository, state, binary, plan, *)
(* candidate or buffer that is not the one the manifest names.               *)
ManifestHolds(h) == lease = None /\ ~RetainedProcess(h)

verifyAuthorizationManifest(h) ==
    /\ host[h].phase = "verify"
    /\ \/ /\ ManifestHolds(h)
          /\ host' = [host EXCEPT ![h].phase = "reserve"]
       \/ /\ ManifestHolds(h) => "drift" \in Faults
          /\ Return(h, "MANIFEST_REJECTED")
    /\ UNCHANGED <<sup, upl, lease, dir>>

(* mkdirSync without recursive: the directory is the marker of the id.  Where *)
(* it cannot be made the id is not consumed, where its parent cannot be      *)
(* flushed it is.                                                            *)
ConsumeId(h) ==
    /\ host[h].phase = "reserve"
    /\ IF dir[host[h].id].made
       THEN Return(h, "EXECUTION_ID_CONSUMED") /\ UNCHANGED dir
       ELSE \/ /\ dir' = [dir EXCEPT ![host[h].id].made = TRUE]
               /\ \/ host' = [host EXCEPT ![h].phase = "authorize"]
                  \/ "write" \in Faults /\ Return(h, "PERSISTENCE_FAILED")
            \/ /\ "write" \in Faults
               /\ Return(h, "PERSISTENCE_FAILED")
               /\ UNCHANGED dir
    /\ UNCHANGED <<sup, upl, lease>>

WriteAuthorization(h) ==
    /\ host[h].phase = "authorize"
    /\ \/ /\ dir' = [dir EXCEPT ![host[h].id].authorization = TRUE]
          /\ host' = [host EXCEPT ![h].phase = "revalidate"]
       \/ /\ "write" \in Faults
          /\ Return(h, "PERSISTENCE_FAILED")
          /\ UNCHANGED dir
    /\ UNCHANGED <<sup, upl, lease>>

(* The checks again, without the buffer; a failure leaves a durable result.  *)
revalidateManifest(h) ==
    /\ host[h].phase = "revalidate"
    /\ \/ /\ ManifestHolds(h)
          /\ host' = [host EXCEPT ![h].phase = "spawn"]
          /\ UNCHANGED dir
       \/ /\ ManifestHolds(h) => "drift" \in Faults
          /\ \/ /\ Return(h, "MANIFEST_REJECTED")
                /\ dir' = [dir EXCEPT ![host[h].id].result = "MANIFEST_REJECTED"]
             \/ /\ "write" \in Faults
                /\ Return(h, "PERSISTENCE_FAILED")
                /\ UNCHANGED dir
    /\ UNCHANGED <<sup, upl, lease>>

(***************************************************************************)
(* runOwnedHostChild                                                       *)
(***************************************************************************)
SpawnSupervisor(h) ==
    /\ host[h].phase = "spawn"
    /\ host' = [host EXCEPT ![h].phase = "child"]
    /\ sup' = [sup EXCEPT ![h].st = "up"]
    /\ UNCHANGED <<upl, lease, dir>>

(* The log files cannot be opened or spawn throws: no timer is set.          *)
SpawnThrows(h) ==
    /\ "spawn" \in Faults
    /\ host[h].phase = "spawn"
    /\ host' = [host EXCEPT ![h].phase = "final", ![h].failed = TRUE, ![h].cleaned = TRUE]
    /\ UNCHANGED <<sup, upl, lease, dir>>

(* The error event comes instead of the spawn event: there is no process.    *)
SpawnError(h) ==
    /\ "spawn" \in Faults
    /\ host[h].phase = "spawn"
    /\ host' = [host EXCEPT ![h].phase = "closing", ![h].failed = TRUE, ![h].cleaned = TRUE]
    /\ UNCHANGED <<sup, upl, lease, dir>>

(* A signal to the process group of the supervisor.  The uploader is         *)
(* detached: on POSIX it has a group of its own, on Windows taskkill /T      *)
(* finds it below a supervisor that lives.                                   *)
terminateOwnedTree(h, s) ==
    /\ sup' = [sup EXCEPT ![h].sig = IF SupUp(h) THEN s ELSE @]
    /\ upl' = [upl EXCEPT ![h].sig =
                   IF host[h].platform = "win32" /\ SupUp(h) /\ UplUp(h) THEN s ELSE @]

(* What beginTermination makes of the record r of a host.                    *)
Terminating(r, why) ==
    IF r.term = "none" THEN [r EXCEPT !.term = "term", !.why = why] ELSE r

beginTermination(h, why) ==
    /\ host[h].phase \in {"child", "closing"}
    /\ ~host[h].closed
    /\ host[h].term = "none"
    /\ host' = [host EXCEPT ![h] = Terminating(@, why)]
    /\ IF host[h].spawned THEN terminateOwnedTree(h, "TERM") ELSE UNCHANGED <<sup, upl>>
    /\ UNCHANGED <<lease, dir>>

OuterTimeout(h) == beginTermination(h, "timeout")

Interrupt(h) == beginTermination(h, "interrupt")

(* A log stream fails.  After the close event nothing is left to signal, but *)
(* the two timers are set all the same.                                      *)
LogError(h) ==
    /\ "write" \in Faults
    /\ host[h].phase \in {"child", "closing"}
    /\ ~host[h].lost
    /\ host' = [host EXCEPT ![h] = [Terminating(@, "persistence") EXCEPT !.lost = TRUE]]
    /\ IF host[h].term = "none" /\ host[h].spawned
       THEN terminateOwnedTree(h, "TERM")
       ELSE UNCHANGED <<sup, upl>>
    /\ UNCHANGED <<lease, dir>>

(* The spawn event: invocation.json is written, or the termination begins.   *)
OnSpawn(h) ==
    /\ host[h].phase \in {"child", "closing"}
    /\ ~host[h].failed
    /\ ~host[h].spawned
    /\ \/ /\ host' = [host EXCEPT ![h].spawned = TRUE]
          /\ dir' = [dir EXCEPT ![host[h].id].invocation = TRUE]
          /\ UNCHANGED <<sup, upl>>
       \/ /\ "write" \in Faults
          /\ host' = [host EXCEPT ![h] =
                 [Terminating(@, "persistence") EXCEPT !.spawned = TRUE, !.lost = TRUE]]
          /\ IF host[h].term = "none"
             THEN terminateOwnedTree(h, "TERM")
             ELSE UNCHANGED <<sup, upl>>
          /\ UNCHANGED dir
    /\ UNCHANGED lease

(* The escalation timer, halfway through the cleanup allowance.              *)
ForceKill(h) ==
    /\ host[h].phase \in {"child", "closing"}
    /\ host[h].term = "term"
    /\ host' = [host EXCEPT ![h].term = "force"]
    /\ IF host[h].spawned THEN terminateOwnedTree(h, "KILL") ELSE UNCHANGED <<sup, upl>>
    /\ UNCHANGED <<lease, dir>>

(* Mutant of CleanupDeadline: the deadline still waits for the child.        *)
DeadlineWaits(h) ==
    /\ host[h].phase = "child"
    /\ host[h].term = "force"
    /\ ~SupUp(h) /\ ~UplUp(h)
    /\ host' = [host EXCEPT ![h].phase = "closing", ![h].expired = TRUE]
    /\ UNCHANGED <<sup, upl, lease, dir>>

(* The end of the cleanup allowance: the host no longer waits for the child, *)
(* and the cleanup does not count as completed even where it is.             *)
CleanupDeadline(h) ==
    /\ host[h].phase \in {"child", "closing"}
    /\ host[h].term = "force"
    /\ ~host[h].expired
    /\ host' = [host EXCEPT ![h].phase = "closing", ![h].expired = TRUE]
    /\ UNCHANGED <<sup, upl, lease, dir>>

(* The close event clears the timers of a termination that began before it.  *)
TimersCleared(term) == IF term = "none" THEN "none" ELSE "over"

(* Mutant of ChildClose: the exit of the supervisor counts as its close.     *)
ChildExit(h) ==
    /\ host[h].phase \in {"child", "closing"}
    /\ host[h].spawned
    /\ ~host[h].closed
    /\ sup[h].st = "dead"
    /\ host' = [host EXCEPT ![h].phase = "closing", ![h].closed = TRUE,
                            ![h].cleaned = host[h].phase = "child",
                            ![h].term = TimersCleared(@)]
    /\ UNCHANGED <<sup, upl, lease, dir>>

(* The close event: the supervisor has exited and every holder of its pipes, *)
(* the uploader included, is gone.  Before the deadline it ends the wait.    *)
ChildClose(h) ==
    /\ host[h].phase \in {"child", "closing"}
    /\ host[h].spawned
    /\ ~host[h].closed
    /\ sup[h].st = "dead"
    /\ ~UplUp(h)
    /\ host' = [host EXCEPT ![h].phase = "closing", ![h].closed = TRUE,
                            ![h].cleaned = host[h].phase = "child",
                            ![h].term = TimersCleared(@)]
    /\ UNCHANGED <<sup, upl, lease, dir>>

(* The log streams are closed, by themselves or destroyed at the deadline.   *)
LogsClosed(h) ==
    /\ host[h].phase = "closing"
    /\ \E late \in BOOLEAN :
           host' = [host EXCEPT ![h].phase = "final", ![h].late = late]
    /\ UNCHANGED <<sup, upl, lease, dir>>

(***************************************************************************)
(* The verdict                                                             *)
(***************************************************************************)
Cleaned(h) == host[h].cleaned /\ ~host[h].expired

(* Mutant of classifyHostResult: lost evidence is not looked at.             *)
ClassifyWithoutEvidence(h) ==
    IF host[h].late THEN "FINALIZATION_TIMEOUT"
    ELSE IF ~Cleaned(h) THEN "CLEANUP_FAILED"
    ELSE IF host[h].why = "interrupt" THEN "INTERRUPTED"
    ELSE IF host[h].why = "timeout" THEN "OUTER_TIMEOUT"
    ELSE IF host[h].failed THEN "CHILD_SPAWN_FAILED"
    ELSE IF sup[h].out = "none" THEN "INNER_TERMINAL_BAD"
    ELSE IF sup[h].code # "0" THEN "CHILD_NONZERO"
    ELSE "CHILD_SUCCEEDED"

classifyHostResult(h) ==
    IF host[h].lost THEN "PERSISTENCE_FAILED"
    ELSE IF host[h].late THEN "FINALIZATION_TIMEOUT"
    ELSE IF ~Cleaned(h) THEN "CLEANUP_FAILED"
    ELSE IF host[h].why = "interrupt" THEN "INTERRUPTED"
    ELSE IF host[h].why = "timeout" THEN "OUTER_TIMEOUT"
    ELSE IF host[h].failed THEN "CHILD_SPAWN_FAILED"
    ELSE IF sup[h].out = "none" THEN "INNER_TERMINAL_BAD"
    ELSE IF sup[h].code # "0" THEN "CHILD_NONZERO"
    ELSE "CHILD_SUCCEEDED"

(* host-result.json is written with verdict v, or the write fails.           *)
WriteResult(h, v, phase) ==
    \/ /\ dir' = [dir EXCEPT ![host[h].id].result = v]
       /\ IF phase = "done"
          THEN Return(h, v)
          ELSE host' = [host EXCEPT ![h].phase = phase, ![h].verdict = v]
    \/ /\ "write" \in Faults
       /\ Return(h, "PERSISTENCE_FAILED")
       /\ UNCHANGED dir

(* Logs that cannot be flushed, parsed or hashed are lost evidence too.      *)
Finalize(h) ==
    /\ host[h].phase = "final"
    /\ \E v \in {classifyHostResult(h), "FINALIZATION_TIMEOUT", "PERSISTENCE_FAILED"} :
           /\ v = "PERSISTENCE_FAILED" /\ ~host[h].lost => "write" \in Faults
           /\ WriteResult(h, v, "written")
    /\ UNCHANGED <<sup, upl, lease>>

(* The record is written again with its timings, a deadline that passed      *)
(* meanwhile turns it into a timeout, and one that passed during that write  *)
(* into a third one.                                                         *)
Rewrite(h) ==
    /\ host[h].phase = "written"
    /\ \E v \in {host[h].verdict, "FINALIZATION_TIMEOUT"}, p \in {"done", "overrun"} :
           WriteResult(h, v, p)
    /\ UNCHANGED <<sup, upl, lease>>

WriteOverrun(h) ==
    /\ host[h].phase = "overrun"
    /\ WriteResult(h, "FINALIZATION_TIMEOUT", "done")
    /\ UNCHANGED <<sup, upl, lease>>

(***************************************************************************)
(* The supervisor: runOwnedProcess and superviseUploadProcess              *)
(***************************************************************************)
SpawnUploader(h) ==
    /\ Runs(sup[h])
    /\ sup[h].stage = "start"
    /\ sup' = [sup EXCEPT ![h].stage = "wait"]
    /\ upl' = [upl EXCEPT ![h].st = "up"]
    /\ UNCHANGED <<host, lease, dir>>

(* The arguments are refused or spawn fails: exit code 1, no terminal record. *)
SupervisorThrows(h) ==
    /\ "spawn" \in Faults
    /\ Runs(sup[h])
    /\ sup[h].stage = "start"
    /\ SupEnds(h, "none", "1")
    /\ UNCHANGED <<host, upl, lease, dir>>

signalPosixProcessTree(h, s) ==
    upl' = [upl EXCEPT ![h].sig = IF UplUp(h) THEN s ELSE @]

RuntimeTimeout(h) ==
    /\ Runs(sup[h])
    /\ sup[h].stage = "wait"
    /\ sup' = [sup EXCEPT ![h].stage = "term", ![h].timedOut = TRUE]
    /\ signalPosixProcessTree(h, "TERM")
    /\ UNCHANGED <<host, lease, dir>>

ForceKillUploader(h) ==
    /\ Runs(sup[h])
    /\ sup[h].stage = "term"
    /\ sup' = [sup EXCEPT ![h].stage = "kill"]
    /\ signalPosixProcessTree(h, "KILL")
    /\ UNCHANGED <<host, lease, dir>>

(* Mutant of InnerCleanupDeadline: the cleanup counts as completed.          *)
DeadlineCleans(h) ==
    /\ Runs(sup[h])
    /\ sup[h].stage = "kill"
    /\ sup' = [sup EXCEPT ![h].stage = "settled", ![h].cleaned = TRUE]
    /\ UNCHANGED <<host, upl, lease, dir>>

InnerCleanupDeadline(h) ==
    /\ Runs(sup[h])
    /\ sup[h].stage = "kill"
    /\ sup' = [sup EXCEPT ![h].stage = "settled"]
    /\ UNCHANGED <<host, upl, lease, dir>>

UploaderClose(h) ==
    /\ Runs(sup[h])
    /\ sup[h].stage \in {"wait", "term", "kill"}
    /\ upl[h].st = "dead"
    /\ sup' = [sup EXCEPT ![h].stage = "settled", ![h].cleaned = TRUE]
    /\ UNCHANGED <<host, upl, lease, dir>>

(* After a timeout the lease directory decides the classification; then the  *)
(* record goes to stdout and the supervisor exits.                           *)
superviseUploadProcess(h) ==
    /\ Runs(sup[h])
    /\ sup[h].stage = "settled"
    /\ LET out == IF ~sup[h].timedOut THEN "EXITED"
                  ELSE IF lease # None THEN "ACTIVE" ELSE "ABSENT"
       IN SupEnds(h, out, IF out = "EXITED" /\ upl[h].code = "0" THEN "0" ELSE "1")
    /\ UNCHANGED <<host, upl, lease, dir>>

(***************************************************************************)
(* The uploader, the operator, signals and crashes                         *)
(***************************************************************************)
(* The uploader takes the lease, or finds it taken and exits.                *)
UploaderLease(h) ==
    /\ Runs(upl[h])
    /\ ~upl[h].leased
    /\ IF lease = None
       THEN lease' = h /\ upl' = [upl EXCEPT ![h].leased = TRUE]
       ELSE UNCHANGED lease /\ UplEnds(h, "1")
    /\ UNCHANGED <<host, sup, dir>>

UploaderExit(h, code) ==
    /\ Runs(upl[h])
    /\ code = "0" => upl[h].leased
    /\ UplEnds(h, code)
    /\ UNCHANGED <<host, sup, lease, dir>>

(* An operator releases the lease of a window whose uploader is gone.        *)
ReleaseLease ==
    /\ lease # None
    /\ ~UplUp(lease)
    /\ lease' = None
    /\ UNCHANGED <<host, sup, upl, dir>>

UploaderKilled(h) ==
    /\ UplUp(h)
    /\ upl[h].sig # "none"
    /\ UplEnds(h, "signal")
    /\ UNCHANGED <<host, sup, lease, dir>>

SupervisorKilled(h) ==
    /\ SupUp(h)
    /\ sup[h].sig # "none" \/ "kill" \in Faults
    /\ SupEnds(h, "none", "signal")
    /\ UNCHANGED <<host, upl, lease, dir>>

HostKilled(h) ==
    /\ "kill" \in Faults
    /\ HostUp(h)
    /\ host' = [host EXCEPT ![h] = [NewHost EXCEPT !.phase = "dead", !.id = host[h].id]]
    /\ UNCHANGED <<sup, upl, lease, dir>>

HostStep(h) ==
    \/ verifyAuthorizationManifest(h)
    \/ ConsumeId(h)
    \/ WriteAuthorization(h)
    \/ revalidateManifest(h)
    \/ SpawnSupervisor(h)
    \/ SpawnThrows(h)
    \/ SpawnError(h)
    \/ OuterTimeout(h)
    \/ OnSpawn(h)
    \/ ForceKill(h)
    \/ CleanupDeadline(h)
    \/ ChildClose(h)
    \/ LogsClosed(h)
    \/ Finalize(h)
    \/ Rewrite(h)
    \/ WriteOverrun(h)

SupervisorStep(h) ==
    \/ SpawnUploader(h)
    \/ SupervisorThrows(h)
    \/ RuntimeTimeout(h)
    \/ ForceKillUploader(h)
    \/ InnerCleanupDeadline(h)
    \/ UploaderClose(h)
    \/ superviseUploadProcess(h)

Next ==
    \/ \E h \in Hosts :
           \/ \E i \in Ids : StartHost(h, i)
           \/ HostStep(h)
           \/ Interrupt(h)
           \/ LogError(h)
           \/ SupervisorStep(h)
           \/ UploaderLease(h)
           \/ \E code \in {"0", "1"} : UploaderExit(h, code)
           \/ UploaderKilled(h)
           \/ SupervisorKilled(h)
           \/ HostKilled(h)
    \/ ReleaseLease

Spec == Init /\ [][Next]_vars

(* The timers and continuations of a host run; nothing is assumed of the     *)
(* supervisor, of the uploader or of the signals they are sent.              *)
FairSpec == Spec /\ \A h \in Hosts : WF_vars(HostStep(h))

(***************************************************************************)
(* Properties                                                              *)
(***************************************************************************)
WindowRuns(h) == SupUp(h) \/ UplUp(h)

(* Two windows never run at the same time, although no lock is taken before  *)
(* the spawn and hosts and supervisors may be killed: every host is in the   *)
(* process table before it looks there, and so are its descendants.          *)
OneWindowAtATime ==
    \A g, h \in Hosts : g # h => ~(WindowRuns(g) /\ WindowRuns(h))

(* A host that reports a completed cleanup leaves no process behind, not     *)
(* even an uploader whose supervisor was killed.                             *)
CleanMeansGone ==
    \A h \in Hosts :
        host[h].phase \in {"final", "written", "overrun", "done"} /\ Cleaned(h)
            => ~WindowRuns(h)

(* A durable success is earned: the uploader ended with exit code 0, every   *)
(* process of the window is gone, the supervisor's record was read, and the  *)
(* authorization and the invocation are on disk.                             *)
SuccessIsEarned ==
    \A i \in Ids :
        dir[i].result = "CHILD_SUCCEEDED" =>
            /\ dir[i].authorization /\ dir[i].invocation
            /\ \E h \in Hosts : /\ host[h].id = i
                               /\ sup[h].out = "EXITED" /\ upl[h].code = "0"
                               /\ ~WindowRuns(h)

(* A supervisor that reports a timeout before the lease, and a completed     *)
(* cleanup, is right for good: its uploader takes no lease afterwards.       *)
AbsentLeaseStaysAbsent ==
    \A h \in Hosts : sup[h].out = "ABSENT" /\ sup[h].cleaned => lease # h

(* A host ends, although neither the supervisor nor the uploader may react   *)
(* to any signal.                                                            *)
HostEnds == \A h \in Hosts : HostUp(h) ~> ~HostUp(h)

===============================================================================
