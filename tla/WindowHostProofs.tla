---------------------------- MODULE WindowHostProofs ---------------------------
(***************************************************************************)
(* Theorems about WindowHost, for any number of hosts and execution ids,   *)
(* on either platform and with every fault.                                *)
(***************************************************************************)
EXTENDS WindowHost, TLAPS

Early == {"off", "verify", "reserve", "authorize", "revalidate", "spawn"}

Waiting == {"child", "closing"}

Late == {"final", "written", "overrun"}

Verdicts ==
    {"none", "MANIFEST_REJECTED", "EXECUTION_ID_CONSUMED", "PERSISTENCE_FAILED",
     "FINALIZATION_TIMEOUT", "CLEANUP_FAILED", "INTERRUPTED", "OUTER_TIMEOUT",
     "CHILD_SPAWN_FAILED", "INNER_TERMINAL_BAD", "CHILD_NONZERO", "CHILD_SUCCEEDED"}

HostRecord ==
    [phase : Early \cup Waiting \cup Late \cup {"done", "dead"},
     id : Ids \cup {None}, platform : {"posix", "win32"},
     spawned : BOOLEAN, failed : BOOLEAN, closed : BOOLEAN,
     term : {"none", "term", "force", "over"}, why : {"none", "timeout", "interrupt", "persistence"},
     lost : BOOLEAN, expired : BOOLEAN, cleaned : BOOLEAN, late : BOOLEAN,
     verdict : Verdicts]

Signals == {"none", "TERM", "KILL"}

Codes == {"none", "0", "1", "signal"}

SupRecord ==
    [st : {"none", "up", "dead"}, sig : Signals,
     stage : {"start", "wait", "term", "kill", "settled"}, timedOut : BOOLEAN,
     cleaned : BOOLEAN, out : {"none", "EXITED", "ACTIVE", "ABSENT"}, code : Codes]

UplRecord == [st : {"none", "up", "dead"}, sig : Signals, leased : BOOLEAN, code : Codes]

DirRecord ==
    [made : BOOLEAN, authorization : BOOLEAN, invocation : BOOLEAN, result : Verdicts]

HostTyped == host \in [Hosts -> HostRecord]

ProcTyped == sup \in [Hosts -> SupRecord] /\ upl \in [Hosts -> UplRecord]

DirTyped == lease \in Hosts \cup {None} /\ dir \in [Ids -> DirRecord]

-------------------------------------------------------------------------------
(* A signal changes nothing else of a process.                               *)
OnlySignals ==
    \A g \in Hosts :
        /\ sup'[g].st = sup[g].st /\ sup'[g].stage = sup[g].stage
        /\ sup'[g].out = sup[g].out /\ sup'[g].code = sup[g].code
        /\ sup'[g].cleaned => sup[g].cleaned
        /\ upl'[g].st = upl[g].st /\ upl'[g].code = upl[g].code

OthersStay(h) ==
    host' = [g \in Hosts |-> host'[g]] /\ \A g \in Hosts \ {h} : host'[g] = host[g]

LEMMA TreeEffect ==
    ASSUME ProcTyped, NEW h \in Hosts, NEW s \in {"TERM", "KILL"}, terminateOwnedTree(h, s)
    PROVE  ProcTyped' /\ OnlySignals
<1>1. sup' \in [Hosts -> SupRecord]
  BY DEF ProcTyped, terminateOwnedTree, SupRecord, Signals
<1>2. upl' \in [Hosts -> UplRecord]
  BY DEF ProcTyped, terminateOwnedTree, UplRecord, Signals
<1>3. \A g \in Hosts :
        /\ sup'[g].st = sup[g].st /\ sup'[g].stage = sup[g].stage
        /\ sup'[g].out = sup[g].out /\ sup'[g].code = sup[g].code
        /\ sup'[g].cleaned => sup[g].cleaned
  BY DEF ProcTyped, terminateOwnedTree, SupRecord
<1>4. \A g \in Hosts : upl'[g].st = upl[g].st /\ upl'[g].code = upl[g].code
  BY DEF ProcTyped, terminateOwnedTree, UplRecord
<1>. QED  BY <1>1, <1>2, <1>3, <1>4 DEF ProcTyped, OnlySignals

LEMMA NoSignal ==
    ASSUME ProcTyped, UNCHANGED <<sup, upl>>
    PROVE  ProcTyped' /\ OnlySignals
BY DEF ProcTyped, OnlySignals

LEMMA TerminatingEffect ==
    ASSUME NEW r \in HostRecord, NEW why \in {"timeout", "interrupt", "persistence"},
           NEW q, q = Terminating(r, why)
    PROVE  /\ q \in HostRecord
           /\ q.phase = r.phase /\ q.id = r.id
           /\ q.spawned <=> r.spawned
           /\ q.failed <=> r.failed
           /\ q.cleaned <=> r.cleaned
           /\ q.lost <=> r.lost
BY DEF Terminating, HostRecord

(* What the invariant needs to know of a step of runOwnedHostChild while it  *)
(* waits for the child: the records of the processes stay but for signals,   *)
(* and the invocation is on disk unless its loss is recorded.                *)
WaitStep(h) ==
    /\ ProcTyped' /\ OnlySignals /\ UNCHANGED lease
    /\ OthersStay(h) /\ host'[h] \in HostRecord
    /\ host[h].phase \in Waiting
    /\ host'[h].phase \in Waiting \cup {"final"}
    /\ host'[h].phase = "child" => host[h].phase = "child"
    /\ host'[h].id = host[h].id
    /\ host'[h].cleaned => host[h].cleaned
    /\ host[h].failed => host'[h].failed
    /\ \/ /\ UNCHANGED dir
          /\ host[h].spawned => host'[h].spawned
          /\ host'[h].spawned /\ ~host'[h].lost => host[h].spawned /\ ~host[h].lost
       \/ /\ ~host[h].failed
          /\ dir' = [dir EXCEPT ![host[h].id].invocation = TRUE]
          /\ host'[h].spawned

LEMMA BeginTerminationWaits ==
    ASSUME HostTyped, ProcTyped, NEW h \in Hosts, NEW why \in {"timeout", "interrupt", "persistence"},
           beginTermination(h, why)
    PROVE  WaitStep(h)
<1>1. host[h] \in HostRecord
  BY DEF HostTyped
<1>2. host'[h] = Terminating(host[h], why) /\ OthersStay(h)
  BY DEF beginTermination, HostTyped, OthersStay
<1>3. host[h].phase \in Waiting /\ UNCHANGED <<lease, dir>>
  BY DEF beginTermination, Waiting
<1>4. terminateOwnedTree(h, "TERM") \/ UNCHANGED <<sup, upl>>
  BY DEF beginTermination
<1>5. ProcTyped' /\ OnlySignals
  BY <1>4, TreeEffect, NoSignal
<1>6. /\ host'[h] \in HostRecord
      /\ host'[h].phase = host[h].phase /\ host'[h].id = host[h].id
      /\ host'[h].spawned <=> host[h].spawned
      /\ host'[h].failed <=> host[h].failed
      /\ host'[h].cleaned <=> host[h].cleaned
      /\ host'[h].lost <=> host[h].lost
  BY <1>1, <1>2, TerminatingEffect
<1>. QED  BY <1>2, <1>3, <1>5, <1>6 DEF WaitStep

LEMMA LogErrorWaits ==
    ASSUME HostTyped, ProcTyped, NEW h \in Hosts, LogError(h)
    PROVE  WaitStep(h)
<1>. DEFINE q == Terminating(host[h], "persistence")
<1>1. host[h] \in HostRecord
  BY DEF HostTyped
<1>2. host'[h] = [q EXCEPT !.lost = TRUE] /\ OthersStay(h)
  BY DEF LogError, HostTyped, OthersStay
<1>3. host[h].phase \in Waiting /\ UNCHANGED <<lease, dir>>
  BY DEF LogError, Waiting
<1>4. ProcTyped' /\ OnlySignals
  <2>1. terminateOwnedTree(h, "TERM") \/ UNCHANGED <<sup, upl>>
    BY DEF LogError
  <2>. QED  BY <2>1, TreeEffect, NoSignal
<1>5. /\ q \in HostRecord
      /\ q.phase = host[h].phase /\ q.id = host[h].id
      /\ q.spawned <=> host[h].spawned
      /\ q.failed <=> host[h].failed
      /\ q.cleaned <=> host[h].cleaned
  BY <1>1, TerminatingEffect
<1>. HIDE DEF q
<1>6. /\ host'[h] \in HostRecord
      /\ host'[h].phase = host[h].phase /\ host'[h].id = host[h].id
      /\ host'[h].spawned <=> host[h].spawned
      /\ host'[h].failed <=> host[h].failed
      /\ host'[h].cleaned <=> host[h].cleaned
      /\ host'[h].lost
  BY <1>2, <1>5 DEF HostRecord
<1>. QED  BY <1>2, <1>3, <1>4, <1>6 DEF WaitStep

LEMMA OnSpawnWaits ==
    ASSUME HostTyped, ProcTyped, NEW h \in Hosts, OnSpawn(h)
    PROVE  WaitStep(h)
<1>1. host[h] \in HostRecord
  BY DEF HostTyped
<1>2. host[h].phase \in Waiting /\ ~host[h].failed /\ UNCHANGED lease
  BY DEF OnSpawn, Waiting
<1>3. CASE /\ host' = [host EXCEPT ![h].spawned = TRUE]
           /\ dir' = [dir EXCEPT ![host[h].id].invocation = TRUE]
           /\ UNCHANGED <<sup, upl>>
  <2>1. ProcTyped' /\ OnlySignals
    BY <1>3, NoSignal
  <2>2. host'[h] = [host[h] EXCEPT !.spawned = TRUE] /\ OthersStay(h)
    BY <1>3 DEF HostTyped, OthersStay
  <2>3. /\ host'[h] \in HostRecord
        /\ host'[h].phase = host[h].phase /\ host'[h].id = host[h].id
        /\ host'[h].spawned
        /\ host'[h].failed <=> host[h].failed
        /\ host'[h].cleaned <=> host[h].cleaned
    BY <1>1, <2>2 DEF HostRecord
  <2>. QED  BY <1>2, <1>3, <2>1, <2>2, <2>3 DEF WaitStep
<1>4. CASE /\ host' = [host EXCEPT ![h] =
                    [Terminating(@, "persistence") EXCEPT !.spawned = TRUE, !.lost = TRUE]]
           /\ terminateOwnedTree(h, "TERM") \/ UNCHANGED <<sup, upl>>
           /\ UNCHANGED dir
  <2>. DEFINE q == Terminating(host[h], "persistence")
  <2>1. ProcTyped' /\ OnlySignals
    BY <1>4, TreeEffect, NoSignal
  <2>2. host'[h] = [q EXCEPT !.spawned = TRUE, !.lost = TRUE] /\ OthersStay(h)
    BY <1>4 DEF HostTyped, OthersStay
  <2>3. /\ q \in HostRecord
        /\ q.phase = host[h].phase /\ q.id = host[h].id
        /\ q.failed <=> host[h].failed
        /\ q.cleaned <=> host[h].cleaned
    BY <1>1, TerminatingEffect
  <2>. HIDE DEF q
  <2>4. /\ host'[h] \in HostRecord
        /\ host'[h].phase = host[h].phase /\ host'[h].id = host[h].id
        /\ host'[h].spawned /\ host'[h].lost
        /\ host'[h].failed <=> host[h].failed
        /\ host'[h].cleaned <=> host[h].cleaned
    BY <2>2, <2>3 DEF HostRecord
  <2>. QED  BY <1>2, <1>4, <2>1, <2>2, <2>4 DEF WaitStep
<1>5. \/ /\ host' = [host EXCEPT ![h].spawned = TRUE]
         /\ dir' = [dir EXCEPT ![host[h].id].invocation = TRUE]
         /\ UNCHANGED <<sup, upl>>
      \/ /\ host' = [host EXCEPT ![h] =
                    [Terminating(@, "persistence") EXCEPT !.spawned = TRUE, !.lost = TRUE]]
         /\ terminateOwnedTree(h, "TERM") \/ UNCHANGED <<sup, upl>>
         /\ UNCHANGED dir
  BY Zenon DEF OnSpawn
<1>. QED  BY <1>3, <1>4, <1>5

LEMMA ForceKillWaits ==
    ASSUME HostTyped, ProcTyped, NEW h \in Hosts, ForceKill(h)
    PROVE  WaitStep(h)
<1>1. host[h] \in HostRecord
  BY DEF HostTyped
<1>2. host'[h] = [host[h] EXCEPT !.term = "force"] /\ OthersStay(h)
  BY DEF ForceKill, HostTyped, OthersStay
<1>3. host[h].phase \in Waiting /\ UNCHANGED <<lease, dir>>
  BY DEF ForceKill, Waiting
<1>4. ProcTyped' /\ OnlySignals
  <2>1. terminateOwnedTree(h, "KILL") \/ UNCHANGED <<sup, upl>>
    BY DEF ForceKill
  <2>. QED  BY <2>1, TreeEffect, NoSignal
<1>5. /\ host'[h] \in HostRecord
      /\ host'[h].phase = host[h].phase /\ host'[h].id = host[h].id
      /\ host'[h].spawned <=> host[h].spawned
      /\ host'[h].failed <=> host[h].failed
      /\ host'[h].cleaned <=> host[h].cleaned
      /\ host'[h].lost <=> host[h].lost
  BY <1>1, <1>2 DEF HostRecord
<1>. QED  BY <1>2, <1>3, <1>4, <1>5 DEF WaitStep

LEMMA CleanupDeadlineWaits ==
    ASSUME HostTyped, ProcTyped, NEW h \in Hosts, CleanupDeadline(h)
    PROVE  WaitStep(h)
<1>1. host[h] \in HostRecord
  BY DEF HostTyped
<1>2. host' = [host EXCEPT ![h] = [@ EXCEPT !.phase = "closing", !.expired = TRUE]]
  BY <1>1 DEF CleanupDeadline, HostTyped, HostRecord
<1>3. host'[h] = [host[h] EXCEPT !.phase = "closing", !.expired = TRUE] /\ OthersStay(h)
  BY <1>2 DEF HostTyped, OthersStay
<1>4. host[h].phase \in Waiting /\ UNCHANGED <<sup, upl, lease, dir>>
  BY DEF CleanupDeadline, Waiting
<1>5. ProcTyped' /\ OnlySignals
  BY <1>4, NoSignal
<1>6. host'[h] \in HostRecord
  BY <1>1, <1>3 DEF HostRecord, Waiting, Late
<1>7. /\ host'[h].phase = "closing" /\ host'[h].id = host[h].id
      /\ host'[h].spawned <=> host[h].spawned
      /\ host'[h].failed <=> host[h].failed
      /\ host'[h].cleaned <=> host[h].cleaned
      /\ host'[h].lost <=> host[h].lost
  BY <1>1, <1>3 DEF HostRecord
<1>8. host'[h].phase \in Waiting \cup {"final"}
  BY <1>7 DEF Waiting
<1>. QED  BY <1>3, <1>4, <1>5, <1>6, <1>7, <1>8 DEF WaitStep

LEMMA LogsClosedWaits ==
    ASSUME HostTyped, ProcTyped, NEW h \in Hosts, LogsClosed(h)
    PROVE  WaitStep(h)
<1>1. host[h] \in HostRecord
  BY DEF HostTyped
<1>2. PICK late \in BOOLEAN : host' = [host EXCEPT ![h] = [@ EXCEPT !.phase = "final", !.late = late]]
  BY <1>1 DEF LogsClosed, HostTyped, HostRecord
<1>3. host'[h] = [host[h] EXCEPT !.phase = "final", !.late = late] /\ OthersStay(h)
  BY <1>2 DEF HostTyped, OthersStay
<1>4. host[h].phase \in Waiting /\ UNCHANGED <<sup, upl, lease, dir>>
  BY DEF LogsClosed, Waiting
<1>5. ProcTyped' /\ OnlySignals
  BY <1>4, NoSignal
<1>6. host'[h] \in HostRecord
  BY <1>1, <1>3 DEF HostRecord, Waiting, Late
<1>7. /\ host'[h].phase = "final" /\ host'[h].id = host[h].id
      /\ host'[h].spawned <=> host[h].spawned
      /\ host'[h].failed <=> host[h].failed
      /\ host'[h].cleaned <=> host[h].cleaned
      /\ host'[h].lost <=> host[h].lost
  BY <1>1, <1>3 DEF HostRecord
<1>8. host'[h].phase \in Waiting \cup {"final"}
  BY <1>7 DEF Waiting
<1>. QED  BY <1>3, <1>4, <1>5, <1>6, <1>7, <1>8 DEF WaitStep

-------------------------------------------------------------------------------
(* The processes of a window: what is there before the spawn, and what the   *)
(* records of the dead say.                                                  *)
ProcessInv ==
    \A h \in Hosts :
        /\ host[h].phase \in Early => sup[h].st = "none"
        /\ sup[h].st = "none" => sup[h].stage = "start"
        /\ sup[h].st # "dead" /\ sup[h].stage = "start" => upl[h].st = "none"
        /\ sup[h].st # "dead" => sup[h].out = "none" /\ sup[h].code = "none"
        /\ upl[h].st # "dead" => upl[h].code = "none"
        /\ sup[h].cleaned => upl[h].st = "dead"
        /\ sup[h].code = "0" => sup[h].out = "EXITED" /\ upl[h].code = "0"

(* A host that knows of a completed cleanup has nothing left that runs.      *)
CleanupInv ==
    \A h \in Hosts : host[h].cleaned =>
        ~WindowRuns(h) /\ host[h].phase \notin Early \cup {"child"}

(* The processes of a window do one step of their own.                       *)
ProcessStep(h) ==
    \/ SupervisorStep(h)
    \/ UploaderLease(h)
    \/ \E code \in {"0", "1"} : UploaderExit(h, code)
    \/ UploaderKilled(h)
    \/ SupervisorKilled(h)

LEMMA SupTypeStep ==
    ASSUME sup \in [Hosts -> SupRecord], NEW h \in Hosts, ProcessStep(h)
    PROVE  sup' \in [Hosts -> SupRecord]
<1>. USE DEF SupRecord, Signals, Codes
<1>1. ASSUME SpawnUploader(h)  PROVE sup' \in [Hosts -> SupRecord]
  BY <1>1 DEF SpawnUploader
<1>2. ASSUME SupervisorThrows(h)  PROVE sup' \in [Hosts -> SupRecord]
  BY <1>2 DEF SupervisorThrows, SupEnds, NewSup
<1>3. ASSUME RuntimeTimeout(h)  PROVE sup' \in [Hosts -> SupRecord]
  <2>1. sup' = [sup EXCEPT ![h] = [@ EXCEPT !.stage = "term", !.timedOut = TRUE]]
    BY <1>3 DEF RuntimeTimeout
  <2>2. sup[h] \in SupRecord
    OBVIOUS
  <2>3. [sup[h] EXCEPT !.stage = "term", !.timedOut = TRUE] \in SupRecord
    BY <2>2
  <2>. QED  BY <2>1, <2>3
<1>4. ASSUME ForceKillUploader(h)  PROVE sup' \in [Hosts -> SupRecord]
  BY <1>4 DEF ForceKillUploader, signalPosixProcessTree, UplUp
<1>5. ASSUME InnerCleanupDeadline(h)  PROVE sup' \in [Hosts -> SupRecord]
  BY <1>5 DEF InnerCleanupDeadline
<1>6. ASSUME UploaderClose(h)  PROVE sup' \in [Hosts -> SupRecord]
  <2>1. sup' = [sup EXCEPT ![h] = [@ EXCEPT !.stage = "settled", !.cleaned = TRUE]]
    BY <1>6 DEF UploaderClose
  <2>2. sup[h] \in SupRecord
    OBVIOUS
  <2>3. [sup[h] EXCEPT !.stage = "settled", !.cleaned = TRUE] \in SupRecord
    BY <2>2
  <2>. QED  BY <2>1, <2>3
<1>7. ASSUME superviseUploadProcess(h)  PROVE sup' \in [Hosts -> SupRecord]
  BY <1>7 DEF superviseUploadProcess, SupEnds, NewSup
<1>8. ASSUME UploaderLease(h)  PROVE sup' \in [Hosts -> SupRecord]
  BY <1>8 DEF UploaderLease, UplEnds, NewUpl
<1>9. ASSUME NEW code \in {"0", "1"}, UploaderExit(h, code)  PROVE sup' \in [Hosts -> SupRecord]
  BY <1>9 DEF UploaderExit, UplEnds, NewUpl
<1>10. ASSUME UploaderKilled(h)  PROVE sup' \in [Hosts -> SupRecord]
  BY <1>10 DEF UploaderKilled, UplEnds, NewUpl, UplUp
<1>11. ASSUME SupervisorKilled(h)  PROVE sup' \in [Hosts -> SupRecord]
  BY <1>11 DEF SupervisorKilled, SupEnds, NewSup, SupUp
<1>. QED
  BY <1>1, <1>2, <1>3, <1>4, <1>5, <1>6, <1>7, <1>8, <1>9, <1>10, <1>11 DEF ProcessStep, SupervisorStep

LEMMA UplTypeStep ==
    ASSUME upl \in [Hosts -> UplRecord], NEW h \in Hosts, ProcessStep(h)
    PROVE  upl' \in [Hosts -> UplRecord]
<1>. USE DEF UplRecord, Signals, Codes
<1>1. ASSUME SpawnUploader(h)  PROVE upl' \in [Hosts -> UplRecord]
  BY <1>1 DEF SpawnUploader
<1>2. ASSUME SupervisorThrows(h)  PROVE upl' \in [Hosts -> UplRecord]
  BY <1>2 DEF SupervisorThrows, SupEnds, NewSup
<1>3. ASSUME RuntimeTimeout(h)  PROVE upl' \in [Hosts -> UplRecord]
  BY <1>3 DEF RuntimeTimeout, signalPosixProcessTree, UplUp
<1>4. ASSUME ForceKillUploader(h)  PROVE upl' \in [Hosts -> UplRecord]
  BY <1>4 DEF ForceKillUploader, signalPosixProcessTree, UplUp
<1>5. ASSUME InnerCleanupDeadline(h)  PROVE upl' \in [Hosts -> UplRecord]
  BY <1>5 DEF InnerCleanupDeadline
<1>6. ASSUME UploaderClose(h)  PROVE upl' \in [Hosts -> UplRecord]
  BY <1>6 DEF UploaderClose
<1>7. ASSUME superviseUploadProcess(h)  PROVE upl' \in [Hosts -> UplRecord]
  BY <1>7 DEF superviseUploadProcess, SupEnds, NewSup
<1>8. ASSUME UploaderLease(h)  PROVE upl' \in [Hosts -> UplRecord]
  <2>1. CASE upl' = [upl EXCEPT ![h].leased = TRUE]
    BY <2>1
  <2>2. CASE UplEnds(h, "1")
    BY <2>2 DEF UplEnds, NewUpl
  <2>. QED  BY <1>8, <2>1, <2>2 DEF UploaderLease
<1>9. ASSUME NEW code \in {"0", "1"}, UploaderExit(h, code)  PROVE upl' \in [Hosts -> UplRecord]
  BY <1>9 DEF UploaderExit, UplEnds, NewUpl
<1>10. ASSUME UploaderKilled(h)  PROVE upl' \in [Hosts -> UplRecord]
  BY <1>10 DEF UploaderKilled, UplEnds, NewUpl, UplUp
<1>11. ASSUME SupervisorKilled(h)  PROVE upl' \in [Hosts -> UplRecord]
  BY <1>11 DEF SupervisorKilled, SupEnds, NewSup, SupUp
<1>. QED
  BY <1>1, <1>2, <1>3, <1>4, <1>5, <1>6, <1>7, <1>8, <1>9, <1>10, <1>11 DEF ProcessStep, SupervisorStep

LEMMA ProcessInvStep ==
    ASSUME ProcTyped, ProcessInv, NEW h \in Hosts, ProcessStep(h)
    PROVE  ProcessInv'
<1>. USE DEF ProcTyped, SupRecord, UplRecord, ProcessInv, Runs
<1>1. ASSUME SpawnUploader(h)  PROVE ProcessInv'
  BY <1>1 DEF SpawnUploader
<1>2. ASSUME SupervisorThrows(h)  PROVE ProcessInv'
  BY <1>2 DEF SupervisorThrows, SupEnds, NewSup
<1>3. ASSUME RuntimeTimeout(h)  PROVE ProcessInv'
  BY <1>3 DEF RuntimeTimeout, signalPosixProcessTree, UplUp
<1>4. ASSUME ForceKillUploader(h)  PROVE ProcessInv'
  BY <1>4 DEF ForceKillUploader, signalPosixProcessTree, UplUp
<1>5. ASSUME InnerCleanupDeadline(h)  PROVE ProcessInv'
  BY <1>5 DEF InnerCleanupDeadline
<1>6. ASSUME UploaderClose(h)  PROVE ProcessInv'
  BY <1>6 DEF UploaderClose
<1>7. ASSUME superviseUploadProcess(h)  PROVE ProcessInv'
  BY <1>7 DEF superviseUploadProcess, SupEnds, NewSup
<1>8. ASSUME UploaderLease(h)  PROVE ProcessInv'
  <2>1. upl[h].st = "up" /\ UNCHANGED <<host, sup>>
    BY <1>8 DEF UploaderLease
  <2>2. CASE upl' = [upl EXCEPT ![h].leased = TRUE]
    BY <2>1, <2>2
  <2>3. CASE UplEnds(h, "1")
    BY <2>1, <2>3 DEF UplEnds, NewUpl
  <2>. QED  BY <1>8, <2>2, <2>3 DEF UploaderLease
<1>9. ASSUME NEW code \in {"0", "1"}, UploaderExit(h, code)  PROVE ProcessInv'
  BY <1>9 DEF UploaderExit, UplEnds, NewUpl
<1>10. ASSUME UploaderKilled(h)  PROVE ProcessInv'
  BY <1>10 DEF UploaderKilled, UplEnds, NewUpl, UplUp
<1>11. ASSUME SupervisorKilled(h)  PROVE ProcessInv'
  BY <1>11 DEF SupervisorKilled, SupEnds, NewSup, SupUp
<1>. QED
  BY <1>1, <1>2, <1>3, <1>4, <1>5, <1>6, <1>7, <1>8, <1>9, <1>10, <1>11 DEF ProcessStep, SupervisorStep

LEMMA CleanupInvStep ==
    ASSUME ProcTyped, CleanupInv, NEW h \in Hosts, ProcessStep(h)
    PROVE  CleanupInv'
<1>. USE DEF ProcTyped, SupRecord, UplRecord, CleanupInv, Runs, WindowRuns, SupUp, UplUp
<1>1. ASSUME SpawnUploader(h)  PROVE CleanupInv'
  BY <1>1 DEF SpawnUploader
<1>2. ASSUME SupervisorThrows(h)  PROVE CleanupInv'
  BY <1>2 DEF SupervisorThrows, SupEnds, NewSup
<1>3. ASSUME RuntimeTimeout(h)  PROVE CleanupInv'
  BY <1>3 DEF RuntimeTimeout, signalPosixProcessTree, UplUp
<1>4. ASSUME ForceKillUploader(h)  PROVE CleanupInv'
  BY <1>4 DEF ForceKillUploader, signalPosixProcessTree, UplUp
<1>5. ASSUME InnerCleanupDeadline(h)  PROVE CleanupInv'
  BY <1>5 DEF InnerCleanupDeadline
<1>6. ASSUME UploaderClose(h)  PROVE CleanupInv'
  BY <1>6 DEF UploaderClose
<1>7. ASSUME superviseUploadProcess(h)  PROVE CleanupInv'
  BY <1>7 DEF superviseUploadProcess, SupEnds, NewSup
<1>8. ASSUME UploaderLease(h)  PROVE CleanupInv'
  BY <1>8 DEF UploaderLease, UplEnds, NewUpl
<1>9. ASSUME NEW code \in {"0", "1"}, UploaderExit(h, code)  PROVE CleanupInv'
  BY <1>9 DEF UploaderExit, UplEnds, NewUpl
<1>10. ASSUME UploaderKilled(h)  PROVE CleanupInv'
  BY <1>10 DEF UploaderKilled, UplEnds, NewUpl, UplUp
<1>11. ASSUME SupervisorKilled(h)  PROVE CleanupInv'
  BY <1>11 DEF SupervisorKilled, SupEnds, NewSup, SupUp
<1>. QED
  BY <1>1, <1>2, <1>3, <1>4, <1>5, <1>6, <1>7, <1>8, <1>9, <1>10, <1>11 DEF ProcessStep, SupervisorStep

LEMMA AbsentStep ==
    ASSUME ProcTyped, ProcessInv, AbsentLeaseStaysAbsent, NEW h \in Hosts, ProcessStep(h)
    PROVE  AbsentLeaseStaysAbsent'
<1>. USE DEF ProcTyped, SupRecord, UplRecord, ProcessInv, AbsentLeaseStaysAbsent, Runs
<1>1. ASSUME SpawnUploader(h)  PROVE AbsentLeaseStaysAbsent'
  BY <1>1 DEF SpawnUploader
<1>2. ASSUME SupervisorThrows(h)  PROVE AbsentLeaseStaysAbsent'
  BY <1>2 DEF SupervisorThrows, SupEnds, NewSup
<1>3. ASSUME RuntimeTimeout(h)  PROVE AbsentLeaseStaysAbsent'
  BY <1>3 DEF RuntimeTimeout, signalPosixProcessTree, UplUp
<1>4. ASSUME ForceKillUploader(h)  PROVE AbsentLeaseStaysAbsent'
  BY <1>4 DEF ForceKillUploader, signalPosixProcessTree, UplUp
<1>5. ASSUME InnerCleanupDeadline(h)  PROVE AbsentLeaseStaysAbsent'
  BY <1>5 DEF InnerCleanupDeadline
<1>6. ASSUME UploaderClose(h)  PROVE AbsentLeaseStaysAbsent'
  BY <1>6 DEF UploaderClose
<1>7. ASSUME superviseUploadProcess(h)  PROVE AbsentLeaseStaysAbsent'
  <2>1. UNCHANGED lease /\ \A g \in Hosts \ {h} : sup'[g] = sup[g]
    BY <1>7 DEF superviseUploadProcess, SupEnds
  <2>2. sup'[h].out = "ABSENT" => lease = None
    BY <1>7 DEF superviseUploadProcess, SupEnds, NewSup
  <2>. QED  BY <2>1, <2>2, WindowHostAssumption
<1>8. ASSUME UploaderLease(h)  PROVE AbsentLeaseStaysAbsent'
  BY <1>8 DEF UploaderLease, UplEnds, NewUpl
<1>9. ASSUME NEW code \in {"0", "1"}, UploaderExit(h, code)  PROVE AbsentLeaseStaysAbsent'
  BY <1>9 DEF UploaderExit, UplEnds, NewUpl
<1>10. ASSUME UploaderKilled(h)  PROVE AbsentLeaseStaysAbsent'
  BY <1>10 DEF UploaderKilled, UplEnds, NewUpl, UplUp
<1>11. ASSUME SupervisorKilled(h)  PROVE AbsentLeaseStaysAbsent'
  BY <1>11 DEF SupervisorKilled, SupEnds, NewSup, SupUp
<1>. QED
  BY <1>1, <1>2, <1>3, <1>4, <1>5, <1>6, <1>7, <1>8, <1>9, <1>10, <1>11 DEF ProcessStep, SupervisorStep

-------------------------------------------------------------------------------
(* What the classifier reads of a host that is still at work.                *)
EvidenceInv ==
    \A h \in Hosts :
        /\ host[h].phase # "off" => host[h].id \in Ids
        /\ host[h].phase \in {"revalidate", "spawn"} \cup Waiting \cup Late =>
              dir[host[h].id].authorization
        /\ host[h].phase \in Early => ~host[h].spawned /\ ~host[h].cleaned /\ ~host[h].lost
        /\ host[h].phase \in Waiting \cup Late =>
              /\ host[h].spawned /\ ~host[h].lost => dir[host[h].id].invocation
              /\ host[h].cleaned => host[h].spawned \/ host[h].failed

(* What a success says of the window of h.                                   *)
Earned(h) ==
    /\ dir[host[h].id].authorization /\ dir[host[h].id].invocation
    /\ sup[h].out = "EXITED" /\ upl[h].code = "0" /\ ~WindowRuns(h)

VerdictInv ==
    \A h \in Hosts :
        host[h].phase \in {"written", "overrun"} /\ host[h].verdict = "CHILD_SUCCEEDED"
            => Earned(h)

DirGrows ==
    \A i \in Ids : /\ dir[i].authorization => dir'[i].authorization
                   /\ dir[i].invocation => dir'[i].invocation

(* A step of a host before its spawn.                                        *)
EarlyStep(h) ==
    /\ UNCHANGED <<sup, upl, lease>> /\ OthersStay(h) /\ host'[h] \in HostRecord
    /\ host[h].phase \in Early \ {"spawn"}
    /\ host'[h].id \in Ids
    /\ host[h].phase # "off" => host'[h].id = host[h].id
    /\ \/ /\ host[h].phase = "off" /\ host'[h].phase = "verify"
       \/ /\ host[h].phase = "verify" /\ host'[h].phase = "reserve" /\ ~RetainedProcess(h)
       \/ /\ host[h].phase = "reserve" /\ host'[h].phase = "authorize"
       \/ /\ host[h].phase = "authorize" /\ host'[h].phase = "revalidate"
          /\ dir'[host[h].id].authorization
       \/ /\ host[h].phase = "revalidate" /\ host'[h].phase = "spawn"
       \/ /\ host[h].phase # "off" /\ host'[h].phase = "done"
    /\ host'[h].spawned => host[h].spawned
    /\ host'[h].cleaned => host[h].cleaned
    /\ host'[h].lost => host[h].lost
    /\ DirGrows
    /\ \A i \in Ids : dir'[i].result \in {dir[i].result, "MANIFEST_REJECTED"}

LEMMA EndedEffect ==
    ASSUME HostTyped, NEW h \in Hosts, NEW v \in Verdicts, Return(h, v)
    PROVE  /\ OthersStay(h) /\ host'[h] \in HostRecord
           /\ host'[h].phase = "done" /\ host'[h].id = host[h].id
           /\ ~host'[h].spawned /\ ~host'[h].lost
           /\ host'[h].cleaned => host[h].cleaned
<1>. DEFINE c == host[h].cleaned /\ ~host[h].expired
            q == [NewHost EXCEPT !.phase = "done", !.id = host[h].id, !.verdict = v, !.cleaned = c]
<1>1. host[h] \in HostRecord
  BY DEF HostTyped
<1>2. host'[h] = q /\ OthersStay(h)
  BY DEF Return, Ended, HostTyped, OthersStay
<1>3. c \in BOOLEAN /\ (c => host[h].cleaned)
  OBVIOUS
<1>. HIDE DEF c
<1>4. q \in HostRecord
  BY <1>1, <1>3 DEF HostRecord, NewHost
<1>5. /\ q.phase = "done" /\ q.id = host[h].id /\ ~q.spawned /\ ~q.lost
      /\ q.cleaned => c
  BY DEF NewHost
<1>. QED  BY <1>2, <1>3, <1>4, <1>5

(* A host that moves on before the spawn keeps everything but its phase.     *)
LEMMA PhaseEffect ==
    ASSUME HostTyped, NEW h \in Hosts, NEW p \in Early, host' = [host EXCEPT ![h].phase = p]
    PROVE  /\ OthersStay(h) /\ host'[h] \in HostRecord
           /\ host'[h].phase = p /\ host'[h].id = host[h].id
           /\ host'[h].spawned <=> host[h].spawned
           /\ host'[h].cleaned <=> host[h].cleaned
           /\ host'[h].lost <=> host[h].lost
<1>1. host[h] \in HostRecord
  BY DEF HostTyped
<1>2. host'[h] = [host[h] EXCEPT !.phase = p] /\ OthersStay(h)
  BY DEF HostTyped, OthersStay
<1>. QED  BY <1>1, <1>2 DEF HostRecord

LEMMA DirStays ==
    ASSUME UNCHANGED dir
    PROVE  DirGrows /\ \A i \in Ids : dir'[i].result \in {dir[i].result, "MANIFEST_REJECTED"}
BY DEF DirGrows

LEMMA EarlyStepOf ==
    ASSUME HostTyped, DirTyped, EvidenceInv, NEW h \in Hosts,
           \/ \E i \in Ids : StartHost(h, i)
           \/ verifyAuthorizationManifest(h) \/ ConsumeId(h)
           \/ WriteAuthorization(h) \/ revalidateManifest(h)
    PROVE  EarlyStep(h)
<1>0. host[h] \in HostRecord /\ (host[h].phase # "off" => host[h].id \in Ids)
  BY DEF HostTyped, EvidenceInv
<1>1. ASSUME NEW i \in Ids, StartHost(h, i)  PROVE EarlyStep(h)
  <2>1. /\ host[h].phase = "off" /\ UNCHANGED <<sup, upl, lease, dir>>
        /\ host'[h] = [host[h] EXCEPT !.phase = "verify", !.id = i] /\ OthersStay(h)
    BY <1>1 DEF StartHost, HostTyped, HostRecord, OthersStay
  <2>2. /\ host'[h] \in HostRecord /\ host'[h].phase = "verify" /\ host'[h].id = i
        /\ host'[h].spawned <=> host[h].spawned
        /\ host'[h].cleaned <=> host[h].cleaned
        /\ host'[h].lost <=> host[h].lost
    BY <1>0, <2>1 DEF HostRecord, Early
  <2>. QED  BY <2>1, <2>2, DirStays DEF EarlyStep, Early
<1>2. ASSUME NEW v \in Verdicts, Return(h, v), UNCHANGED <<sup, upl, lease>>,
             host[h].phase \in Early \ {"off", "spawn"}, DirGrows,
             \A i \in Ids : dir'[i].result \in {dir[i].result, "MANIFEST_REJECTED"}
      PROVE  EarlyStep(h)
  BY <1>0, <1>2, EndedEffect DEF EarlyStep, Early
<1>3. ASSUME NEW p \in Early, host' = [host EXCEPT ![h].phase = p], UNCHANGED <<sup, upl, lease>>,
             \/ host[h].phase = "verify" /\ p = "reserve" /\ ~RetainedProcess(h)
             \/ host[h].phase = "reserve" /\ p = "authorize"
             \/ host[h].phase = "authorize" /\ p = "revalidate" /\ dir'[host[h].id].authorization
             \/ host[h].phase = "revalidate" /\ p = "spawn",
             DirGrows,
             \A i \in Ids : dir'[i].result \in {dir[i].result, "MANIFEST_REJECTED"}
      PROVE  EarlyStep(h)
  <2>1. /\ OthersStay(h) /\ host'[h] \in HostRecord
        /\ host'[h].phase = p /\ host'[h].id = host[h].id
        /\ host'[h].spawned <=> host[h].spawned
        /\ host'[h].cleaned <=> host[h].cleaned
        /\ host'[h].lost <=> host[h].lost
    BY <1>3, PhaseEffect
  <2>. QED  BY <1>0, <1>3, <2>1 DEF EarlyStep, Early
<1>4. CASE verifyAuthorizationManifest(h)
  <2>1. host[h].phase = "verify" /\ UNCHANGED <<sup, upl, lease, dir>>
    BY <1>4 DEF verifyAuthorizationManifest
  <2>2. \/ ~RetainedProcess(h) /\ host' = [host EXCEPT ![h].phase = "reserve"]
        \/ Return(h, "MANIFEST_REJECTED")
    BY <1>4 DEF verifyAuthorizationManifest, ManifestHolds
  <2>. QED  BY <1>2, <1>3, <2>1, <2>2, DirStays DEF Early, Verdicts
<1>5. CASE ConsumeId(h)
  <2>1. host[h].phase = "reserve" /\ UNCHANGED <<sup, upl, lease>>
    BY <1>5 DEF ConsumeId
  <2>2. dir' = dir \/ dir' = [dir EXCEPT ![host[h].id].made = TRUE]
    BY <1>5 DEF ConsumeId
  <2>3. DirGrows /\ \A i \in Ids : dir'[i].result \in {dir[i].result, "MANIFEST_REJECTED"}
    BY <2>2 DEF DirGrows, DirTyped, DirRecord
  <2>4. \/ host' = [host EXCEPT ![h].phase = "authorize"]
        \/ Return(h, "EXECUTION_ID_CONSUMED") \/ Return(h, "PERSISTENCE_FAILED")
    BY <1>5 DEF ConsumeId
  <2>. QED  BY <1>2, <1>3, <2>1, <2>3, <2>4 DEF Early, Verdicts
<1>6. CASE WriteAuthorization(h)
  <2>1. host[h].phase = "authorize" /\ UNCHANGED <<sup, upl, lease>>
    BY <1>6 DEF WriteAuthorization
  <2>2. CASE /\ dir' = [dir EXCEPT ![host[h].id].authorization = TRUE]
             /\ host' = [host EXCEPT ![h].phase = "revalidate"]
    <3>1. /\ DirGrows /\ dir'[host[h].id].authorization
          /\ \A i \in Ids : dir'[i].result \in {dir[i].result, "MANIFEST_REJECTED"}
      BY <1>0, <2>1, <2>2 DEF DirGrows, DirTyped, DirRecord
    <3>. QED  BY <1>3, <2>1, <2>2, <3>1 DEF Early
  <2>3. CASE Return(h, "PERSISTENCE_FAILED") /\ UNCHANGED dir
    BY <1>2, <2>1, <2>3, DirStays DEF Early, Verdicts
  <2>. QED  BY <1>6, <2>2, <2>3 DEF WriteAuthorization
<1>7. CASE revalidateManifest(h)
  <2>1. host[h].phase = "revalidate" /\ UNCHANGED <<sup, upl, lease>>
    BY <1>7 DEF revalidateManifest
  <2>2. dir' = dir \/ dir' = [dir EXCEPT ![host[h].id].result = "MANIFEST_REJECTED"]
    BY <1>7 DEF revalidateManifest
  <2>3. DirGrows /\ \A i \in Ids : dir'[i].result \in {dir[i].result, "MANIFEST_REJECTED"}
    BY <2>2 DEF DirGrows, DirTyped, DirRecord
  <2>4. \/ host' = [host EXCEPT ![h].phase = "spawn"]
        \/ Return(h, "MANIFEST_REJECTED") \/ Return(h, "PERSISTENCE_FAILED")
    BY <1>7 DEF revalidateManifest
  <2>. QED  BY <1>2, <1>3, <2>1, <2>3, <2>4 DEF Early, Verdicts
<1>. QED  BY <1>1, <1>4, <1>5, <1>6, <1>7

-------------------------------------------------------------------------------
(* What the next record of the verdict may say, given the records so far.    *)
Justified(h, v) ==
    v = "CHILD_SUCCEEDED" =>
        \/ host[h].phase = "final" /\ classifyHostResult(h) = "CHILD_SUCCEEDED"
        \/ host[h].phase = "written" /\ host[h].verdict = "CHILD_SUCCEEDED"

(* A step that writes host-result.json.                                      *)
VerdictStep(h) ==
    /\ UNCHANGED <<sup, upl, lease>> /\ OthersStay(h) /\ host'[h] \in HostRecord
    /\ host[h].phase \in Late
    /\ host'[h].phase \in {"written", "overrun", "done"}
    /\ host'[h].id = host[h].id
    /\ host'[h].cleaned => host[h].cleaned
    /\ host'[h].phase # "done" =>
           /\ host'[h].spawned <=> host[h].spawned
           /\ host'[h].failed <=> host[h].failed
           /\ host'[h].lost <=> host[h].lost
    /\ \E v \in Verdicts :
           /\ Justified(h, v)
           /\ dir' = dir \/ dir' = [dir EXCEPT ![host[h].id].result = v]
           /\ host'[h].phase # "done" => host'[h].verdict = v

LEMMA WriteResultStep ==
    ASSUME HostTyped, NEW h \in Hosts, NEW v \in Verdicts, Justified(h, v),
           NEW p \in {"written", "overrun", "done"}, host[h].phase \in Late,
           WriteResult(h, v, p), UNCHANGED <<sup, upl, lease>>
    PROVE  VerdictStep(h)
<1>1. host[h] \in HostRecord
  BY DEF HostTyped
<1>2. ASSUME NEW w \in Verdicts, Return(h, w),
             dir' = dir \/ dir' = [dir EXCEPT ![host[h].id].result = v]
      PROVE  VerdictStep(h)
  BY <1>2, EndedEffect DEF VerdictStep
<1>3. CASE /\ p # "done" /\ dir' = [dir EXCEPT ![host[h].id].result = v]
           /\ host' = [host EXCEPT ![h].phase = p, ![h].verdict = v]
  <2>1. host'[h] = [host[h] EXCEPT !.phase = p, !.verdict = v] /\ OthersStay(h)
    BY <1>1, <1>3 DEF HostTyped, HostRecord, OthersStay
  <2>2. p \in Late
    BY <1>3 DEF Late
  <2>3. host'[h] \in HostRecord
    BY <1>1, <2>1, <2>2 DEF HostRecord
  <2>4. /\ host'[h].phase = p /\ host'[h].id = host[h].id
        /\ host'[h].verdict = v
        /\ host'[h].cleaned <=> host[h].cleaned
        /\ host'[h].spawned <=> host[h].spawned
        /\ host'[h].failed <=> host[h].failed
        /\ host'[h].lost <=> host[h].lost
    BY <1>1, <2>1 DEF HostRecord
  <2>. QED  BY <1>3, <2>1, <2>3, <2>4 DEF VerdictStep
<1>4. CASE p = "done" /\ dir' = [dir EXCEPT ![host[h].id].result = v] /\ Return(h, v)
  BY <1>2, <1>4
<1>5. CASE Return(h, "PERSISTENCE_FAILED") /\ UNCHANGED dir
  <2>1. "PERSISTENCE_FAILED" \in Verdicts
    BY DEF Verdicts
  <2>. QED  BY <1>2, <1>5, <2>1
<1>. QED  BY <1>3, <1>4, <1>5 DEF WriteResult

LEMMA VerdictStepOf ==
    ASSUME HostTyped, NEW h \in Hosts, Finalize(h) \/ Rewrite(h) \/ WriteOverrun(h)
    PROVE  VerdictStep(h)
<1>1. host[h] \in HostRecord
  BY DEF HostTyped
<1>2. CASE Finalize(h)
  <2>1. classifyHostResult(h) \in Verdicts
    BY DEF classifyHostResult, Verdicts
  <2>2. host[h].phase = "final" /\ UNCHANGED <<sup, upl, lease>>
    BY <1>2 DEF Finalize
  <2>3. PICK v \in {classifyHostResult(h), "FINALIZATION_TIMEOUT", "PERSISTENCE_FAILED"} :
            WriteResult(h, v, "written")
    BY <1>2 DEF Finalize
  <2>4. v \in Verdicts /\ Justified(h, v)
    BY <2>1, <2>2 DEF Verdicts, Justified
  <2>. QED  BY <2>2, <2>3, <2>4, WriteResultStep DEF Late
<1>3. CASE Rewrite(h)
  <2>1. host[h].phase = "written" /\ UNCHANGED <<sup, upl, lease>> /\ host[h].verdict \in Verdicts
    BY <1>1, <1>3 DEF Rewrite, HostRecord
  <2>2. PICK v \in {host[h].verdict, "FINALIZATION_TIMEOUT"}, p \in {"done", "overrun"} :
            WriteResult(h, v, p)
    BY <1>3 DEF Rewrite
  <2>3. v \in Verdicts /\ Justified(h, v)
    BY <2>1 DEF Verdicts, Justified
  <2>. QED  BY <2>1, <2>2, <2>3, WriteResultStep DEF Late
<1>4. CASE WriteOverrun(h)
  <2>1. Justified(h, "FINALIZATION_TIMEOUT") /\ "FINALIZATION_TIMEOUT" \in Verdicts
    BY DEF Justified, Verdicts
  <2>. QED  BY <1>4, <2>1, WriteResultStep DEF WriteOverrun, Late
<1>. QED  BY <1>2, <1>3, <1>4
-------------------------------------------------------------------------------
(* A host is in the process table, past its own look at it, or its window    *)
(* still runs: only one can be.                                              *)
Holds(g) == (HostUp(g) /\ host[g].phase # "verify") \/ WindowRuns(g)

OneHolder == \A g, h \in Hosts : g # h => ~(Holds(g) /\ Holds(h))

(* The window of g shows the success of execution id i.                      *)
Shows(g, i) ==
    /\ host[g].id = i /\ dir[i].authorization /\ dir[i].invocation
    /\ sup[g].out = "EXITED" /\ upl[g].code = "0" /\ ~WindowRuns(g)

(* What a window shows stays true.                                           *)
ShownStays == \A g \in Hosts, i \in Ids : Shows(g, i) => Shows(g, i)'

(* The records of the host and of its processes, as they depend on each      *)
(* other.                                                                    *)
RecordsInv ==
    HostTyped /\ ProcTyped /\ DirTyped /\ ProcessInv /\ CleanupInv /\ EvidenceInv

(* No success is written but one that is justified, so what was shown before *)
(* is shown after.                                                           *)
NoNewVerdict ==
    /\ \A i \in Ids : dir'[i].result = "CHILD_SUCCEEDED" => dir[i].result = "CHILD_SUCCEEDED"
    /\ \A g \in Hosts : host'[g].phase \in {"written", "overrun"} => host'[g] = host[g]

LEMMA QuietVerdict ==
    ASSUME VerdictInv, SuccessIsEarned, EvidenceInv, ShownStays, NoNewVerdict
    PROVE  VerdictInv' /\ SuccessIsEarned'
<1>1. VerdictInv'
  <2>. SUFFICES ASSUME NEW g \in Hosts, host'[g].phase \in {"written", "overrun"},
                       host'[g].verdict = "CHILD_SUCCEEDED"
                PROVE  Earned(g)'
    BY DEF VerdictInv
  <2>1. host'[g] = host[g] /\ host[g].id \in Ids
    BY DEF NoNewVerdict, EvidenceInv
  <2>2. Shows(g, host[g].id)
    BY <2>1 DEF VerdictInv, Earned, Shows
  <2>3. Shows(g, host[g].id)'
    BY <2>1, <2>2 DEF ShownStays, Shows
  <2>. QED  BY <2>1, <2>3 DEF Shows, Earned
<1>2. SuccessIsEarned'
  <2>. SUFFICES ASSUME NEW i \in Ids, dir'[i].result = "CHILD_SUCCEEDED"
                PROVE  \E g \in Hosts : Shows(g, i)'
    BY DEF SuccessIsEarned, Shows
  <2>1. PICK g \in Hosts : Shows(g, i)
    BY DEF NoNewVerdict, SuccessIsEarned, Shows
  <2>. QED  BY <2>1 DEF ShownStays
<1>. QED  BY <1>1, <1>2

LEMMA FewerHold ==
    ASSUME OneHolder, \A g \in Hosts : Holds(g)' => Holds(g)
    PROVE  OneHolder'
BY DEF OneHolder

-------------------------------------------------------------------------------
(* A step of a host before its spawn.                                        *)
LEMMA EarlyRecords ==
    ASSUME RecordsInv, DirTyped', NEW h \in Hosts, EarlyStep(h)
    PROVE  RecordsInv'
<1>. USE DEF RecordsInv, EarlyStep, OthersStay
<1>1. HostTyped'
  BY DEF HostTyped, EarlyStep
<1>2. ProcTyped'
  BY DEF ProcTyped
<1>3. ProcessInv'
  BY DEF ProcessInv, Early
<1>4. CleanupInv'
  BY DEF CleanupInv, WindowRuns, SupUp, UplUp, Early
<1>5. EvidenceInv'
  BY DEF EvidenceInv, Early, Waiting, Late, DirGrows
<1>. QED  BY <1>1, <1>2, <1>3, <1>4, <1>5

LEMMA EarlyShown ==
    ASSUME RecordsInv, NEW h \in Hosts, EarlyStep(h)
    PROVE  ShownStays /\ NoNewVerdict
<1>. USE DEF RecordsInv, EarlyStep, OthersStay
<1>1. ShownStays
  BY DEF ShownStays, Shows, ProcessInv, DirGrows, WindowRuns, SupUp, UplUp
<1>2. NoNewVerdict
  BY DEF NoNewVerdict, Early
<1>. QED  BY <1>1, <1>2

LEMMA EarlyHolds ==
    ASSUME OneHolder, NEW h \in Hosts, EarlyStep(h)
    PROVE  OneHolder'
<1>. USE DEF EarlyStep, OthersStay, Holds, HostUp, WindowRuns, SupUp, UplUp, Early
<1>1. \A g \in Hosts \ {h} : Holds(g)' <=> Holds(g)
  OBVIOUS
<1>2. CASE Holds(h)' => Holds(h)
  BY <1>1, <1>2, FewerHold
<1>3. CASE Holds(h)' /\ ~Holds(h)
  <2>1. ~RetainedProcess(h)
    BY <1>3
  <2>2. \A g \in Hosts \ {h} : ~Holds(g)
    BY <2>1 DEF RetainedProcess
  <2>. QED  BY <1>1, <2>2 DEF OneHolder
<1>. QED  BY <1>2, <1>3

(* A step of a host that waits for its child.                                *)
LEMMA WaitRecords ==
    ASSUME RecordsInv, NEW h \in Hosts, WaitStep(h)
    PROVE  RecordsInv'
<1>. USE DEF RecordsInv, WaitStep, OthersStay
<1>1. HostTyped'
  BY DEF HostTyped
<1>2. DirTyped'
  BY DEF DirTyped, DirRecord
<1>3. ProcessInv'
  BY DEF ProcessInv, Early, Waiting, OnlySignals
<1>4. CleanupInv'
  BY DEF CleanupInv, WindowRuns, SupUp, UplUp, Early, Waiting, OnlySignals
<1>5. EvidenceInv'
  <2>. SUFFICES ASSUME NEW g \in Hosts
                PROVE  /\ host'[g].phase # "off" => host'[g].id \in Ids
                       /\ host'[g].phase \in {"revalidate", "spawn"} \cup Waiting \cup Late =>
                             dir'[host'[g].id].authorization
                       /\ host'[g].phase \in Early =>
                             ~host'[g].spawned /\ ~host'[g].cleaned /\ ~host'[g].lost
                       /\ host'[g].phase \in Waiting \cup Late =>
                             /\ host'[g].spawned /\ ~host'[g].lost => dir'[host'[g].id].invocation
                             /\ host'[g].cleaned => host'[g].spawned \/ host'[g].failed
    BY DEF EvidenceInv
  <2>1. host[h].id \in Ids /\ host'[g].id = host[g].id
    BY DEF EvidenceInv, Waiting
  <2>2. \A i \in Ids : /\ dir'[i].authorization <=> dir[i].authorization
                       /\ dir[i].invocation => dir'[i].invocation
    BY DEF DirTyped, DirRecord
  <2>3. CASE g # h
    BY <2>2, <2>3 DEF EvidenceInv, Early, Waiting, Late
  <2>4. CASE /\ g = h /\ UNCHANGED dir
             /\ host[h].spawned => host'[h].spawned
             /\ host'[h].spawned /\ ~host'[h].lost => host[h].spawned /\ ~host[h].lost
    <3>1. /\ dir'[host'[h].id].authorization
          /\ host'[h].phase \notin Early /\ host'[h].phase # "off"
      BY <2>1, <2>4 DEF EvidenceInv, Early, Waiting, Late
    <3>2. host'[h].spawned /\ ~host'[h].lost => dir'[host'[h].id].invocation
      BY <2>1, <2>4 DEF EvidenceInv, Waiting
    <3>3. host'[h].cleaned => host'[h].spawned \/ host'[h].failed
      BY <2>4 DEF EvidenceInv, Waiting
    <3>. QED  BY <2>1, <2>4, <3>1, <3>2, <3>3
  <2>5. CASE /\ g = h /\ host'[h].spawned
             /\ dir' = [dir EXCEPT ![host[h].id].invocation = TRUE]
    <3>1. dir'[host[h].id].invocation
      BY <2>1, <2>5 DEF DirTyped, DirRecord
    <3>. QED  BY <2>1, <2>2, <2>5, <3>1 DEF EvidenceInv, Early, Waiting, Late
  <2>. QED  BY <2>3, <2>4, <2>5
<1>. QED  BY <1>1, <1>2, <1>3, <1>4, <1>5

LEMMA WaitShown ==
    ASSUME RecordsInv, NEW h \in Hosts, WaitStep(h)
    PROVE  ShownStays /\ NoNewVerdict
<1>. USE DEF RecordsInv, WaitStep, OthersStay
<1>1. \A i \in Ids : /\ dir'[i].authorization <=> dir[i].authorization
                     /\ dir[i].invocation => dir'[i].invocation
                     /\ dir'[i].result = dir[i].result
  BY DEF DirTyped, DirRecord
<1>2. ShownStays
  BY <1>1 DEF ShownStays, Shows, OnlySignals, WindowRuns, SupUp, UplUp
<1>3. NoNewVerdict
  BY <1>1 DEF NoNewVerdict, Waiting
<1>. QED  BY <1>2, <1>3

LEMMA WaitHolds ==
    ASSUME OneHolder, NEW h \in Hosts, WaitStep(h)
    PROVE  OneHolder'
<1>1. \A g \in Hosts : Holds(g)' => Holds(g)
  BY DEF WaitStep, OthersStay, OnlySignals, Holds, HostUp, WindowRuns, SupUp, UplUp, Waiting
<1>. QED  BY <1>1, FewerHold

(* A step that writes the verdict.                                           *)
LEMMA VerdictRecords ==
    ASSUME RecordsInv, NEW h \in Hosts, VerdictStep(h)
    PROVE  RecordsInv'
<1>. USE DEF RecordsInv, VerdictStep, OthersStay
<1>1. HostTyped'
  BY DEF HostTyped
<1>2. DirTyped'
  BY DEF DirTyped, DirRecord
<1>3. ProcTyped'
  BY DEF ProcTyped
<1>4. ProcessInv'
  BY DEF ProcessInv, Early, Late
<1>5. CleanupInv'
  BY DEF CleanupInv, WindowRuns, SupUp, UplUp, Early, Late
<1>6. \A i \in Ids : /\ dir'[i].authorization <=> dir[i].authorization
                     /\ dir'[i].invocation <=> dir[i].invocation
  BY DEF DirTyped, DirRecord
<1>7. EvidenceInv'
  BY <1>6 DEF EvidenceInv, Early, Waiting, Late
<1>. QED  BY <1>1, <1>2, <1>3, <1>4, <1>5, <1>7

(* The classifier says success of nothing but a window that shows it.        *)
LEMMA JustifiedIsEarned ==
    ASSUME RecordsInv, VerdictInv, NEW h \in Hosts, host[h].phase \in Late,
           Justified(h, "CHILD_SUCCEEDED")
    PROVE  Shows(h, host[h].id) /\ host[h].id \in Ids
<1>. USE DEF RecordsInv
<1>1. CASE host[h].phase = "final" /\ classifyHostResult(h) = "CHILD_SUCCEEDED"
  <2>1. /\ ~host[h].lost /\ host[h].cleaned /\ ~host[h].failed
        /\ sup[h].out # "none" /\ sup[h].code = "0"
    BY <1>1 DEF classifyHostResult, Cleaned
  <2>2. dir[host[h].id].authorization /\ dir[host[h].id].invocation
    BY <1>1, <2>1 DEF EvidenceInv, Late
  <2>3. sup[h].out = "EXITED" /\ upl[h].code = "0" /\ ~WindowRuns(h)
    BY <2>1 DEF ProcessInv, CleanupInv
  <2>. QED  BY <1>1, <2>2, <2>3 DEF Shows, EvidenceInv
<1>2. CASE host[h].phase = "written" /\ host[h].verdict = "CHILD_SUCCEEDED"
  BY <1>2 DEF VerdictInv, Earned, Shows, EvidenceInv
<1>. QED  BY <1>1, <1>2 DEF Justified

LEMMA VerdictShown ==
    ASSUME RecordsInv, VerdictInv, SuccessIsEarned, NEW h \in Hosts, VerdictStep(h)
    PROVE  VerdictInv' /\ SuccessIsEarned'
<1>. USE DEF RecordsInv, OthersStay
<1>1. PICK v \in Verdicts :
           /\ Justified(h, v)
           /\ dir' = dir \/ dir' = [dir EXCEPT ![host[h].id].result = v]
           /\ host'[h].phase # "done" => host'[h].verdict = v
  BY DEF VerdictStep
<1>2. \A i \in Ids : /\ dir'[i].authorization <=> dir[i].authorization
                     /\ dir'[i].invocation <=> dir[i].invocation
  BY <1>1 DEF DirTyped, DirRecord
<1>3. ShownStays
  BY <1>2 DEF ShownStays, Shows, VerdictStep, WindowRuns, SupUp, UplUp
<1>4. v = "CHILD_SUCCEEDED" => Shows(h, host[h].id)' /\ host[h].id \in Ids
  <2>. HAVE v = "CHILD_SUCCEEDED"
  <2>1. Shows(h, host[h].id) /\ host[h].id \in Ids
    BY <1>1, JustifiedIsEarned DEF VerdictStep
  <2>. QED  BY <1>3, <2>1 DEF ShownStays, VerdictStep, Shows
<1>5. VerdictInv'
  <2>. SUFFICES ASSUME NEW g \in Hosts, host'[g].phase \in {"written", "overrun"},
                       host'[g].verdict = "CHILD_SUCCEEDED"
                PROVE  Earned(g)'
    BY DEF VerdictInv
  <2>1. CASE g = h
    BY <1>1, <1>4, <2>1 DEF Shows, Earned
  <2>2. CASE g # h
    <3>1. host'[g] = host[g] /\ host[g].id \in Ids
      BY <2>2 DEF VerdictStep, EvidenceInv
    <3>2. Shows(g, host[g].id)
      BY <3>1 DEF VerdictInv, Earned, Shows
    <3>. QED  BY <1>3, <3>1, <3>2 DEF ShownStays, Shows, Earned
  <2>. QED  BY <2>1, <2>2
<1>6. SuccessIsEarned'
  <2>. SUFFICES ASSUME NEW i \in Ids, dir'[i].result = "CHILD_SUCCEEDED"
                PROVE  \E g \in Hosts : Shows(g, i)'
    BY DEF SuccessIsEarned, Shows
  <2>1. dir[i].result = "CHILD_SUCCEEDED" \/ (i = host[h].id /\ v = "CHILD_SUCCEEDED")
    BY <1>1 DEF DirTyped, DirRecord
  <2>2. CASE dir[i].result = "CHILD_SUCCEEDED"
    <3>1. PICK g \in Hosts : Shows(g, i)
      BY <2>2 DEF SuccessIsEarned, Shows
    <3>. QED  BY <1>3, <3>1 DEF ShownStays
  <2>3. CASE i = host[h].id /\ v = "CHILD_SUCCEEDED"
    BY <1>4, <2>3 DEF VerdictStep, Shows
  <2>. QED  BY <2>1, <2>2, <2>3
<1>. QED  BY <1>5, <1>6

LEMMA VerdictHolds ==
    ASSUME OneHolder, NEW h \in Hosts, VerdictStep(h)
    PROVE  OneHolder'
<1>1. \A g \in Hosts : Holds(g)' => Holds(g)
  BY DEF VerdictStep, OthersStay, Holds, HostUp, WindowRuns, SupUp, UplUp, Late
<1>. QED  BY <1>1, FewerHold
-------------------------------------------------------------------------------
(* The spawn, the close event and the death of a host: what they have in     *)
(* common.                                                                   *)
HostOnly(h) ==
    /\ UNCHANGED <<upl, lease, dir>> /\ OthersStay(h) /\ host'[h] \in HostRecord
    /\ host'[h].id = host[h].id
    /\ host'[h].phase \notin Early \cup {"written", "overrun"}

LEMMA HostOnlyShown ==
    ASSUME RecordsInv, NEW h \in Hosts, HostOnly(h),
           \A g \in Hosts : sup[g].st # "none" => sup'[g] = sup[g]
    PROVE  ShownStays /\ NoNewVerdict
<1>. USE DEF RecordsInv, HostOnly, OthersStay
<1>1. ShownStays
  BY DEF ShownStays, Shows, WindowRuns, SupUp, UplUp, ProcessInv
<1>2. NoNewVerdict
  BY DEF NoNewVerdict
<1>. QED  BY <1>1, <1>2

(* SpawnThrows and SpawnError: no process, nothing to clean.                 *)
SpawnFailed(h) ==
    /\ host[h].phase = "spawn"
    /\ \E p \in {"final", "closing"} :
           host' = [host EXCEPT ![h] = [@ EXCEPT !.phase = p, !.failed = TRUE, !.cleaned = TRUE]]
    /\ UNCHANGED <<sup, upl, lease, dir>>

LEMMA SpawnFailedIs ==
    ASSUME HostTyped, NEW h \in Hosts, SpawnThrows(h) \/ SpawnError(h)
    PROVE  SpawnFailed(h)
BY DEF SpawnThrows, SpawnError, SpawnFailed, HostTyped, HostRecord

LEMMA SpawnFailedStep ==
    ASSUME RecordsInv, OneHolder, NEW h \in Hosts, SpawnFailed(h)
    PROVE  RecordsInv' /\ OneHolder' /\ ShownStays /\ NoNewVerdict
<1>. USE DEF RecordsInv
<1>1. PICK p \in {"final", "closing"} :
          host' = [host EXCEPT ![h] = [@ EXCEPT !.phase = p, !.failed = TRUE, !.cleaned = TRUE]]
  BY DEF SpawnFailed
<1>2. host[h] \in HostRecord /\ host[h].phase = "spawn" /\ UNCHANGED <<sup, upl, lease, dir>>
  BY DEF SpawnFailed, HostTyped
<1>3. /\ host'[h] = [host[h] EXCEPT !.phase = p, !.failed = TRUE, !.cleaned = TRUE]
      /\ OthersStay(h)
  BY <1>1 DEF HostTyped, OthersStay
<1>4. host'[h] \in HostRecord
  BY <1>2, <1>3 DEF HostRecord, Waiting, Late
<1>5. /\ host'[h].phase = p /\ host'[h].id = host[h].id
      /\ host'[h].failed /\ host'[h].cleaned
      /\ host'[h].spawned <=> host[h].spawned
  BY <1>2, <1>3 DEF HostRecord
<1>6. HostTyped' /\ ProcTyped' /\ DirTyped'
  BY <1>2, <1>3, <1>4 DEF HostTyped, ProcTyped, DirTyped, OthersStay
<1>frame. \A g \in Hosts \ {h} : host'[g] = host[g]
  BY <1>3 DEF OthersStay
<1>7. ProcessInv'
  BY <1>2, <1>frame, <1>5 DEF ProcessInv, Early
<1>8. CleanupInv'
  <2>1. ~WindowRuns(h)
    BY <1>2 DEF ProcessInv, Early, WindowRuns, SupUp, UplUp
  <2>. QED  BY <1>2, <1>frame, <1>5, <2>1 DEF CleanupInv, Early, WindowRuns, SupUp, UplUp
<1>9. EvidenceInv'
  BY <1>2, <1>frame, <1>5 DEF EvidenceInv, Early, Waiting, Late
<1>10. OneHolder'
  <2>1. \A g \in Hosts : Holds(g)' => Holds(g)
    BY <1>2, <1>3, <1>5 DEF OthersStay, Holds, HostUp, WindowRuns, SupUp, UplUp
  <2>. QED  BY <2>1, FewerHold
<1>11. ShownStays /\ NoNewVerdict
  <2>1. HostOnly(h)
    BY <1>2, <1>3, <1>4, <1>5 DEF HostOnly, Early
  <2>. QED  BY <1>2, <2>1, HostOnlyShown
<1>. QED  BY <1>6, <1>7, <1>8, <1>9, <1>10, <1>11

LEMMA SpawnStep ==
    ASSUME RecordsInv, OneHolder, NEW h \in Hosts, SpawnSupervisor(h)
    PROVE  RecordsInv' /\ OneHolder' /\ ShownStays /\ NoNewVerdict
<1>. USE DEF RecordsInv
<1>1. /\ host[h] \in HostRecord /\ host[h].phase = "spawn" /\ UNCHANGED <<upl, lease, dir>>
      /\ host'[h] = [host[h] EXCEPT !.phase = "child"] /\ OthersStay(h)
  BY DEF SpawnSupervisor, HostTyped, OthersStay
<1>2. sup[h].st = "none" /\ sup[h].stage = "start" /\ upl[h].st = "none" /\ ~sup[h].cleaned
  BY <1>1 DEF ProcessInv, Early
<1>3. /\ sup' \in [Hosts -> SupRecord] /\ \A g \in Hosts \ {h} : sup'[g] = sup[g]
      /\ sup'[h] = [sup[h] EXCEPT !.st = "up"]
  BY DEF SpawnSupervisor, ProcTyped, SupRecord
<1>4. /\ sup'[h].st = "up" /\ sup'[h].stage = "start"
      /\ sup'[h].out = sup[h].out /\ sup'[h].code = sup[h].code
      /\ sup'[h].cleaned <=> sup[h].cleaned
  BY <1>2, <1>3 DEF ProcTyped, SupRecord
<1>5. /\ host'[h] \in HostRecord /\ host'[h].phase = "child" /\ host'[h].id = host[h].id
      /\ host'[h].spawned <=> host[h].spawned
      /\ host'[h].cleaned <=> host[h].cleaned
  BY <1>1 DEF HostRecord, Waiting
<1>6. HostTyped' /\ ProcTyped' /\ DirTyped'
  BY <1>1, <1>3, <1>5 DEF HostTyped, ProcTyped, DirTyped, OthersStay
<1>7. ProcessInv'
  <2>1. \A g \in Hosts \ {h} : host'[g] = host[g] /\ sup'[g] = sup[g]
    BY <1>1, <1>3 DEF OthersStay
  <2>2. UNCHANGED upl
    BY <1>1
  <2>. QED  BY <1>2, <1>4, <1>5, <2>1, <2>2 DEF ProcessInv, Early
<1>8. CleanupInv'
  BY <1>1, <1>3, <1>5 DEF CleanupInv, OthersStay, Early, WindowRuns, SupUp, UplUp
<1>9. EvidenceInv'
  BY <1>1, <1>5 DEF EvidenceInv, OthersStay, Early, Waiting, Late
<1>10. OneHolder'
  <2>1. \A g \in Hosts : Holds(g)' => Holds(g)
    BY <1>1, <1>3, <1>5 DEF OthersStay, Holds, HostUp, WindowRuns, SupUp, UplUp
  <2>. QED  BY <2>1, FewerHold
<1>11. ShownStays /\ NoNewVerdict
  <2>1. HostOnly(h)
    BY <1>1, <1>5 DEF HostOnly, Early
  <2>. QED  BY <1>2, <1>3, <2>1, HostOnlyShown
<1>. QED  BY <1>6, <1>7, <1>8, <1>9, <1>10, <1>11

LEMMA CloseStep ==
    ASSUME RecordsInv, OneHolder, NEW h \in Hosts, ChildClose(h)
    PROVE  RecordsInv' /\ OneHolder' /\ ShownStays /\ NoNewVerdict
<1>. DEFINE c == host[h].phase = "child"
            t == TimersCleared(host[h].term)
<1>. USE DEF RecordsInv
<1>1. /\ host[h] \in HostRecord /\ host[h].phase \in Waiting /\ host[h].spawned
      /\ sup[h].st = "dead" /\ ~UplUp(h) /\ UNCHANGED <<sup, upl, lease, dir>>
  BY DEF ChildClose, HostTyped, Waiting
<1>2. c \in BOOLEAN /\ t \in {"none", "over"}
  BY DEF TimersCleared
<1>3. host' = [host EXCEPT ![h] =
          [@ EXCEPT !.phase = "closing", !.closed = TRUE, !.cleaned = c, !.term = t]]
  BY <1>1 DEF ChildClose, HostTyped, HostRecord
<1>. HIDE DEF c, t
<1>4. /\ host'[h] = [host[h] EXCEPT !.phase = "closing", !.closed = TRUE, !.cleaned = c,
                                    !.term = t]
      /\ OthersStay(h)
  BY <1>3 DEF HostTyped, OthersStay
<1>5. host'[h] \in HostRecord
  BY <1>1, <1>2, <1>4 DEF HostRecord, Waiting
<1>6. /\ host'[h].phase = "closing" /\ host'[h].id = host[h].id
      /\ host'[h].spawned <=> host[h].spawned
      /\ host'[h].lost <=> host[h].lost
  BY <1>1, <1>4 DEF HostRecord
<1>7. HostTyped' /\ ProcTyped' /\ DirTyped'
  BY <1>1, <1>4, <1>5 DEF HostTyped, ProcTyped, DirTyped, OthersStay
<1>8. ProcessInv'
  <2>1. \A g \in Hosts \ {h} : host'[g] = host[g]
    BY <1>4 DEF OthersStay
  <2>. QED  BY <1>1, <1>6, <2>1 DEF ProcessInv, Early
<1>9. CleanupInv'
  BY <1>1, <1>4, <1>6 DEF CleanupInv, OthersStay, Early, WindowRuns, SupUp, UplUp
<1>10. EvidenceInv'
  <2>1. \A g \in Hosts \ {h} : host'[g] = host[g]
    BY <1>4 DEF OthersStay
  <2>2. /\ host[h].id \in Ids /\ dir[host[h].id].authorization
        /\ host[h].spawned /\ ~host[h].lost => dir[host[h].id].invocation
    BY <1>1 DEF EvidenceInv, Waiting
  <2>3. host'[h].phase = "closing" /\ "closing" \notin Early
    BY <1>6 DEF Early
  <2>. QED  BY <1>1, <1>6, <2>1, <2>2, <2>3 DEF EvidenceInv
<1>11. OneHolder'
  <2>1. \A g \in Hosts : Holds(g)' => Holds(g)
    BY <1>1, <1>4, <1>6 DEF OthersStay, Holds, HostUp, WindowRuns, SupUp, UplUp, Waiting
  <2>. QED  BY <2>1, FewerHold
<1>12. ShownStays /\ NoNewVerdict
  <2>1. HostOnly(h)
    BY <1>1, <1>4, <1>5, <1>6 DEF HostOnly, Early
  <2>. QED  BY <1>1, <2>1, HostOnlyShown
<1>. QED  BY <1>7, <1>8, <1>9, <1>10, <1>11, <1>12

LEMMA HostKilledStep ==
    ASSUME RecordsInv, OneHolder, NEW h \in Hosts, HostKilled(h)
    PROVE  RecordsInv' /\ OneHolder' /\ ShownStays /\ NoNewVerdict
<1>. USE DEF RecordsInv
<1>1. /\ host[h] \in HostRecord /\ host[h].phase # "off" /\ UNCHANGED <<sup, upl, lease, dir>>
      /\ host'[h] = [NewHost EXCEPT !.phase = "dead", !.id = host[h].id] /\ OthersStay(h)
  BY DEF HostKilled, HostUp, HostTyped, OthersStay
<1>2. host'[h] \in HostRecord
  BY <1>1 DEF HostRecord, NewHost, Verdicts
<1>3. host'[h].phase = "dead" /\ host'[h].id = host[h].id /\ ~host'[h].cleaned
  BY <1>1 DEF NewHost
<1>4. HostTyped' /\ ProcTyped' /\ DirTyped'
  BY <1>1, <1>2 DEF HostTyped, ProcTyped, DirTyped, OthersStay
<1>5. ProcessInv'
  BY <1>1, <1>3 DEF ProcessInv, OthersStay, Early
<1>6. CleanupInv'
  BY <1>1, <1>3 DEF CleanupInv, OthersStay, WindowRuns, SupUp, UplUp
<1>7. EvidenceInv'
  BY <1>1, <1>3 DEF EvidenceInv, OthersStay, Early, Waiting, Late
<1>8. OneHolder'
  <2>1. \A g \in Hosts : Holds(g)' => Holds(g)
    BY <1>1, <1>3 DEF OthersStay, Holds, HostUp, WindowRuns, SupUp, UplUp
  <2>. QED  BY <2>1, FewerHold
<1>9. ShownStays /\ NoNewVerdict
  <2>1. HostOnly(h)
    BY <1>1, <1>2, <1>3 DEF HostOnly, Early
  <2>. QED  BY <1>1, <2>1, HostOnlyShown
<1>. QED  BY <1>4, <1>5, <1>6, <1>7, <1>8, <1>9

(* A step of the processes of a window.                                      *)
LEMMA ProcessFrame ==
    ASSUME ProcTyped, DirTyped, NEW h \in Hosts, ProcessStep(h)
    PROVE  /\ UNCHANGED <<host, dir>> /\ lease' \in {lease, h}
           /\ \A g \in Hosts \ {h} : sup'[g] = sup[g] /\ upl'[g] = upl[g]
           /\ WindowRuns(h)
<1>. USE DEF ProcTyped, WindowRuns, SupUp, UplUp, Runs
<1>1. ASSUME SupervisorStep(h)
      PROVE  /\ UNCHANGED <<host, dir>> /\ lease' \in {lease, h}
             /\ \A g \in Hosts \ {h} : sup'[g] = sup[g] /\ upl'[g] = upl[g]
             /\ WindowRuns(h)
  BY <1>1 DEF SupervisorStep, SpawnUploader, SupervisorThrows, RuntimeTimeout, ForceKillUploader,
              InnerCleanupDeadline, UploaderClose, superviseUploadProcess, SupEnds,
              signalPosixProcessTree
<1>2. ASSUME ~SupervisorStep(h)
      PROVE  /\ UNCHANGED <<host, dir>> /\ lease' \in {lease, h}
             /\ \A g \in Hosts \ {h} : sup'[g] = sup[g] /\ upl'[g] = upl[g]
             /\ WindowRuns(h)
  BY <1>2 DEF ProcessStep, UploaderLease, UploaderExit, UploaderKilled, SupervisorKilled,
              SupEnds, UplEnds
<1>. QED  BY <1>1, <1>2

LEMMA ProcessRecords ==
    ASSUME RecordsInv, OneHolder, NEW h \in Hosts, ProcessStep(h)
    PROVE  RecordsInv' /\ OneHolder' /\ ShownStays /\ NoNewVerdict
<1>. USE DEF RecordsInv
<1>1. /\ UNCHANGED <<host, dir>> /\ lease' \in {lease, h}
      /\ \A g \in Hosts \ {h} : sup'[g] = sup[g] /\ upl'[g] = upl[g]
      /\ WindowRuns(h)
  BY ProcessFrame
<1>2. HostTyped' /\ ProcTyped' /\ DirTyped'
  BY <1>1, SupTypeStep, UplTypeStep DEF HostTyped, ProcTyped, DirTyped
<1>3. ProcessInv' /\ CleanupInv'
  BY ProcessInvStep, CleanupInvStep
<1>4. EvidenceInv'
  BY <1>1 DEF EvidenceInv
<1>5. OneHolder'
  <2>1. \A g \in Hosts : Holds(g)' => Holds(g)
    BY <1>1 DEF Holds, HostUp, WindowRuns, SupUp, UplUp
  <2>. QED  BY <2>1, FewerHold
<1>6. ShownStays
  BY <1>1 DEF ShownStays, Shows, WindowRuns, SupUp, UplUp
<1>7. NoNewVerdict
  BY <1>1 DEF NoNewVerdict
<1>. QED  BY <1>2, <1>3, <1>4, <1>5, <1>6, <1>7
-------------------------------------------------------------------------------
LEMMA EarlyDir ==
    ASSUME DirTyped, NEW h \in Hosts,
           \/ \E i \in Ids : StartHost(h, i)
           \/ verifyAuthorizationManifest(h) \/ ConsumeId(h)
           \/ WriteAuthorization(h) \/ revalidateManifest(h)
    PROVE  DirTyped'
<1>. USE DEF DirTyped, DirRecord
<1>1. UNCHANGED lease
  BY DEF StartHost, verifyAuthorizationManifest, ConsumeId, WriteAuthorization, revalidateManifest
<1>2. CASE dir' = dir \/ dir' = [dir EXCEPT ![host[h].id].made = TRUE]
  BY <1>1, <1>2
<1>3. CASE dir' = [dir EXCEPT ![host[h].id].authorization = TRUE]
  BY <1>1, <1>3
<1>4. CASE dir' = [dir EXCEPT ![host[h].id].result = "MANIFEST_REJECTED"]
  BY <1>1, <1>4 DEF Verdicts
<1>5. \/ dir' = dir \/ dir' = [dir EXCEPT ![host[h].id].made = TRUE]
      \/ dir' = [dir EXCEPT ![host[h].id].authorization = TRUE]
      \/ dir' = [dir EXCEPT ![host[h].id].result = "MANIFEST_REJECTED"]
  BY DEF StartHost, verifyAuthorizationManifest, ConsumeId, WriteAuthorization, revalidateManifest
<1>. QED  BY <1>2, <1>3, <1>4, <1>5

(* The inductive invariant.                                                  *)
WindowInv ==
    RecordsInv /\ OneHolder /\ VerdictInv /\ SuccessIsEarned /\ AbsentLeaseStaysAbsent

(* Every step of Next is one of these.                                       *)
LEMMA NextIs ==
    ASSUME RecordsInv, Next
    PROVE  \/ \E h \in Hosts :
                  \/ EarlyStep(h) /\ DirTyped'
                  \/ WaitStep(h) \/ VerdictStep(h)
                  \/ SpawnSupervisor(h) \/ SpawnFailed(h) \/ ChildClose(h)
                  \/ ProcessStep(h) \/ HostKilled(h)
           \/ ReleaseLease
<1>. USE DEF RecordsInv
<1>1. CASE ReleaseLease
  BY <1>1
<1>2. ASSUME NEW h \in Hosts,
             \/ \E i \in Ids : StartHost(h, i)
             \/ verifyAuthorizationManifest(h) \/ ConsumeId(h)
             \/ WriteAuthorization(h) \/ revalidateManifest(h)
      PROVE  EarlyStep(h) /\ DirTyped'
  BY <1>2, EarlyStepOf, EarlyDir
<1>3. ASSUME NEW h \in Hosts,
             \/ OuterTimeout(h) \/ Interrupt(h) \/ LogError(h) \/ OnSpawn(h)
             \/ ForceKill(h) \/ CleanupDeadline(h) \/ LogsClosed(h)
      PROVE  WaitStep(h)
  <2>1. ASSUME OuterTimeout(h) \/ Interrupt(h)  PROVE WaitStep(h)
    BY <2>1, BeginTerminationWaits DEF OuterTimeout, Interrupt
  <2>2. ASSUME LogError(h)  PROVE WaitStep(h)
    BY <2>2, LogErrorWaits
  <2>3. ASSUME OnSpawn(h)  PROVE WaitStep(h)
    BY <2>3, OnSpawnWaits
  <2>4. ASSUME ForceKill(h)  PROVE WaitStep(h)
    BY <2>4, ForceKillWaits
  <2>5. ASSUME CleanupDeadline(h)  PROVE WaitStep(h)
    BY <2>5, CleanupDeadlineWaits
  <2>6. ASSUME LogsClosed(h)  PROVE WaitStep(h)
    BY <2>6, LogsClosedWaits
  <2>. QED  BY <1>3, <2>1, <2>2, <2>3, <2>4, <2>5, <2>6
<1>4. ASSUME NEW h \in Hosts, Finalize(h) \/ Rewrite(h) \/ WriteOverrun(h)
      PROVE  VerdictStep(h)
  BY <1>4, VerdictStepOf
<1>5. ASSUME NEW h \in Hosts, SpawnThrows(h) \/ SpawnError(h)
      PROVE  SpawnFailed(h)
  BY <1>5, SpawnFailedIs
<1>. HIDE DEF RecordsInv
<1>6. ASSUME NEW h \in Hosts, HostStep(h)
      PROVE  \/ EarlyStep(h) /\ DirTyped'
             \/ WaitStep(h) \/ VerdictStep(h)
             \/ SpawnSupervisor(h) \/ SpawnFailed(h) \/ ChildClose(h)
  BY <1>2, <1>3, <1>4, <1>5, <1>6 DEF HostStep
<1>7. ASSUME NEW h \in Hosts,
             \/ SupervisorStep(h) \/ UploaderLease(h)
             \/ \E code \in {"0", "1"} : UploaderExit(h, code)
             \/ UploaderKilled(h) \/ SupervisorKilled(h)
      PROVE  ProcessStep(h)
  BY <1>7 DEF ProcessStep
<1>. QED  BY <1>1, <1>2, <1>3, <1>6, <1>7 DEF Next

LEMMA InitWindow == Init => WindowInv
<1>. SUFFICES ASSUME Init  PROVE WindowInv
  OBVIOUS
<1>1. PICK p \in Platforms : host = [h \in Hosts |-> [NewHost EXCEPT !.platform = p]]
  BY DEF Init
<1>2. [NewHost EXCEPT !.platform = p] \in HostRecord
  BY WindowHostAssumption DEF NewHost, HostRecord, Early, Verdicts
<1>3. \A h \in Hosts : /\ host[h].phase = "off" /\ host[h].verdict = "none"
                       /\ ~host[h].spawned /\ ~host[h].cleaned /\ ~host[h].lost
  BY <1>1 DEF NewHost
<1>4. \A h \in Hosts : sup[h] = NewSup /\ upl[h] = NewUpl
  BY DEF Init
<1>5. HostTyped
  BY <1>1, <1>2 DEF HostTyped
<1>6. ProcTyped
  BY DEF Init, ProcTyped, NewSup, NewUpl, SupRecord, UplRecord, Signals, Codes
<1>7. DirTyped
  BY DEF Init, DirTyped, NewDir, DirRecord, Verdicts
<1>8. ProcessInv
  BY <1>4 DEF ProcessInv, NewSup, NewUpl
<1>9. CleanupInv
  BY <1>3 DEF CleanupInv
<1>10. EvidenceInv
  BY <1>3 DEF EvidenceInv, Waiting, Late
<1>11. OneHolder
  BY <1>3, <1>4 DEF OneHolder, Holds, HostUp, WindowRuns, SupUp, UplUp, NewSup, NewUpl
<1>12. VerdictInv
  BY <1>3 DEF VerdictInv
<1>13. SuccessIsEarned
  BY DEF Init, NewDir, SuccessIsEarned
<1>14. AbsentLeaseStaysAbsent
  BY <1>4 DEF AbsentLeaseStaysAbsent, NewSup
<1>. QED
  BY <1>5, <1>6, <1>7, <1>8, <1>9, <1>10, <1>11, <1>12, <1>13, <1>14 DEF WindowInv, RecordsInv

LEMMA AbsentFrame ==
    ASSUME AbsentLeaseStaysAbsent, lease' \in {lease, None},
           \A g \in Hosts : /\ sup'[g].out = "ABSENT" => sup[g].out = "ABSENT"
                            /\ sup'[g].cleaned => sup[g].cleaned
    PROVE  AbsentLeaseStaysAbsent'
BY WindowHostAssumption DEF AbsentLeaseStaysAbsent

LEMMA WindowStep ==
    ASSUME WindowInv, Next
    PROVE  WindowInv'
<1>0. /\ RecordsInv /\ OneHolder /\ VerdictInv /\ SuccessIsEarned /\ AbsentLeaseStaysAbsent
      /\ HostTyped /\ ProcTyped /\ ProcessInv /\ EvidenceInv
  BY DEF WindowInv, RecordsInv
<1>1. ASSUME NEW h \in Hosts, EarlyStep(h), DirTyped'  PROVE WindowInv'
  <2>1. RecordsInv' /\ OneHolder' /\ VerdictInv' /\ SuccessIsEarned'
    BY <1>0, <1>1, EarlyRecords, EarlyShown, EarlyHolds, QuietVerdict
  <2>2. AbsentLeaseStaysAbsent'
    BY <1>0, <1>1 DEF EarlyStep, AbsentLeaseStaysAbsent
  <2>. QED  BY <2>1, <2>2 DEF WindowInv
<1>2. ASSUME NEW h \in Hosts, WaitStep(h)  PROVE WindowInv'
  <2>1. RecordsInv' /\ OneHolder' /\ VerdictInv' /\ SuccessIsEarned'
    BY <1>0, <1>2, WaitRecords, WaitShown, WaitHolds, QuietVerdict
  <2>2. AbsentLeaseStaysAbsent'
    BY <1>0, <1>2, AbsentFrame DEF WaitStep, OnlySignals
  <2>. QED  BY <2>1, <2>2 DEF WindowInv
<1>3. ASSUME NEW h \in Hosts, VerdictStep(h)  PROVE WindowInv'
  <2>1. RecordsInv' /\ OneHolder' /\ VerdictInv' /\ SuccessIsEarned'
    BY <1>0, <1>3, VerdictRecords, VerdictShown, VerdictHolds
  <2>2. AbsentLeaseStaysAbsent'
    BY <1>0, <1>3 DEF VerdictStep, AbsentLeaseStaysAbsent
  <2>. QED  BY <2>1, <2>2 DEF WindowInv
<1>4. ASSUME NEW h \in Hosts, SpawnSupervisor(h)  PROVE WindowInv'
  <2>1. RecordsInv' /\ OneHolder' /\ VerdictInv' /\ SuccessIsEarned'
    BY <1>0, <1>4, SpawnStep, QuietVerdict
  <2>2. /\ UNCHANGED lease
        /\ \A g \in Hosts : sup'[g].out = sup[g].out /\ (sup'[g].cleaned <=> sup[g].cleaned)
    BY <1>0, <1>4 DEF SpawnSupervisor, ProcTyped, SupRecord
  <2>3. AbsentLeaseStaysAbsent'
    BY <1>0, <2>2, AbsentFrame
  <2>. QED  BY <2>1, <2>3 DEF WindowInv
<1>5. ASSUME NEW h \in Hosts, SpawnFailed(h)  PROVE WindowInv'
  <2>1. RecordsInv' /\ OneHolder' /\ VerdictInv' /\ SuccessIsEarned'
    BY <1>0, <1>5, SpawnFailedStep, QuietVerdict
  <2>2. AbsentLeaseStaysAbsent'
    BY <1>0, <1>5 DEF SpawnFailed, AbsentLeaseStaysAbsent
  <2>. QED  BY <2>1, <2>2 DEF WindowInv
<1>6. ASSUME NEW h \in Hosts, ChildClose(h)  PROVE WindowInv'
  <2>1. RecordsInv' /\ OneHolder' /\ VerdictInv' /\ SuccessIsEarned'
    BY <1>0, <1>6, CloseStep, QuietVerdict
  <2>2. AbsentLeaseStaysAbsent'
    BY <1>0, <1>6 DEF ChildClose, AbsentLeaseStaysAbsent
  <2>. QED  BY <2>1, <2>2 DEF WindowInv
<1>7. ASSUME NEW h \in Hosts, ProcessStep(h)  PROVE WindowInv'
  <2>1. RecordsInv' /\ OneHolder' /\ VerdictInv' /\ SuccessIsEarned'
    BY <1>0, <1>7, ProcessRecords, QuietVerdict
  <2>2. AbsentLeaseStaysAbsent'
    BY <1>0, <1>7, AbsentStep
  <2>. QED  BY <2>1, <2>2 DEF WindowInv
<1>8. ASSUME NEW h \in Hosts, HostKilled(h)  PROVE WindowInv'
  <2>1. RecordsInv' /\ OneHolder' /\ VerdictInv' /\ SuccessIsEarned'
    BY <1>0, <1>8, HostKilledStep, QuietVerdict
  <2>2. AbsentLeaseStaysAbsent'
    BY <1>0, <1>8 DEF HostKilled, AbsentLeaseStaysAbsent
  <2>. QED  BY <2>1, <2>2 DEF WindowInv
<1>9. ASSUME ReleaseLease  PROVE WindowInv'
  <2>1. UNCHANGED <<host, sup, upl, dir>> /\ lease' = None
    BY <1>9 DEF ReleaseLease
  <2>2. RecordsInv'
    BY <1>0, <2>1 DEF RecordsInv, HostTyped, ProcTyped, DirTyped, ProcessInv, CleanupInv,
                      EvidenceInv, WindowRuns, SupUp, UplUp
  <2>3. OneHolder' /\ VerdictInv' /\ SuccessIsEarned'
    BY <1>0, <2>1 DEF OneHolder, Holds, HostUp, WindowRuns, SupUp, UplUp, VerdictInv, Earned,
                      SuccessIsEarned
  <2>4. AbsentLeaseStaysAbsent'
    BY <1>0, <2>1, AbsentFrame
  <2>. QED  BY <2>2, <2>3, <2>4 DEF WindowInv
<1>. QED  BY <1>0, <1>1, <1>2, <1>3, <1>4, <1>5, <1>6, <1>7, <1>8, <1>9, NextIs

LEMMA WindowStutter ==
    ASSUME WindowInv, UNCHANGED vars
    PROVE  WindowInv'
BY DEF WindowInv, vars, RecordsInv, HostTyped, ProcTyped, DirTyped, ProcessInv, CleanupInv,
       EvidenceInv, OneHolder, Holds, HostUp, WindowRuns, SupUp, UplUp, VerdictInv, Earned,
       SuccessIsEarned, AbsentLeaseStaysAbsent

(* The records of hosts, supervisors, uploaders and directories stay         *)
(* consistent through every timeout, signal, crash and failed write.         *)
THEOREM WindowInvariant == Spec => []WindowInv
<1>1. WindowInv /\ [Next]_vars => WindowInv'
  BY WindowStep, WindowStutter
<1>. QED  BY InitWindow, <1>1, PTL DEF Spec

(* OneWindowAtATime: two windows never run at once, for any number of hosts, *)
(* although only the process table that verifyAuthorizationManifest reads    *)
(* keeps them apart: a host is in it before it looks.                        *)
THEOREM WindowsExclude == Spec => []OneWindowAtATime
<1>1. WindowInv => OneWindowAtATime
  BY DEF WindowInv, OneHolder, Holds, OneWindowAtATime
<1>. QED  BY WindowInvariant, <1>1, PTL

(* CleanMeansGone: when runOwnedHostChild reports a completed cleanup, no    *)
(* process of the window is left, its detached uploader included.            *)
THEOREM CleanupIsComplete == Spec => []CleanMeansGone
<1>1. WindowInv => CleanMeansGone
  BY DEF WindowInv, RecordsInv, CleanupInv, CleanMeansGone, Cleaned
<1>. QED  BY WindowInvariant, <1>1, PTL

(* SuccessIsEarned: host-result.json says CHILD_SUCCEEDED only for a window  *)
(* whose uploader ended with code 0, whose processes are gone, and whose     *)
(* authorization and invocation are on disk.                                 *)
THEOREM SuccessesAreEarned == Spec => []SuccessIsEarned
<1>1. WindowInv => SuccessIsEarned
  BY DEF WindowInv
<1>. QED  BY WindowInvariant, <1>1, PTL

(* AbsentLeaseStaysAbsent: a supervisor that reported a timeout before the   *)
(* lease after a completed cleanup stays right: its uploader never takes it. *)
THEOREM AbsenceIsFinal == Spec => []AbsentLeaseStaysAbsent
<1>1. WindowInv => AbsentLeaseStaysAbsent
  BY DEF WindowInv
<1>. QED  BY WindowInvariant, <1>1, PTL
===============================================================================
