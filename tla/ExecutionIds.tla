---------------------------- MODULE ExecutionIds ------------------------------
(***************************************************************************)
(* The replay store of the acceptance matrix: reserveExecutionId of        *)
(* business-flow-execution.mjs on execution-ids.json.  Every run of the    *)
(* matrix is a process of its own; the file is read, checked and written   *)
(* back with no lock, and writeFileSync truncates it before it fills it.   *)
(***************************************************************************)
EXTENDS Naturals, FiniteSets

CONSTANTS
    Runs,    \* invocations of executeFullMatrix
    Ids,     \* execution ids the authorizations name
    None

ASSUME ExecutionIdsAssumption == None \notin Ids /\ \A S \in SUBSET Ids : S # None

VARIABLES
    ids,   \* execution-ids.json: a set of ids, or None while it has no valid JSON
    req,   \* req[r]: the phase of run r, the id it asks for, what it read
    lapped \* history: the runs whose id another run, or who themselves, may have missed

idVars == <<ids, req, lapped>>

IdsInit ==
    /\ ids = {}
    /\ req = [r \in Runs |-> [phase |-> "idle", id |-> None, used |-> {}]]
    /\ lapped = {}

(* A file that cannot be parsed counts as empty.                             *)
Parsed == IF ids = None THEN {} ELSE ids

Reserving(r) == req[r].phase \in {"read", "truncated"}

(* Mutant of WriteIds: the new id replaces the list.                         *)
WriteOnlyOwn(r) ==
    /\ req[r].phase = "truncated"
    /\ ids' = {req[r].id}
    /\ req' = [req EXCEPT ![r].phase = "reserved"]
    /\ UNCHANGED lapped

(* A read while others are not done with the file may miss their ids, and    *)
(* they miss its id; a read of a file that holds no JSON misses every id.    *)
Missed(r) ==
    IF ids = None THEN {q \in Runs : req[q].phase # "idle"} \cup {r}
    ELSE IF \E q \in Runs : Reserving(q) THEN {q \in Runs : Reserving(q)} \cup {r}
    ELSE {}

(* existsSync, readFileSync, JSON.parse and the check of includes            *)
ReadIds(r, id) ==
    /\ req[r].phase = "idle"
    /\ req' = [req EXCEPT ![r] =
           [phase |-> IF id \in Parsed THEN "refused" ELSE "read",
            id |-> id, used |-> Parsed]]
    /\ lapped' = lapped \cup Missed(r)
    /\ UNCHANGED ids

Truncate(r) ==
    /\ req[r].phase = "read"
    /\ ids' = None
    /\ req' = [req EXCEPT ![r].phase = "truncated"]
    /\ UNCHANGED lapped

(* The ids that were read and the new one replace what the file holds.       *)
WriteIds(r) ==
    /\ req[r].phase = "truncated"
    /\ ids' = req[r].used \cup {req[r].id}
    /\ req' = [req EXCEPT ![r].phase = "reserved"]
    /\ UNCHANGED lapped

(* The process ends before the write, or inside it: the file stays torn.     *)
CrashIds(r) ==
    /\ Reserving(r)
    /\ req' = [req EXCEPT ![r].phase = IF @ = "read" THEN "dead" ELSE "torn"]
    /\ UNCHANGED <<ids, lapped>>

ReserveNext(r) ==
    \/ \E id \in Ids : ReadIds(r, id)
    \/ Truncate(r)
    \/ WriteIds(r)
    \/ CrashIds(r)

Reserved(r) == req[r].phase = "reserved"

(* Two runs pass the reservation with the same id only if one of the two     *)
(* reserved side by side with another run, or its id was on the list when a  *)
(* later run read the file truncated, by a run at work or by one that died   *)
(* in its write.  What other runs do to each other costs nobody else an id:  *)
(* they overlap, die before the write or are refused, and the ids of those   *)
(* that reserved alone before and after them stay on the list.               *)
ReplayNeedsOverlapOrTear ==
    \A r, q \in Runs :
        r # q /\ Reserved(r) /\ Reserved(q) /\ req[r].id = req[q].id
            => r \in lapped \/ q \in lapped
===============================================================================
