------------------------------ MODULE StateFile -------------------------------
(***************************************************************************)
(* The commands that change .devnet/state.json, each a process of its own  *)
(* and none under the lease's lock: init-identities and prepare-buffer of  *)
(* scripts/devnet/run.mjs, migrate-state-v3 of state-migration-command.mjs,*)
(* and the upload window, which holds the lease and saves its own copy     *)
(* after every transaction.  They share saveStateAtomic and backupState of *)
(* state.mjs, and with them one temporary name: writeFileSync opens and    *)
(* truncates `state.json.tmp`, fills it, and rename gives it its name,     *)
(* while another process may hold the same file open.  A copy goes the     *)
(* same way to a name under history/ that backupState makes from the       *)
(* version and the time of day, if no file has it yet.                     *)
(*                                                                         *)
(* A state is its schema version, whether the identities and the buffer    *)
(* are configured, whether the chunk plan is recorded, and the marks       *)
(* upload windows left in the chunk records.                               *)
(***************************************************************************)
EXTENDS Naturals, FiniteSets

CONSTANTS
    Shells,  \* processes that run one command each
    Starts,  \* what state.json may hold at the beginning
    Stamps,  \* what the clock may read, with the digits a timestamp keeps
    Empty,   \* a file with no bytes
    Torn,    \* a file with bytes of two writers
    Null

States == [v : {2, 3}, ids : BOOLEAN, buf : BOOLEAN, plan : BOOLEAN, marks : SUBSET Shells]

(* One for each name and one for each process that has a file open.          *)
Inodes == 1 .. Cardinality(Shells) + 2

(* The name state-v<version>-<timestamp>.json: run.mjs drops the fraction of *)
(* a second, migrate-state-v3 (`ms`) writes it in a form of its own.         *)
Preferred == [v : {2, 3}, stamp : Stamps, ms : BOOLEAN]

(* A "run" is init-identities or prepare-buffer: they differ in Change only. *)
Kinds == {"run", "migrate-state-v3", "window"}

(* What may follow a save.                                                   *)
Thens == {"change", "done", "reread"}

ASSUME StateFileAssumption ==
    /\ IsFiniteSet(Shells)
    /\ {Null, Empty, Torn} \cap (Shells \cup States) = {}
    /\ Cardinality({Null, Empty, Torn}) = 3
    /\ Null \notin Inodes /\ Null \notin Preferred /\ Null \notin Kinds \cup Thens
    /\ Starts \subseteq States \cup {Null}

VARIABLES
    data,   \* data[i]: what file i of .devnet holds: a state, Empty or Torn
    path,   \* path.state, path.tmp: the file that has the name, or Null
    roll,   \* what state.json.rollback.tmp holds, or Null
    draft,  \* draft[n]: what the file with the temporary name of n holds, or Null
    named,  \* named[n]: what the file of history/ with the name n holds, or Null
    own,    \* what the files of history/ hold whose name has a UUID
    cmd,    \* cmd[s]: the command of shell s
    start,  \* history variable: state.json at the beginning
    met,    \* history variable: the shells that were at work with another
    clash,  \* history variable: two at work chose the same preferred name
    saved   \* history variable: the marks of the saves that returned

stateDir == <<data, path, roll>>
historyDir == <<draft, named, own>>
seen == <<start, met, clash, saved>>
sfVars == <<stateDir, historyDir, cmd, seen>>

NewCommand ==
    [kind |-> Null, pc |-> "idle",
     state |-> Null,  \* the state in memory
     then |-> Null,   \* what follows the save at work
     ino |-> Null,    \* the file of .devnet it has open
     name |-> Null,   \* the name it took; Null: one with a UUID
     copy |-> Null]   \* what its copy with a UUID holds

createInitialState == [v |-> 3, ids |-> FALSE, buf |-> FALSE, plan |-> FALSE, marks |-> {}]

Content == IF path.state = Null THEN Null ELSE data[path.state]

Parses == Content \in States

Set(s, pc) == cmd' = [cmd EXCEPT ![s].pc = pc]

(* The process ends, by itself or killed: its memory and its files are gone. *)
End(s) == cmd' = [cmd EXCEPT ![s] = [NewCommand EXCEPT !.pc = "ended"]]

(* What the files of history/ hold.                                          *)
History == own \cup {named[n] : n \in Preferred}

Busy(s) == cmd[s].pc \notin {"idle", "ended"}

Migrates(s) == cmd[s].kind = "migrate-state-v3"

(* It chose its name and has not yet given it to its copy.                   *)
Chose(s) == cmd[s].pc \in {"copy", "publish"}

StateFileInit ==
    /\ start \in Starts
    /\ data = [i \in Inodes |-> IF i = 1 /\ start # Null THEN start ELSE Empty]
    /\ path = [state |-> IF start = Null THEN Null ELSE 1, tmp |-> Null]
    /\ roll = Null
    /\ draft = [n \in Preferred |-> Null] /\ named = [n \in Preferred |-> Null]
    /\ own = {}
    /\ cmd = [s \in Shells |-> NewCommand]
    /\ met = {} /\ clash = FALSE /\ saved = {}

-------------------------------------------------------------------------------
(* Reading, and what each command makes of what it read                      *)

(* migrateState: version 3 without a plan.                                   *)
migrateState(c) == [c EXCEPT !.v = 3]

initializeIdentities(c) == [c EXCEPT !.ids = TRUE]

(* A new buffer has neither a plan nor chunk records.                        *)
configureDeploymentBuffer(c) == [c EXCEPT !.buf = TRUE, !.plan = FALSE, !.marks = {}]

(* Mutant: the buffer is configured anew although the state records it.      *)
ConfiguredAnew(c) == configureDeploymentBuffer(c)

(* A recorded buffer is preserved.                                           *)
initializeDeploymentBuffer(c) == IF c.buf THEN c ELSE configureDeploymentBuffer(c)

(* migrateStateV3 goes on with version 2 only.                               *)
MigrationRequired(c) == c.v = 2

migratedUploadState(c) == [migrateState(c) EXCEPT !.plan = TRUE, !.marks = {}]

(* A state that has to be migrated is backed up and saved first.             *)
migrateStateFile(command) ==
    IF ~Parses THEN [NewCommand EXCEPT !.pc = "ended"]
    ELSE IF migrateState(Content) = Content
    THEN [command EXCEPT !.pc = "change", !.state = Content]
    ELSE [command EXCEPT !.pc = "backup", !.state = migrateState(Content), !.then = "change"]

(* run.mjs main: migrateStateFile, or createInitialState without a file.     *)
ReadRun(s) ==
    LET command == [NewCommand EXCEPT !.kind = "run"]
    IN  cmd' = [cmd EXCEPT ![s] =
            IF path.state = Null
            THEN [command EXCEPT !.pc = "change", !.state = createInitialState]
            ELSE migrateStateFile(command)]

(* migrateStateV3 up to its backup: assertCheckpoint, then the version.      *)
ReadMigrate(s) ==
    IF Parses /\ Content.ids /\ Content.buf /\ MigrationRequired(Content)
    THEN cmd' = [cmd EXCEPT ![s] =
             [NewCommand EXCEPT !.kind = "migrate-state-v3", !.pc = "backup",
                                !.state = migratedUploadState(Content), !.then = "reread"]]
    ELSE End(s)

(* loadUploaderCheckpoint of a window that has the lease; it then marks its  *)
(* first transaction.                                                        *)
ReadWindow(s) ==
    /\ \A t \in Shells : cmd[t].kind = "window" => ~Busy(t)
    /\ IF Parses /\ Content.v = 3 /\ Content.buf /\ Content.plan
       THEN cmd' = [cmd EXCEPT ![s] =
                [NewCommand EXCEPT !.kind = "window", !.pc = "open", !.then = "done",
                                   !.state = [Content EXCEPT !.marks = @ \cup {s}]]]
       ELSE End(s)

Begin(s, kind) ==
    /\ cmd[s].pc = "idle"
    /\ \/ kind = "run" /\ ReadRun(s)
       \/ kind = "migrate-state-v3" /\ ReadMigrate(s)
       \/ kind = "window" /\ ReadWindow(s)
    /\ LET others == {t \in Shells : Busy(t)}
       IN  met' = IF others = {} THEN met ELSE met \cup others \cup {s}
    /\ UNCHANGED <<stateDir, historyDir, start, clash, saved>>

(* initializeIdentities or initializeDeploymentBuffer on the copy in memory; *)
(* prepare-buffer needs the deployment authority, and either may fail a      *)
(* check of its keys or of the binary.  The state is backed up if there is a *)
(* file by now.                                                              *)
Change(s) ==
    /\ cmd[s].pc = "change"
    /\ \/ End(s)
       \/ \E next \in {initializeIdentities(cmd[s].state)} \cup
                     (IF cmd[s].state.ids THEN {initializeDeploymentBuffer(cmd[s].state)} ELSE {}) :
             cmd' = [cmd EXCEPT ![s].state = next, ![s].then = "done",
                                ![s].pc = IF path.state = Null THEN "open" ELSE "backup"]
    /\ UNCHANGED <<stateDir, historyDir, seen>>

-------------------------------------------------------------------------------
(* backupState                                                               *)

(* backupState is called with the time of day and parses the file for its    *)
(* version; migrateStateFile calls it after a read of its own.               *)
ParseForBackup(s) ==
    /\ cmd[s].pc = "backup"
    /\ \/ /\ Parses
          /\ \E stamp \in Stamps :
                cmd' = [cmd EXCEPT
                    ![s].pc = "name",
                    ![s].name = [v |-> Content.v, stamp |-> stamp, ms |-> Migrates(s)]]
       \/ ~Parses /\ End(s)
    /\ UNCHANGED <<stateDir, historyDir, seen>>

(* Mutant of ChooseName: a name is taken whether or not a file has it.       *)
TakeName(s) ==
    /\ cmd[s].pc = "name"
    /\ Set(s, "copy")
    /\ UNCHANGED <<stateDir, historyDir, seen>>

(* The name is taken if no file has it by now; nothing reserves it.          *)
ChooseName(s) ==
    /\ cmd[s].pc = "name"
    /\ IF named[cmd[s].name] # Null
       THEN /\ cmd' = [cmd EXCEPT ![s].pc = "copy", ![s].name = Null]
            /\ UNCHANGED clash
       ELSE /\ Set(s, "copy")
            /\ clash' = (clash \/ \E t \in Shells : Chose(t) /\ cmd[t].name = cmd[s].name)
    /\ UNCHANGED <<stateDir, historyDir, start, met, saved>>

(* copyFileSync to the temporary name of the backup, one step here because   *)
(* only commands that chose the same name write the same file.  By now the   *)
(* state file may be another than the one that was parsed.  A copy that      *)
(* fails is removed.                                                         *)
CopyState(s) ==
    LET n == cmd[s].name
        Draft(c) == draft' = IF n = Null THEN draft ELSE [draft EXCEPT ![n] = c]
    IN  /\ cmd[s].pc = "copy"
        /\ \/ /\ cmd' = [cmd EXCEPT ![s].pc = "publish", ![s].copy = IF n = Null THEN Content ELSE @]
              /\ Draft(Content)
           \/ End(s) /\ Draft(Null)
        /\ UNCHANGED <<stateDir, named, own, seen>>

(* renameSync gives the copy its name, over any file that has it by now, and *)
(* throws when another command has done so.  The state is saved next, and    *)
(* only a migration keeps the path of its backup.                            *)
PublishCopy(s) ==
    LET n == cmd[s].name
        save == IF Migrates(s) THEN Set(s, "open")
                ELSE cmd' = [cmd EXCEPT ![s].pc = "open", ![s].name = Null, ![s].copy = Null]
    IN  /\ cmd[s].pc = "publish"
        /\ \/ n = Null /\ own' = own \cup {cmd[s].copy} /\ save /\ UNCHANGED <<draft, named>>
           \/ /\ n # Null /\ draft[n] # Null
              /\ named' = [named EXCEPT ![n] = draft[n]]
              /\ draft' = [draft EXCEPT ![n] = Null]
              /\ save /\ UNCHANGED own
           \/ n # Null /\ draft[n] = Null /\ End(s) /\ UNCHANGED historyDir
        /\ UNCHANGED <<stateDir, seen>>

-------------------------------------------------------------------------------
(* saveStateAtomic and restoreBackup                                         *)

Unused == {i \in Inodes : i \notin {path.state, path.tmp} \cup {cmd[s].ino : s \in Shells}}

Fresh == CHOOSE i \in Unused : TRUE

(* Over the bytes of another writer, longer ones leave a tail.               *)
Filled(old, new) == IF old \in {Empty, new} THEN {new} ELSE {new, Torn}

(* A save that throws: a migration restores its backup.                      *)
SaveThrows(s) ==
    IF Migrates(s)
    THEN cmd' = [cmd EXCEPT ![s].pc = "restore", ![s].ino = Null]
    ELSE End(s)

(* open(temporary, O_CREAT | O_TRUNC): the same file for whoever comes       *)
(* before the rename.                                                        *)
OpenTemporary(s) ==
    /\ cmd[s].pc = "open"
    /\ LET i == IF path.tmp = Null THEN Fresh ELSE path.tmp
       IN  /\ data' = [data EXCEPT ![i] = Empty]
           /\ path' = [path EXCEPT !.tmp = i]
           /\ cmd' = [cmd EXCEPT ![s].pc = "write", ![s].ino = i]
    /\ UNCHANGED <<roll, historyDir, seen>>

(* The bytes go to the file that was opened, under whatever name it has by   *)
(* now.  A write that fails leaves none or some of them.                     *)
WriteTemporary(s) ==
    /\ cmd[s].pc = "write"
    /\ \/ /\ \E c \in Filled(data[cmd[s].ino], cmd[s].state) :
                data' = [data EXCEPT ![cmd[s].ino] = c]
          /\ cmd' = [cmd EXCEPT ![s].pc = "rename", ![s].ino = Null]
       \/ /\ \E c \in {data[cmd[s].ino], Torn} : data' = [data EXCEPT ![cmd[s].ino] = c]
          /\ SaveThrows(s)
    /\ UNCHANGED <<path, roll, historyDir, seen>>

(* renameSync publishes what has the temporary name, and throws when nothing *)
(* has it any more.                                                          *)
Rename(s) ==
    /\ cmd[s].pc = "rename"
    /\ \/ /\ path.tmp # Null
          /\ path' = [state |-> path.tmp, tmp |-> Null]
          /\ IF cmd[s].then = "done" THEN End(s)
             ELSE cmd' = [cmd EXCEPT ![s].pc = cmd[s].then, ![s].then = Null]
          /\ saved' = IF cmd[s].kind = "window" THEN saved \cup {s} ELSE saved
       \/ /\ path.tmp = Null
          /\ SaveThrows(s)
          /\ UNCHANGED <<path, saved>>
    /\ UNCHANGED <<data, roll, historyDir, start, met, clash>>

(* validateStoredCheckpoint of what the file holds after the save.           *)
Reread(s) ==
    /\ cmd[s].pc = "reread"
    /\ IF Parses /\ Content.v = 3 /\ Content.ids /\ Content.buf /\ Content.plan
       THEN End(s) ELSE Set(s, "restore")
    /\ UNCHANGED <<stateDir, historyDir, seen>>

(* restoreBackup: copyFileSync to a temporary name that all migrations share *)
(* and nobody else, again one step.                                          *)
CopyBackup(s) ==
    /\ cmd[s].pc = "restore"
    /\ \/ /\ roll' = IF cmd[s].name = Null THEN cmd[s].copy ELSE named[cmd[s].name]
          /\ Set(s, "reinstate")
       \/ roll' = Null /\ End(s)
    /\ UNCHANGED <<data, path, historyDir, seen>>

(* renameSync: the migration reports its failure either way.                 *)
Reinstate(s) ==
    /\ cmd[s].pc = "reinstate"
    /\ IF roll = Null THEN UNCHANGED <<data, path>>
       ELSE /\ data' = [data EXCEPT ![Fresh] = roll]
            /\ path' = [path EXCEPT !.state = Fresh]
    /\ roll' = Null
    /\ End(s)
    /\ UNCHANGED <<historyDir, seen>>

Crash(s) ==
    /\ Busy(s)
    /\ End(s)
    /\ UNCHANGED <<stateDir, historyDir, seen>>

StateFileNext(s) ==
    \/ \E kind \in Kinds : Begin(s, kind)
    \/ Change(s)
    \/ ParseForBackup(s)
    \/ ChooseName(s)
    \/ CopyState(s)
    \/ PublishCopy(s)
    \/ OpenTemporary(s)
    \/ WriteTemporary(s)
    \/ Rename(s)
    \/ Reread(s)
    \/ CopyBackup(s)
    \/ Reinstate(s)
    \/ Crash(s)

-------------------------------------------------------------------------------
(* The mark an upload window saved while no other command was at work        *)
(* survives whatever comes later, overlapping commands and their deaths      *)
(* included, as long as the state file parses; and it parses unless two      *)
(* commands overlapped: then the rename of one may publish the shared        *)
(* temporary file the other has just truncated.                              *)
ProgressNeedsOverlapToVanish ==
    path.state # Null =>
        /\ met = {} => Parses
        /\ Parses => saved \ met \subseteq Content.marks

(* The version 2 state is the state file or one of the copies, whichever     *)
(* commands overlap, fail or die: whoever replaces it has given a copy of it *)
(* a name first.  It can only be lost when two commands choose the same      *)
(* name, each before the other has given it to its copy.                     *)
OriginalRecoverable ==
    start # Null /\ start.v = 2 /\ ~clash =>
        Content = start \/ start \in History
===============================================================================
