-------------------------- MODULE LocalCommandsProofs -------------------------
(***************************************************************************)
(* Theorems about LocalCommands: the reservation of execution ids and the  *)
(* commands on state.json, for any number of shells, ids, timestamps and   *)
(* first states.                                                           *)
(***************************************************************************)
EXTENDS LocalCommands, FiniteSetTheorems, TLAPS

-------------------------------------------------------------------------------
(* The reservation of execution ids.                                         *)

Requests ==
    [phase : {"idle", "read", "truncated", "reserved", "refused", "dead", "torn"},
     id : Ids \cup {None}, used : SUBSET Ids]

IdsTyped ==
    /\ ids \in (SUBSET Ids) \cup {None}
    /\ req \in [Runs -> Requests]
    /\ \A r \in Runs : req[r].phase # "idle" => req[r].id \in Ids

(* Two that work side by side are both lapped.                               *)
SideBySideLapped ==
    \A r, q \in Runs : r # q /\ Reserving(r) /\ Reserving(q) => r \in lapped

(* The id of a run that is not lapped is in the file, and in what every run  *)
(* at work has read; nobody goes on with an id it has read.                  *)
Listed(q) == ids # None => req[q].id \in ids

ReadBy(q, r) == req[q].id \in req[r].used

ReserveInv ==
    /\ SideBySideLapped
    /\ \A r \in Runs : Reserving(r) => req[r].id \notin req[r].used
    /\ \A q \in Runs : Reserved(q) /\ q \notin lapped =>
          /\ Listed(q)
          /\ \A r \in Runs : Reserving(r) => ReadBy(q, r)
          /\ \A r \in Runs \ {q} : Reserved(r) /\ req[r].id = req[q].id => r \in lapped

LEMMA IdsTypeStep ==
    ASSUME IdsTyped, NEW r \in Runs, ReserveNext(r)
    PROVE  IdsTyped'
<1>. USE DEF IdsTyped, Requests
<1>0. req[r] \in Requests
  OBVIOUS
<1>1. ASSUME NEW id \in Ids, ReadIds(r, id)  PROVE IdsTyped'
  <2>1. Parsed \in SUBSET Ids
    BY DEF Parsed
  <2>2. PICK p \in {"refused", "read"} :
            req' = [req EXCEPT ![r] = [phase |-> p, id |-> id, used |-> Parsed]]
    BY <1>1 DEF ReadIds
  <2>3. [phase |-> p, id |-> id, used |-> Parsed] \in Requests
    BY <2>1
  <2>4. ids' = ids
    BY <1>1 DEF ReadIds
  <2>5. req' \in [Runs -> Requests]
    BY <2>2, <2>3
  <2>. QED  BY <2>2, <2>4, <2>5
<1>2. ASSUME Truncate(r)  PROVE IdsTyped'
  BY <1>2 DEF Truncate
<1>3. ASSUME WriteIds(r)  PROVE IdsTyped'
  <2>1. req[r].used \cup {req[r].id} \in SUBSET Ids
    BY <1>0, <1>3 DEF WriteIds
  <2>. QED  BY <1>3, <2>1 DEF WriteIds
<1>4. ASSUME CrashIds(r)  PROVE IdsTyped'
  <2>1. PICK p \in {"dead", "torn"} : req' = [req EXCEPT ![r].phase = p]
    BY <1>4 DEF CrashIds
  <2>2. ids' = ids /\ req[r].phase # "idle"
    BY <1>4 DEF CrashIds, Reserving
  <2>. QED  BY <2>1, <2>2
<1>. QED  BY <1>1, <1>2, <1>3, <1>4 DEF ReserveNext

(* What a step does to the request of r, and to nothing else.                *)
ReqBecomes(r, phase) ==
    /\ UNCHANGED lapped /\ \A q \in Runs \ {r} : req'[q] = req[q]
    /\ req'[r].phase = phase /\ req'[r].id = req[r].id /\ req'[r].used = req[r].used

LEMMA ReqEffect ==
    ASSUME IdsTyped, NEW r \in Runs, NEW p, req' = [req EXCEPT ![r].phase = p], UNCHANGED lapped
    PROVE  ReqBecomes(r, p)
<1>1. req[r] \in Requests /\ req'[r] = [req[r] EXCEPT !.phase = p]
  BY DEF IdsTyped
<1>. QED  BY <1>1 DEF IdsTyped, Requests, ReqBecomes

LEMMA ReserveStep ==
    ASSUME IdsTyped, ReserveInv, NEW r \in Runs, ReserveNext(r)
    PROVE  ReserveInv'
<1>0. req[r] \in Requests /\ req \in [Runs -> Requests]
  BY DEF IdsTyped
<1>. USE DEF ReserveInv, SideBySideLapped, Listed, ReadBy, Reserving, Reserved
<1>1. ASSUME NEW id \in Ids, ReadIds(r, id)  PROVE ReserveInv'
  <2>1. /\ lapped' = lapped \cup Missed(r)
        /\ req[r].phase = "idle" /\ ids' = ids
    BY <1>1 DEF ReadIds
  <2>2. /\ \A q \in Runs \ {r} : req'[q] = req[q]
        /\ req'[r] = [phase |-> IF id \in Parsed THEN "refused" ELSE "read",
                      id |-> id, used |-> Parsed]
    BY <1>0, <1>1 DEF ReadIds
  <2>3. /\ req'[r].id = id /\ req'[r].used = Parsed
        /\ req'[r].phase \in {"refused", "read"} /\ (req'[r].phase = "read" => id \notin Parsed)
    BY <2>2
  <2>4. SideBySideLapped'
    BY <2>1, <2>2, <2>3 DEF Missed
  <2>5. \A q \in Runs : Reserved(q)' /\ q \notin lapped' => ReadBy(q, r)'
    BY <2>1, <2>2, <2>3 DEF Missed, Parsed
  <2>. QED  BY <2>1, <2>2, <2>3, <2>4, <2>5
<1>2. ASSUME Truncate(r)  PROVE ReserveInv'
  <2>1. req[r].phase = "read" /\ ReqBecomes(r, "truncated") /\ ids' = None
    BY <1>2, ReqEffect DEF Truncate
  <2>. QED  BY <2>1 DEF ReqBecomes
<1>3. ASSUME WriteIds(r)  PROVE ReserveInv'
  <2>1. /\ req[r].phase = "truncated" /\ ReqBecomes(r, "reserved")
        /\ ids' = req[r].used \cup {req[r].id}
    BY <1>3, ReqEffect DEF WriteIds
  <2>2. \A q \in Runs : Reserved(q)' /\ q \notin lapped' => Listed(q)'
    BY <2>1 DEF ReqBecomes
  <2>3. ASSUME NEW q \in Runs, NEW p \in Runs, Reserved(q)', q \notin lapped', Reserving(p)'
        PROVE  ReadBy(q, p)'
    BY <2>1, <2>3 DEF ReqBecomes
  <2>4. ASSUME NEW q \in Runs, NEW p \in Runs \ {q}, Reserved(q)', q \notin lapped',
               Reserved(p)', req'[p].id = req'[q].id
        PROVE  p \in lapped'
    <3>1. CASE q # r /\ p # r
      BY <2>1, <2>4, <3>1 DEF ReqBecomes
    <3>2. CASE q = r
      BY <2>1, <2>4, <3>2 DEF ReqBecomes
    <3>3. CASE p = r
      BY <2>1, <2>4, <3>3 DEF ReqBecomes
    <3>. QED  BY <3>1, <3>2, <3>3
  <2>5. /\ SideBySideLapped'
        /\ \A p \in Runs : Reserving(p)' => req'[p].id \notin req'[p].used
    BY <2>1 DEF ReqBecomes
  <2>. QED  BY <2>2, <2>3, <2>4, <2>5
<1>4. ASSUME CrashIds(r)  PROVE ReserveInv'
  <2>1. PICK p \in {"dead", "torn"} :
            req' = [req EXCEPT ![r].phase = p]
    BY <1>4 DEF CrashIds
  <2>2. ReqBecomes(r, p) /\ UNCHANGED ids
    BY <1>4, <2>1, ReqEffect DEF CrashIds
  <2>. QED  BY <2>2 DEF ReqBecomes
<1>. QED  BY <1>1, <1>2, <1>3, <1>4 DEF ReserveNext
-------------------------------------------------------------------------------
(* The commands on state.json.                                               *)

Pcs == {"idle", "change", "backup", "name", "copy", "publish", "open", "write", "rename",
        "reread", "restore", "reinstate", "ended"}

InodeNames == Inodes \cup {Null}

Contents == States \cup {Empty, Torn, Null}

Commands ==
    [kind : Kinds \cup {Null}, pc : Pcs, state : States \cup {Null},
     then : Thens \cup {Null}, ino : InodeNames, name : Preferred \cup {Null}, copy : Contents]

PathTyped == path \in [state : InodeNames, tmp : InodeNames]

(* No file has both names.                                                   *)
OneName == path.tmp # Null => path.tmp # path.state

DataTyped == data \in [Inodes -> Contents] /\ roll \in Contents

HistoryTyped ==
    /\ draft \in [Preferred -> Contents] /\ named \in [Preferred -> Contents]
    /\ own \subseteq Contents

CmdTyped == cmd \in [Shells -> Commands]

(* A command that goes on has a state; one that saves it knows what follows; *)
(* only a command about to write has a file open; and only a migration reads *)
(* its file again and restores it.                                           *)
Sane(s) ==
    /\ Busy(s) => cmd[s].state \in States
    /\ cmd[s].pc \in {"backup", "name", "copy", "publish", "open", "write", "rename"} =>
          cmd[s].then \in Thens
    /\ cmd[s].pc = "name" => cmd[s].name \in Preferred
    /\ cmd[s].pc # "write" => cmd[s].ino = Null
    /\ cmd[s].then = "reread" \/ cmd[s].pc \in {"reread", "restore", "reinstate"} => Migrates(s)

CmdSane == \A s \in Shells : Sane(s)

FilesTyped == PathTyped /\ OneName /\ DataTyped /\ HistoryTyped /\ CmdTyped /\ CmdSane

(* The bound on the files is enough: there is always one for a process that  *)
(* has none open.                                                            *)
LEMMA UnusedExists ==
    ASSUME PathTyped, CmdTyped, NEW s \in Shells, cmd[s].ino = Null
    PROVE  \E j \in Inodes : j \in Unused
<1>. DEFINE n == Cardinality(Shells)
            T == {cmd[t].ino : t \in Shells}
            f == [t \in Shells |-> cmd[t].ino]
            U == (T \cup {path.state}) \cup {path.tmp}
<1>1. n \in Nat
  BY StateFileAssumption, FS_CardinalityType
<1>2. IsFiniteSet(T) /\ Cardinality(T) \in Nat /\ Cardinality(T) <= n
  <2>1. f \in Surjection(Shells, T)
    BY DEF Surjection
  <2>2. IsFiniteSet(T) /\ Cardinality(T) <= n
    BY <2>1, StateFileAssumption, FS_Surjection
  <2>. QED  BY <2>2, FS_CardinalityType
<1>3. IsFiniteSet(U) /\ Cardinality(U) \in Nat /\ Cardinality(U) <= n + 2
  <2>1. /\ IsFiniteSet(T \cup {path.state})
        /\ Cardinality(T \cup {path.state}) \in {Cardinality(T), Cardinality(T) + 1}
    BY <1>2, FS_AddElement
  <2>2. /\ IsFiniteSet(U)
        /\ Cardinality(U) \in {Cardinality(T \cup {path.state}), Cardinality(T \cup {path.state}) + 1}
    BY <2>1, FS_AddElement
  <2>. HIDE DEF U, T
  <2>. QED  BY <1>1, <1>2, <2>1, <2>2
<1>4. IsFiniteSet(Inodes \cup {Null}) /\ Cardinality(Inodes \cup {Null}) = n + 3
  <2>1. IsFiniteSet(Inodes) /\ Cardinality(Inodes) = n + 2
    BY <1>1, FS_Interval DEF Inodes
  <2>2. Cardinality(Inodes \cup {Null}) = Cardinality(Inodes) + 1
    BY <2>1, StateFileAssumption, FS_AddElement
  <2>. QED  BY <1>1, <2>1, <2>2, FS_AddElement
<1>5. SUFFICES ASSUME \A j \in Inodes : j \notin Unused  PROVE FALSE
  OBVIOUS
<1>6. Inodes \cup {Null} \in SUBSET U
  BY <1>5 DEF Unused
<1>7. Cardinality(Inodes \cup {Null}) <= Cardinality(U)
  BY <1>3, <1>6, FS_Subset
<1>. HIDE DEF U, T, n
<1>. QED  BY <1>1, <1>3, <1>4, <1>7

LEMMA FreshExists ==
    ASSUME PathTyped, CmdTyped, NEW s \in Shells, cmd[s].ino = Null
    PROVE  Fresh \in Inodes /\ Fresh # path.state /\ Fresh # path.tmp
<1>1. Fresh \in Unused
  BY UnusedExists DEF Fresh
<1>. QED  BY <1>1 DEF Unused

OthersWait(s) == \A t \in Shells \ {s} : cmd'[t] = cmd[t]

LEMMA OneCommand ==
    ASSUME CmdTyped, NEW s \in Shells, NEW q \in Commands, cmd' = [cmd EXCEPT ![s] = q]
    PROVE  CmdTyped' /\ cmd'[s] = q /\ OthersWait(s)
BY DEF CmdTyped, OthersWait

(* What a command is after it has ended.                                     *)
LEMMA EndEffect ==
    ASSUME CmdTyped, NEW s \in Shells, End(s)
    PROVE  /\ CmdTyped' /\ OthersWait(s) /\ Sane(s)'
           /\ cmd'[s].pc = "ended" /\ cmd'[s].ino = Null /\ cmd'[s].kind = Null
           /\ ~Busy(s)'
<1>. DEFINE q == [NewCommand EXCEPT !.pc = "ended"]
<1>1. /\ q \in Commands /\ q.pc = "ended" /\ q.ino = Null /\ q.then = Null /\ q.kind = Null
  BY DEF NewCommand, Commands, Pcs, InodeNames, Contents
<1>2. CmdTyped' /\ cmd'[s] = q /\ OthersWait(s)
  BY <1>1, OneCommand DEF End
<1>. QED  BY <1>1, <1>2, StateFileAssumption DEF Sane, Busy, Kinds, Thens

(* A step that changes nothing of a command but how far it is.               *)
LEMMA SetEffect ==
    ASSUME CmdTyped, NEW s \in Shells, NEW p \in Pcs, Set(s, p)
    PROVE  /\ CmdTyped' /\ OthersWait(s)
           /\ cmd'[s].pc = p /\ cmd'[s].kind = cmd[s].kind /\ cmd'[s].state = cmd[s].state
           /\ cmd'[s].then = cmd[s].then /\ cmd'[s].ino = cmd[s].ino
           /\ cmd'[s].name = cmd[s].name /\ cmd'[s].copy = cmd[s].copy
<1>. DEFINE q == [cmd[s] EXCEPT !.pc = p]
<1>1. cmd[s] \in Commands /\ cmd' = [cmd EXCEPT ![s] = q]
  BY DEF CmdTyped, Set
<1>2. /\ q \in Commands
      /\ q.pc = p /\ q.kind = cmd[s].kind /\ q.state = cmd[s].state
      /\ q.then = cmd[s].then /\ q.ino = cmd[s].ino
      /\ q.name = cmd[s].name /\ q.copy = cmd[s].copy
  BY <1>1 DEF Commands
<1>. HIDE DEF q
<1>. QED  BY <1>1, <1>2, OneCommand

(* What a command is after it has read the state file.                       *)
Begun(s, q) ==
    /\ q \in Commands /\ q.ino = Null
    /\ \/ q.pc = "ended" /\ q.then = Null
       \/ /\ q.pc = "change" /\ q.kind = "run" /\ q.then = Null
          /\ \/ path.state = Null /\ q.state = createInitialState
             \/ Parses /\ Content.v = 3 /\ q.state = Content
       \/ /\ q.pc = "backup"
          /\ \/ q.kind = "run" /\ q.then = "change"
             \/ q.kind = "migrate-state-v3" /\ q.then = "reread"
          /\ Parses /\ Content.v = 2 /\ q.state \in States
       \/ /\ q.pc = "open" /\ q.kind = "window" /\ q.then = "done"
          /\ Parses /\ Content.v = 3 /\ Content.buf
          /\ q.state \in States /\ q.state.v = 3 /\ q.state.buf
          /\ q.state.marks = Content.marks \cup {s}

At(k, p, c, then) ==
    [kind |-> k, pc |-> p, state |-> c, then |-> then, ino |-> Null,
     name |-> Null, copy |-> Null]

LEMMA AtIs ==
    ASSUME NEW k, NEW p, NEW c
    PROVE  /\ [NewCommand EXCEPT !.kind = k, !.pc = p] = At(k, p, Null, Null)
           /\ [NewCommand EXCEPT !.kind = k, !.pc = p, !.state = c] = At(k, p, c, Null)
<1>1. [NewCommand EXCEPT !.kind = k] = At(k, "idle", Null, Null)
  BY DEF NewCommand, At
<1>2. [At(k, "idle", Null, Null) EXCEPT !.pc = p] = At(k, p, Null, Null)
  BY DEF At
<1>3. [At(k, p, Null, Null) EXCEPT !.state = c] = At(k, p, c, Null)
  BY DEF At
<1>. QED  BY Zenon, <1>1, <1>2, <1>3

(* The same, as ReadRun and ReadMigrate, and as ReadWindow, write it.         *)
ThenLast(k, p, c, then) ==
    [NewCommand EXCEPT !.kind = k, !.pc = p, !.state = c, !.then = then]

ThenFirst(k, p, c, then) ==
    [NewCommand EXCEPT !.kind = k, !.pc = p, !.then = then, !.state = c]

LEMMA AtThen ==
    ASSUME NEW k, NEW p, NEW c, NEW then
    PROVE  /\ ThenLast(k, p, c, then) = At(k, p, c, then)
           /\ ThenFirst(k, p, c, then) = At(k, p, c, then)
<1>1. [At(k, p, c, Null) EXCEPT !.then = then] = At(k, p, c, then)
  BY DEF At
<1>2. [At(k, p, Null, Null) EXCEPT !.then = then] = At(k, p, Null, then)
  BY DEF At
<1>3. [At(k, p, Null, then) EXCEPT !.state = c] = At(k, p, c, then)
  BY DEF At
<1>4. /\ [NewCommand EXCEPT !.kind = k, !.pc = p] = At(k, p, Null, Null)
      /\ [NewCommand EXCEPT !.kind = k, !.pc = p, !.state = c] = At(k, p, c, Null)
  BY AtIs
<1>. QED  BY Zenon, <1>1, <1>2, <1>3, <1>4 DEF ThenLast, ThenFirst

LEMMA AtCommand ==
    ASSUME NEW k \in Kinds, NEW p \in Pcs, NEW c \in States \cup {Null}, NEW then \in Thens \cup {Null}
    PROVE  /\ At(k, p, c, then) \in Commands
           /\ At(k, p, c, then).kind = k /\ At(k, p, c, then).pc = p
           /\ At(k, p, c, then).state = c /\ At(k, p, c, then).then = then
           /\ At(k, p, c, then).ino = Null
BY DEF At, Commands, InodeNames, Contents

LEMMA BeginEffect ==
    ASSUME CmdTyped, NEW s \in Shells, NEW kind \in Kinds, Begin(s, kind)
    PROVE  \E q \in Commands : Begun(s, q) /\ cmd' = [cmd EXCEPT ![s] = q]
<1>0. Parses => Content \in States
  BY DEF Parses
<1>1. ASSUME End(s)
      PROVE  \E q \in Commands : Begun(s, q) /\ cmd' = [cmd EXCEPT ![s] = q]
  <2>. DEFINE q == [NewCommand EXCEPT !.pc = "ended"]
  <2>1. /\ q \in Commands /\ q.pc = "ended" /\ q.ino = Null /\ q.then = Null
    BY DEF NewCommand, Commands, Pcs, InodeNames, Contents
  <2>2. cmd' = [cmd EXCEPT ![s] = q]
    BY <1>1 DEF End
  <2>. HIDE DEF q
  <2>. QED  BY <2>1, <2>2 DEF Begun
<1>2. ASSUME NEW p \in Pcs, NEW c \in States, NEW then \in Thens \cup {Null},
             cmd' = [cmd EXCEPT ![s] = At(kind, p, c, then)],
             \/ /\ p = "change" /\ kind = "run" /\ then = Null
                /\ \/ path.state = Null /\ c = createInitialState
                   \/ Parses /\ Content.v = 3 /\ c = Content
             \/ /\ p = "backup"
                /\ \/ kind = "run" /\ then = "change"
                   \/ kind = "migrate-state-v3" /\ then = "reread"
                /\ Parses /\ Content.v = 2
             \/ /\ p = "open" /\ kind = "window" /\ then = "done"
                /\ Parses /\ Content.v = 3 /\ Content.buf
                /\ c.v = 3 /\ c.buf /\ c.marks = Content.marks \cup {s}
      PROVE  \E q \in Commands : Begun(s, q) /\ cmd' = [cmd EXCEPT ![s] = q]
  <2>1. /\ At(kind, p, c, then) \in Commands
        /\ At(kind, p, c, then).kind = kind /\ At(kind, p, c, then).pc = p
        /\ At(kind, p, c, then).state = c /\ At(kind, p, c, then).then = then
        /\ At(kind, p, c, then).ino = Null
    BY AtCommand
  <2>2. Begun(s, At(kind, p, c, then))
    BY <1>2, <2>1 DEF Begun
  <2>. QED  BY <1>2, <2>1, <2>2
<1>3. CASE kind = "run" /\ ReadRun(s)
  <2>2. CASE path.state = Null
    <3>1. cmd' = [cmd EXCEPT ![s] = At(kind, "change", createInitialState, Null)]
      <4>1. cmd' = [cmd EXCEPT ![s] =
                [[NewCommand EXCEPT !.kind = kind] EXCEPT !.pc = "change", !.state = createInitialState]]
        BY <1>3, <2>2 DEF ReadRun
      <4>2. [[NewCommand EXCEPT !.kind = kind] EXCEPT !.pc = "change", !.state = createInitialState] =
                At(kind, "change", createInitialState, Null)
        BY Zenon, AtIs
      <4>. QED  BY <4>1, <4>2
    <3>2. createInitialState \in States
      BY DEF createInitialState, States
    <3>. QED  BY <1>2, <1>3, <2>2, <3>1, <3>2 DEF Pcs
  <2>3. CASE path.state # Null /\ ~Parses
    BY <1>1, <1>3, <2>3 DEF ReadRun, migrateStateFile, End
  <2>4. CASE path.state # Null /\ Parses /\ migrateState(Content) = Content
    <3>1. cmd' = [cmd EXCEPT ![s] = At(kind, "change", Content, Null)]
      <4>1. cmd' = [cmd EXCEPT ![s] =
                [[NewCommand EXCEPT !.kind = kind] EXCEPT !.pc = "change", !.state = Content]]
        BY <1>3, <2>4 DEF ReadRun, migrateStateFile
      <4>2. [[NewCommand EXCEPT !.kind = kind] EXCEPT !.pc = "change", !.state = Content] =
                At(kind, "change", Content, Null)
        BY Zenon, AtIs
      <4>. QED  BY <4>1, <4>2
    <3>2. Content.v = 3
      BY <1>0, <2>4 DEF migrateState, States
    <3>. QED  BY <1>0, <1>2, <1>3, <2>4, <3>1, <3>2 DEF Pcs
  <2>5. CASE path.state # Null /\ Parses /\ migrateState(Content) # Content
    <3>1. cmd' = [cmd EXCEPT ![s] = At(kind, "backup", migrateState(Content), "change")]
      <4>1. cmd' = [cmd EXCEPT ![s] =
                ThenLast(kind, "backup", migrateState(Content), "change")]
        BY <1>3, <2>5 DEF ReadRun, migrateStateFile, ThenLast
      <4>2. ThenLast(kind, "backup", migrateState(Content), "change") =
                At(kind, "backup", migrateState(Content), "change")
        BY AtThen
      <4>. QED  BY <4>1, <4>2
    <3>2. Content.v = 2 /\ migrateState(Content) \in States
      BY <1>0, <2>5 DEF migrateState, States
    <3>. QED  BY <1>2, <1>3, <2>5, <3>1, <3>2 DEF Pcs, Thens
  <2>. QED  BY <2>2, <2>3, <2>4, <2>5
<1>4. CASE kind = "migrate-state-v3" /\ ReadMigrate(s)
  <2>1. CASE ~(Parses /\ Content.ids /\ Content.buf /\ MigrationRequired(Content))
    BY <1>1, <1>4, <2>1 DEF ReadMigrate
  <2>3. CASE Parses /\ Content.ids /\ Content.buf /\ MigrationRequired(Content)
    <3>1. cmd' = [cmd EXCEPT ![s] = At(kind, "backup", migratedUploadState(Content), "reread")]
      <4>1. cmd' = [cmd EXCEPT ![s] =
                ThenLast(kind, "backup", migratedUploadState(Content), "reread")]
        BY <1>4, <2>3 DEF ReadMigrate, ThenLast
      <4>2. ThenLast(kind, "backup", migratedUploadState(Content), "reread") =
                At(kind, "backup", migratedUploadState(Content), "reread")
        BY AtThen
      <4>. QED  BY <4>1, <4>2
    <3>2. Content.v = 2
      BY <2>3 DEF MigrationRequired
    <3>3. migratedUploadState(Content) \in States
      <4>1. migrateState(Content) \in States
        BY <1>0, <2>3 DEF migrateState, States
      <4>2. migratedUploadState(Content) =
              [[migrateState(Content) EXCEPT !.plan = TRUE] EXCEPT !.marks = {}]
        BY DEF migratedUploadState
      <4>. QED  BY <4>1, <4>2 DEF States
    <3>. QED  BY <1>2, <1>4, <2>3, <3>1, <3>2, <3>3 DEF Pcs, Thens
  <2>. QED  BY <2>1, <2>3
<1>5. CASE kind = "window" /\ ReadWindow(s)
  <2>1. CASE Parses /\ Content.v = 3 /\ Content.buf /\ Content.plan
    <3>. DEFINE c == [Content EXCEPT !.marks = @ \cup {s}]
    <3>1. cmd' = [cmd EXCEPT ![s] = At(kind, "open", c, "done")]
      <4>1. cmd' = [cmd EXCEPT ![s] =
                ThenFirst(kind, "open", c, "done")]
        BY <1>5, <2>1 DEF ReadWindow, ThenFirst
      <4>2. ThenFirst(kind, "open", c, "done") =
                At(kind, "open", c, "done")
        BY AtThen
      <4>. QED  BY <4>1, <4>2
    <3>2. /\ c \in States /\ c.v = 3 /\ c.buf /\ c.marks = Content.marks \cup {s}
      BY <1>0, <2>1 DEF States
    <3>. HIDE DEF c
    <3>. QED  BY <1>2, <1>5, <2>1, <3>1, <3>2 DEF Pcs, Thens
  <2>2. CASE ~(Parses /\ Content.v = 3 /\ Content.buf /\ Content.plan)
    BY <1>1, <1>5, <2>2 DEF ReadWindow
  <2>. QED  BY <2>1, <2>2
<1>. QED  BY <1>3, <1>4, <1>5 DEF Begin
-------------------------------------------------------------------------------
-------------------------------------------------------------------------------
(* What each step does to the record of the command that takes it.           *)

Goes(s, p) == CmdTyped' /\ OthersWait(s) /\ cmd'[s].pc = p /\ cmd'[s].kind = cmd[s].kind

Remembers(s) == cmd'[s].state = cmd[s].state /\ cmd'[s].then = cmd[s].then

HasBackup(s) == cmd'[s].name = cmd[s].name /\ cmd'[s].copy = cmd[s].copy

LEMMA ChangeEffect ==
    ASSUME CmdTyped, CmdSane, NEW s \in Shells, Change(s), ~End(s)
    PROVE  /\ cmd'[s].ino = cmd[s].ino /\ cmd'[s].then = "done" /\ cmd'[s].state \in States
           /\ cmd'[s].state \in {initializeIdentities(cmd[s].state),
                                 initializeDeploymentBuffer(cmd[s].state)}
           /\ \/ Goes(s, "open") /\ path.state = Null
              \/ Goes(s, "backup") /\ path.state # Null
<1>. DEFINE c == cmd[s].state
<1>1. cmd[s] \in Commands /\ c \in States
  BY DEF CmdTyped, CmdSane, Sane, Change, Busy
<1>2. /\ initializeIdentities(c) \in States
      /\ initializeDeploymentBuffer(c) \in States
  <2>1. initializeIdentities(c) \in States
    BY <1>1 DEF initializeIdentities, States
  <2>2. configureDeploymentBuffer(c) \in States
    <3>1. configureDeploymentBuffer(c) =
            [[[c EXCEPT !.buf = TRUE] EXCEPT !.plan = FALSE] EXCEPT !.marks = {}]
      BY DEF configureDeploymentBuffer
    <3>. QED  BY <1>1, <3>1 DEF States
  <2>. QED  BY <1>1, <2>1, <2>2 DEF initializeDeploymentBuffer
<1>3. PICK d \in {initializeIdentities(c), initializeDeploymentBuffer(c)}, p \in {"open", "backup"} :
          /\ cmd' = [cmd EXCEPT ![s] = [[[@ EXCEPT !.state = d] EXCEPT !.then = "done"] EXCEPT !.pc = p]]
          /\ \/ p = "open" /\ path.state = Null
             \/ p = "backup" /\ path.state # Null
  BY <1>1 DEF Change, CmdTyped, Commands
<1>4. d \in States
  BY <1>2, <1>3
<1>. HIDE DEF c
<1>. DEFINE q == [[[cmd[s] EXCEPT !.state = d] EXCEPT !.then = "done"] EXCEPT !.pc = p]
<1>5. /\ q \in Commands /\ q.kind = cmd[s].kind /\ q.ino = cmd[s].ino
      /\ q.then = "done" /\ q.state = d /\ q.pc = p
  BY <1>1, <1>3, <1>4 DEF Commands, Pcs, Thens
<1>6. cmd' = [cmd EXCEPT ![s] = q]
  BY <1>3
<1>. HIDE DEF q
<1>7. CmdTyped' /\ cmd'[s] = q /\ OthersWait(s)
  BY <1>5, <1>6, OneCommand
<1>. QED  BY <1>3, <1>4, <1>5, <1>7 DEF Goes, c

LEMMA ParseEffect ==
    ASSUME CmdTyped, NEW s \in Shells, ParseForBackup(s), ~End(s)
    PROVE  /\ Parses /\ Goes(s, "name") /\ Remembers(s)
           /\ cmd'[s].name \in Preferred /\ cmd'[s].ino = cmd[s].ino
<1>1. PICK stamp \in Stamps :
          cmd' = [cmd EXCEPT ![s].pc = "name",
                     ![s].name = [v |-> Content.v, stamp |-> stamp, ms |-> Migrates(s)]]
  BY DEF ParseForBackup
<1>. DEFINE n == [v |-> Content.v, stamp |-> stamp, ms |-> Migrates(s)]
            q == [[cmd[s] EXCEPT !.pc = "name"] EXCEPT !.name = n]
<1>2. Parses /\ Content \in States
  BY DEF ParseForBackup, Parses
<1>3. n \in Preferred
  <2>1. Content.v \in {2, 3}
    BY <1>2 DEF States
  <2>2. Migrates(s) \in BOOLEAN
    BY DEF Migrates
  <2>. HIDE DEF Migrates
  <2>. QED  BY <2>1, <2>2 DEF Preferred
<1>4. cmd[s] \in Commands /\ cmd' = [cmd EXCEPT ![s] = q]
  BY <1>1 DEF CmdTyped, Commands
<1>. HIDE DEF n
<1>5. /\ q \in Commands /\ q.kind = cmd[s].kind /\ q.state = cmd[s].state /\ q.then = cmd[s].then
      /\ q.ino = cmd[s].ino /\ q.pc = "name" /\ q.name = n
  BY <1>3, <1>4 DEF Commands, Pcs
<1>. HIDE DEF q
<1>6. CmdTyped' /\ cmd'[s] = q /\ OthersWait(s)
  BY <1>4, <1>5, OneCommand
<1>. QED  BY <1>2, <1>3, <1>5, <1>6 DEF Goes, Remembers

LEMMA ChooseEffect ==
    ASSUME CmdTyped, NEW s \in Shells, ChooseName(s)
    PROVE  /\ Goes(s, "copy") /\ Remembers(s)
           /\ cmd'[s].ino = cmd[s].ino
           /\ \/ cmd'[s].name = Null /\ clash' = clash
              \/ /\ cmd'[s].name = cmd[s].name /\ named[cmd[s].name] = Null
                 /\ clash' = (clash \/ \E t \in Shells : Chose(t) /\ cmd[t].name = cmd[s].name)
<1>1. CASE named[cmd[s].name] = Null
  BY <1>1, SetEffect DEF ChooseName, Goes, Remembers, Pcs
<1>2. CASE named[cmd[s].name] # Null
  <2>. DEFINE q == [[cmd[s] EXCEPT !.pc = "copy"] EXCEPT !.name = Null]
  <2>1. cmd[s] \in Commands /\ cmd' = [cmd EXCEPT ![s] = q] /\ clash' = clash
    BY <1>2 DEF ChooseName, CmdTyped, Commands
  <2>2. /\ q \in Commands /\ q.kind = cmd[s].kind /\ q.state = cmd[s].state /\ q.then = cmd[s].then
        /\ q.ino = cmd[s].ino /\ q.pc = "copy" /\ q.name = Null
    BY <2>1 DEF Commands, Pcs
  <2>. HIDE DEF q
  <2>3. CmdTyped' /\ cmd'[s] = q /\ OthersWait(s)
    BY <2>1, <2>2, OneCommand
  <2>. QED  BY <2>1, <2>2, <2>3 DEF Goes, Remembers
<1>. QED  BY <1>1, <1>2

LEMMA CopyEffect ==
    ASSUME CmdTyped, NEW s \in Shells, CopyState(s), Content \in Contents, ~End(s)
    PROVE  /\ Goes(s, "publish") /\ Remembers(s)
           /\ cmd'[s].ino = cmd[s].ino /\ cmd'[s].name = cmd[s].name
           /\ cmd[s].name = Null => cmd'[s].copy = Content /\ draft' = draft
           /\ cmd[s].name # Null => draft' = [draft EXCEPT ![cmd[s].name] = Content]
<1>. DEFINE k == IF cmd[s].name = Null THEN Content ELSE cmd[s].copy
            q == [[cmd[s] EXCEPT !.pc = "publish"] EXCEPT !.copy = k]
<1>1. /\ cmd[s] \in Commands /\ cmd' = [cmd EXCEPT ![s] = q]
      /\ draft' = IF cmd[s].name = Null THEN draft ELSE [draft EXCEPT ![cmd[s].name] = Content]
  BY DEF CopyState, CmdTyped, Commands
<1>2. k \in Contents /\ (cmd[s].name = Null => k = Content)
  BY <1>1 DEF Commands
<1>. HIDE DEF k
<1>3. /\ q \in Commands /\ q.kind = cmd[s].kind /\ q.state = cmd[s].state /\ q.then = cmd[s].then
      /\ q.ino = cmd[s].ino /\ q.pc = "publish" /\ q.name = cmd[s].name /\ q.copy = k
  BY <1>1, <1>2 DEF Commands, Pcs
<1>. HIDE DEF q
<1>4. CmdTyped' /\ cmd'[s] = q /\ OthersWait(s)
  BY <1>1, <1>3, OneCommand
<1>. QED  BY <1>1, <1>2, <1>3, <1>4 DEF Goes, Remembers

LEMMA PublishEffect ==
    ASSUME CmdTyped, NEW s \in Shells, PublishCopy(s), ~End(s)
    PROVE  /\ Goes(s, "open") /\ Remembers(s) /\ cmd'[s].ino = cmd[s].ino
           /\ Migrates(s) => HasBackup(s)
<1>1. CASE Set(s, "open")
  BY <1>1, SetEffect DEF Goes, Remembers, HasBackup, Pcs
<1>2. CASE ~Migrates(s) /\ cmd' = [cmd EXCEPT ![s].pc = "open", ![s].name = Null, ![s].copy = Null]
  <2>. DEFINE q == [[[cmd[s] EXCEPT !.pc = "open"] EXCEPT !.name = Null] EXCEPT !.copy = Null]
  <2>1. cmd[s] \in Commands /\ cmd' = [cmd EXCEPT ![s] = q]
    BY <1>2 DEF CmdTyped, Commands
  <2>2. /\ q \in Commands /\ q.kind = cmd[s].kind /\ q.state = cmd[s].state /\ q.then = cmd[s].then
        /\ q.ino = cmd[s].ino /\ q.pc = "open"
    BY <2>1 DEF Commands, Pcs, Contents
  <2>. HIDE DEF q
  <2>3. CmdTyped' /\ cmd'[s] = q /\ OthersWait(s)
    BY <2>1, <2>2, OneCommand
  <2>. QED  BY <1>2, <2>2, <2>3 DEF Goes, Remembers
<1>. QED  BY <1>1, <1>2 DEF PublishCopy

LEMMA OpenEffect ==
    ASSUME CmdTyped, PathTyped, CmdSane, NEW s \in Shells, OpenTemporary(s)
    PROVE  \E i \in Inodes :
               /\ IF path.tmp = Null THEN i # path.state ELSE i = path.tmp
               /\ data' = [data EXCEPT ![i] = Empty]
               /\ path' = [path EXCEPT !.tmp = i]
               /\ Goes(s, "write") /\ Remembers(s) /\ HasBackup(s) /\ cmd'[s].ino = i
<1>. DEFINE i == IF path.tmp = Null THEN Fresh ELSE path.tmp
            q == [[cmd[s] EXCEPT !.pc = "write"] EXCEPT !.ino = i]
<1>1. cmd[s] \in Commands /\ cmd[s].ino = Null
  BY DEF CmdTyped, CmdSane, Sane, OpenTemporary
<1>2. Fresh \in Inodes /\ Fresh # path.state
  BY <1>1, FreshExists
<1>3. i \in Inodes /\ (path.tmp = Null => i # path.state) /\ (path.tmp # Null => i = path.tmp)
  BY <1>2 DEF PathTyped, InodeNames
<1>4. /\ data' = [data EXCEPT ![i] = Empty] /\ path' = [path EXCEPT !.tmp = i]
      /\ cmd' = [cmd EXCEPT ![s].pc = "write", ![s].ino = i]
  BY DEF OpenTemporary
<1>. HIDE DEF i
<1>5. cmd' = [cmd EXCEPT ![s] = q]
  BY <1>1, <1>4 DEF CmdTyped, Commands
<1>6. /\ q \in Commands /\ q.kind = cmd[s].kind /\ q.ino = i /\ q.then = cmd[s].then
      /\ q.state = cmd[s].state /\ q.pc = "write" /\ q.name = cmd[s].name /\ q.copy = cmd[s].copy
  BY <1>1, <1>3 DEF Commands, Pcs, InodeNames
<1>. HIDE DEF q
<1>7. CmdTyped' /\ cmd'[s] = q /\ OthersWait(s)
  BY <1>5, <1>6, OneCommand
<1>. QED  BY <1>3, <1>4, <1>6, <1>7 DEF Goes, Remembers, HasBackup

(* A step that closes the file a command has open.                           *)
LEMMA CloseEffect ==
    ASSUME CmdTyped, NEW s \in Shells, NEW p \in Pcs,
           cmd' = [cmd EXCEPT ![s].pc = p, ![s].ino = Null]
    PROVE  Goes(s, p) /\ Remembers(s) /\ HasBackup(s) /\ cmd'[s].ino = Null
<1>. DEFINE q == [[cmd[s] EXCEPT !.pc = p] EXCEPT !.ino = Null]
<1>1. cmd[s] \in Commands /\ cmd' = [cmd EXCEPT ![s] = q]
  BY DEF CmdTyped, Commands
<1>2. /\ q \in Commands /\ q.kind = cmd[s].kind /\ q.ino = Null /\ q.then = cmd[s].then
      /\ q.state = cmd[s].state /\ q.pc = p /\ q.name = cmd[s].name /\ q.copy = cmd[s].copy
  BY <1>1 DEF Commands, InodeNames
<1>. HIDE DEF q
<1>. QED  BY <1>1, <1>2, OneCommand DEF Goes, Remembers, HasBackup

LEMMA ThrowEffect ==
    ASSUME CmdTyped, NEW s \in Shells, SaveThrows(s), ~End(s)
    PROVE  Migrates(s) /\ Goes(s, "restore") /\ Remembers(s) /\ HasBackup(s) /\ cmd'[s].ino = Null
<1>1. Migrates(s) /\ cmd' = [cmd EXCEPT ![s].pc = "restore", ![s].ino = Null]
  BY DEF SaveThrows
<1>. QED  BY <1>1, CloseEffect DEF Pcs

(* The rename that succeeds, unless it was the last step.                    *)
LEMMA RenameEffect ==
    ASSUME CmdTyped, CmdSane, NEW s \in Shells, cmd[s].pc = "rename", cmd[s].then # "done",
           cmd' = [cmd EXCEPT ![s].pc = cmd[s].then, ![s].then = Null]
    PROVE  /\ Goes(s, cmd[s].then) /\ cmd[s].then \in {"change", "reread"}
           /\ cmd'[s].ino = Null /\ cmd'[s].then = Null
           /\ cmd'[s].state = cmd[s].state /\ HasBackup(s)
<1>. DEFINE q == [[cmd[s] EXCEPT !.pc = cmd[s].then] EXCEPT !.then = Null]
<1>1. /\ cmd[s] \in Commands /\ cmd' = [cmd EXCEPT ![s] = q]
      /\ cmd[s].ino = Null /\ cmd[s].then \in {"change", "reread"}
  BY DEF CmdTyped, CmdSane, Sane, Commands, Thens
<1>2. /\ q \in Commands /\ q.kind = cmd[s].kind /\ q.ino = cmd[s].ino /\ q.pc = cmd[s].then
      /\ q.state = cmd[s].state /\ q.then = Null /\ q.name = cmd[s].name /\ q.copy = cmd[s].copy
  BY <1>1 DEF Commands, Pcs
<1>. HIDE DEF q
<1>. QED  BY <1>1, <1>2, OneCommand DEF Goes, HasBackup

-------------------------------------------------------------------------------
LEMMA SaneStep ==
    ASSUME CmdSane, NEW s \in Shells, OthersWait(s), Sane(s)'
    PROVE  CmdSane'
BY DEF CmdSane, Sane, OthersWait, Busy, Migrates

LEMMA ContentTyped ==
    ASSUME PathTyped, DataTyped
    PROVE  Content \in Contents
BY DEF PathTyped, DataTyped, Content, Contents, InodeNames

LEMMA DataStep ==
    ASSUME DataTyped, NEW i, NEW c \in Contents, roll' \in Contents,
           data' = data \/ data' = [data EXCEPT ![i] = c]
    PROVE  DataTyped'
BY DEF DataTyped

LEMMA FilesStay ==
    ASSUME PathTyped, OneName, DataTyped, UNCHANGED <<path, data, roll>>
    PROVE  PathTyped' /\ OneName' /\ DataTyped'
BY DEF PathTyped, OneName, DataTyped

LEMMA FilesStep ==
    ASSUME FilesTyped, NEW s \in Shells, StateFileNext(s)
    PROVE  FilesTyped'
<1>. USE DEF FilesTyped
<1>0. /\ cmd[s] \in Commands /\ Sane(s) /\ Content \in Contents
      /\ Empty \in Contents /\ Torn \in Contents /\ Null \in Contents
  BY ContentTyped DEF CmdTyped, CmdSane, Contents
<1>1. ASSUME End(s)  PROVE CmdTyped' /\ CmdSane'
  BY <1>1, EndEffect, SaneStep
<1>2. ASSUME NEW kind \in Kinds, Begin(s, kind)  PROVE FilesTyped'
  <2>1. PICK q \in Commands : Begun(s, q) /\ cmd' = [cmd EXCEPT ![s] = q]
    BY <1>2, BeginEffect
  <2>2. CmdTyped' /\ cmd'[s] = q /\ OthersWait(s)
    BY <2>1, OneCommand
  <2>3. UNCHANGED <<path, data, roll, draft, named, own>>
    BY <1>2 DEF Begin, stateDir, historyDir
  <2>4. Sane(s)'
    <3>1. Parses => Content \in States
      BY DEF Parses
    <3>2. createInitialState \in States
      BY DEF createInitialState, States
    <3>. HIDE DEF createInitialState
    <3>. QED
      BY <2>1, <2>2, <3>1, <3>2, StateFileAssumption DEF Begun, Sane, Busy, Thens, Migrates
  <2>. QED  BY <2>2, <2>3, <2>4, SaneStep, FilesStay DEF HistoryTyped
<1>3. ASSUME Change(s)  PROVE FilesTyped'
  <2>1. UNCHANGED <<path, data, roll, draft, named, own>> /\ cmd[s].pc = "change"
    BY <1>3 DEF Change, stateDir, historyDir
  <2>2. CASE ~End(s)
    <3>1. CmdTyped' /\ OthersWait(s) /\ Sane(s)'
      BY <1>0, <1>3, <2>1, <2>2, ChangeEffect DEF Goes, Sane, Thens, Migrates
    <3>. QED  BY <2>1, <3>1, SaneStep, FilesStay DEF HistoryTyped
  <2>. QED  BY <1>1, <2>1, <2>2, FilesStay DEF HistoryTyped
<1>4. ASSUME ParseForBackup(s)  PROVE FilesTyped'
  <2>1. UNCHANGED <<path, data, roll, draft, named, own>> /\ cmd[s].pc = "backup"
    BY <1>4 DEF ParseForBackup, stateDir, historyDir
  <2>2. CASE ~End(s)
    <3>1. CmdTyped' /\ OthersWait(s) /\ Sane(s)'
      BY <1>0, <1>4, <2>1, <2>2, ParseEffect DEF Goes, Remembers, Sane, Busy, Migrates
    <3>. QED  BY <2>1, <3>1, SaneStep, FilesStay DEF HistoryTyped
  <2>. QED  BY <1>1, <2>1, <2>2, FilesStay DEF HistoryTyped
<1>5. ASSUME ChooseName(s)  PROVE FilesTyped'
  <2>1. UNCHANGED <<path, data, roll, draft, named, own>> /\ cmd[s].pc = "name"
    BY <1>5 DEF ChooseName, stateDir, historyDir
  <2>2. CmdTyped' /\ OthersWait(s) /\ Sane(s)'
    BY <1>0, <1>5, <2>1, ChooseEffect DEF Goes, Remembers, Sane, Busy, Migrates
  <2>. QED  BY <2>1, <2>2, SaneStep, FilesStay DEF HistoryTyped
<1>6. ASSUME CopyState(s)  PROVE FilesTyped'
  <2>1. UNCHANGED <<path, data, roll, named, own>> /\ cmd[s].pc = "copy"
    BY <1>6 DEF CopyState, stateDir
  <2>2. HistoryTyped'
    BY <1>0, <1>6, <2>1 DEF CopyState, HistoryTyped
  <2>3. CASE ~End(s)
    <3>1. CmdTyped' /\ OthersWait(s) /\ Sane(s)'
      BY <1>0, <1>6, <2>1, <2>3, CopyEffect DEF Goes, Remembers, Sane, Busy, Migrates
    <3>. QED  BY <2>1, <2>2, <3>1, SaneStep, FilesStay
  <2>. QED  BY <1>1, <2>1, <2>2, <2>3, FilesStay
<1>7. ASSUME PublishCopy(s)  PROVE FilesTyped'
  <2>1. UNCHANGED <<path, data, roll>> /\ cmd[s].pc = "publish"
    BY <1>7 DEF PublishCopy, stateDir
  <2>2. HistoryTyped'
    <3>1. cmd[s].copy \in Contents /\ cmd[s].name \in Preferred \cup {Null}
      BY <1>0 DEF Commands
    <3>. QED  BY <1>0, <1>7, <3>1 DEF PublishCopy, HistoryTyped, historyDir
  <2>3. CASE ~End(s)
    <3>1. CmdTyped' /\ OthersWait(s) /\ Sane(s)'
      BY <1>0, <1>7, <2>1, <2>3, PublishEffect DEF Goes, Remembers, Sane, Busy, Migrates
    <3>. QED  BY <2>1, <2>2, <3>1, SaneStep, FilesStay
  <2>. QED  BY <1>1, <2>1, <2>2, <2>3, FilesStay
<1>8. ASSUME OpenTemporary(s)  PROVE FilesTyped'
  <2>1. PICK i \in Inodes :
               /\ IF path.tmp = Null THEN i # path.state ELSE i = path.tmp
               /\ data' = [data EXCEPT ![i] = Empty]
               /\ path' = [path EXCEPT !.tmp = i]
               /\ Goes(s, "write") /\ Remembers(s) /\ HasBackup(s) /\ cmd'[s].ino = i
    BY <1>8, OpenEffect
  <2>2. cmd[s].pc = "open" /\ UNCHANGED <<roll, draft, named, own>>
    BY <1>8 DEF OpenTemporary, historyDir
  <2>3. Sane(s)'
    BY <1>0, <2>1, <2>2 DEF Goes, Remembers, Sane, Busy, Migrates
  <2>4. PathTyped' /\ OneName'
    BY <2>1 DEF PathTyped, OneName, InodeNames
  <2>5. DataTyped'
    BY <1>0, <2>1, <2>2, DataStep DEF DataTyped
  <2>. QED  BY <2>1, <2>2, <2>3, <2>4, <2>5, SaneStep DEF Goes, HistoryTyped
<1>9. ASSUME WriteTemporary(s)  PROVE FilesTyped'
  <2>1. cmd[s].pc = "write" /\ UNCHANGED <<path, roll, draft, named, own>>
    BY <1>9 DEF WriteTemporary, historyDir
  <2>2. cmd[s].state \in States /\ cmd[s].ino \in InodeNames
    BY <1>0, <2>1 DEF Sane, Busy, Commands
  <2>3. DataTyped' /\ PathTyped' /\ OneName'
    <3>1. PICK c \in {cmd[s].state, Torn, data[cmd[s].ino]} : data' = [data EXCEPT ![cmd[s].ino] = c]
      BY <1>9 DEF WriteTemporary, Filled
    <3>2. c \in Contents \/ data' = data
      BY <1>0, <2>2, <3>1 DEF DataTyped, Contents
    <3>. QED  BY <1>0, <2>1, <3>1, <3>2, DataStep DEF DataTyped, PathTyped, OneName
  <2>4. CASE cmd' = [cmd EXCEPT ![s].pc = "rename", ![s].ino = Null]
    <3>1. CmdTyped' /\ OthersWait(s) /\ Sane(s)'
      BY <1>0, <2>1, <2>4, CloseEffect DEF Goes, Remembers, Sane, Busy, Migrates, Pcs
    <3>. QED  BY <2>1, <2>3, <3>1, SaneStep DEF HistoryTyped
  <2>5. CASE SaveThrows(s) /\ ~End(s)
    <3>1. CmdTyped' /\ OthersWait(s) /\ Sane(s)'
      BY <1>0, <2>1, <2>5, ThrowEffect DEF Goes, Remembers, Sane, Busy, Migrates
    <3>. QED  BY <2>1, <2>3, <3>1, SaneStep DEF HistoryTyped
  <2>. QED  BY <1>1, <1>9, <2>1, <2>3, <2>4, <2>5 DEF WriteTemporary, HistoryTyped
<1>10. ASSUME Rename(s)  PROVE FilesTyped'
  <2>1. cmd[s].pc = "rename" /\ UNCHANGED <<data, roll, draft, named, own>>
    BY <1>10 DEF Rename, historyDir
  <2>2. PathTyped' /\ OneName' /\ DataTyped' /\ HistoryTyped'
    BY <1>10, <2>1 DEF Rename, PathTyped, OneName, DataTyped, HistoryTyped, InodeNames
  <2>3. CASE ~End(s) /\ cmd' = [cmd EXCEPT ![s].pc = cmd[s].then, ![s].then = Null] /\ cmd[s].then # "done"
    <3>1. CmdTyped' /\ OthersWait(s) /\ Sane(s)'
      BY <1>0, <2>1, <2>3, RenameEffect, StateFileAssumption
      DEF Goes, HasBackup, Sane, Busy, Migrates, Thens
    <3>. QED  BY <2>2, <3>1, SaneStep
  <2>4. CASE SaveThrows(s) /\ ~End(s)
    <3>1. CmdTyped' /\ OthersWait(s) /\ Sane(s)'
      BY <1>0, <2>1, <2>4, ThrowEffect DEF Goes, Remembers, Sane, Busy, Migrates
    <3>. QED  BY <2>2, <3>1, SaneStep
  <2>. QED  BY <1>1, <1>10, <2>2, <2>3, <2>4 DEF Rename
<1>11. ASSUME Reread(s)  PROVE FilesTyped'
  <2>1. /\ UNCHANGED <<path, data, roll, draft, named, own>> /\ cmd[s].pc = "reread"
        /\ End(s) \/ Set(s, "restore")
    BY <1>11 DEF Reread, stateDir, historyDir
  <2>2. CASE Set(s, "restore")
    <3>1. CmdTyped' /\ OthersWait(s) /\ Sane(s)'
      BY <1>0, <2>1, <2>2, SetEffect DEF Sane, Busy, Migrates, Pcs
    <3>. QED  BY <2>1, <3>1, SaneStep, FilesStay DEF HistoryTyped
  <2>. QED  BY <1>1, <2>1, <2>2, FilesStay DEF HistoryTyped
<1>12. ASSUME CopyBackup(s)  PROVE FilesTyped'
  <2>1. /\ UNCHANGED <<path, data, draft, named, own>> /\ cmd[s].pc = "restore"
        /\ End(s) \/ Set(s, "reinstate")
        /\ roll' \in {Null, cmd[s].copy, named[cmd[s].name]}
        /\ roll' = named[cmd[s].name] => roll' = Null \/ cmd[s].name # Null \/ roll' = cmd[s].copy
    BY <1>12 DEF CopyBackup, historyDir
  <2>2. roll' \in Contents
    BY <1>0, <2>1 DEF Commands, HistoryTyped
  <2>3. PathTyped' /\ OneName' /\ DataTyped' /\ HistoryTyped'
    BY <2>1, <2>2 DEF PathTyped, OneName, DataTyped, HistoryTyped
  <2>4. CASE Set(s, "reinstate")
    <3>1. CmdTyped' /\ OthersWait(s) /\ Sane(s)'
      BY <1>0, <2>1, <2>4, SetEffect DEF Sane, Busy, Migrates, Pcs
    <3>. QED  BY <2>3, <3>1, SaneStep
  <2>. QED  BY <1>1, <2>1, <2>3, <2>4
<1>13. ASSUME Reinstate(s)  PROVE FilesTyped'
  <2>1. cmd[s].pc = "reinstate" /\ UNCHANGED <<draft, named, own>> /\ End(s) /\ roll' = Null
    BY <1>13 DEF Reinstate, historyDir
  <2>2. Fresh \in Inodes /\ Fresh # path.tmp
    BY <1>0, <2>1, FreshExists DEF Sane
  <2>3. PathTyped' /\ OneName'
    BY <1>13, <2>2 DEF Reinstate, PathTyped, OneName, InodeNames
  <2>4. DataTyped'
    BY <1>0, <1>13, <2>1, DataStep DEF Reinstate, DataTyped
  <2>. QED  BY <1>1, <2>1, <2>3, <2>4 DEF HistoryTyped
<1>14. ASSUME Crash(s)  PROVE FilesTyped'
  BY <1>1, <1>14, FilesStay DEF Crash, stateDir, historyDir, HistoryTyped
<1>. QED
  BY <1>2, <1>3, <1>4, <1>5, <1>6, <1>7, <1>8, <1>9, <1>10, <1>11, <1>12, <1>13, <1>14
  DEF StateFileNext

-------------------------------------------------------------------------------
(* As long as no two commands at work chose the same name, no file has the   *)
(* name a command chose, and no other command writes the same draft.         *)
ApartInv ==
    ~clash => \A s \in Shells : Chose(s) /\ cmd[s].name # Null =>
        /\ named[cmd[s].name] = Null
        /\ \A t \in Shells : Chose(t) /\ cmd[t].name = cmd[s].name => t = s

LEMMA ChangesSeen ==
    ASSUME NEW s \in Shells, StateFileNext(s)
    PROVE  UNCHANGED start /\ (clash => clash') /\ met \subseteq met' /\ saved \subseteq saved'
<1>1. UNCHANGED start
  BY DEF StateFileNext, Begin, Change, ParseForBackup, ChooseName, CopyState, PublishCopy,
         OpenTemporary, WriteTemporary, Rename, Reread, CopyBackup, Reinstate, Crash, seen
<1>2. clash => clash'
  BY DEF StateFileNext, Begin, Change, ParseForBackup, ChooseName, CopyState, PublishCopy,
         OpenTemporary, WriteTemporary, Rename, Reread, CopyBackup, Reinstate, Crash, seen
<1>3. met \subseteq met'
  BY DEF StateFileNext, Begin, Change, ParseForBackup, ChooseName, CopyState, PublishCopy,
         OpenTemporary, WriteTemporary, Rename, Reread, CopyBackup, Reinstate, Crash, seen
<1>4. saved \subseteq saved'
  BY DEF StateFileNext, Begin, Change, ParseForBackup, ChooseName, CopyState, PublishCopy,
         OpenTemporary, WriteTemporary, Rename, Reread, CopyBackup, Reinstate, Crash, seen
<1>. QED  BY <1>1, <1>2, <1>3, <1>4

LEMMA ApartStep ==
    ASSUME FilesTyped, ApartInv, NEW s \in Shells, StateFileNext(s)
    PROVE  ApartInv'
<1>. SUFFICES ASSUME ~clash'  PROVE ApartInv'
  BY DEF ApartInv
<1>0. /\ CmdTyped /\ CmdSane /\ cmd[s] \in Commands /\ Sane(s) /\ Content \in Contents
      /\ HistoryTyped
  BY ContentTyped DEF FilesTyped, CmdTyped, CmdSane
<1>1. ~clash
  BY ChangesSeen
<1>2. \A t \in Shells : Chose(t) /\ cmd[t].name # Null =>
          /\ named[cmd[t].name] = Null
          /\ \A u \in Shells : Chose(u) /\ cmd[u].name = cmd[t].name => u = t
  BY <1>1 DEF ApartInv
<1>3. ASSUME named' = named, OthersWait(s), Chose(s)' => Chose(s) /\ cmd'[s].name = cmd[s].name
      PROVE  ApartInv'
  BY <1>2, <1>3 DEF ApartInv, OthersWait, Chose
<1>4. ASSUME named' = named, End(s)  PROVE ApartInv'
  BY <1>0, <1>3, <1>4, EndEffect DEF Chose
<1>5. ASSUME NEW kind \in Kinds, Begin(s, kind)  PROVE ApartInv'
  <2>1. PICK q \in Commands : Begun(s, q) /\ cmd' = [cmd EXCEPT ![s] = q]
    BY <1>0, <1>5, BeginEffect
  <2>2. cmd'[s] = q /\ OthersWait(s) /\ named' = named
    BY <1>0, <1>5, <2>1, OneCommand DEF Begin, historyDir
  <2>3. ~Chose(s)'
    BY <2>1, <2>2 DEF Begun, Chose
  <2>. QED  BY <1>3, <2>2, <2>3
<1>6. ASSUME Change(s)  PROVE ApartInv'
  BY <1>0, <1>3, <1>4, <1>6, ChangeEffect DEF Change, historyDir, Goes, Chose
<1>7. ASSUME ParseForBackup(s)  PROVE ApartInv'
  BY <1>0, <1>3, <1>4, <1>7, ParseEffect DEF ParseForBackup, historyDir, Goes, Chose
<1>8. ASSUME ChooseName(s)  PROVE ApartInv'
  <2>1. /\ Goes(s, "copy") /\ named' = named /\ cmd[s].pc = "name"
        /\ \/ cmd'[s].name = Null
           \/ /\ cmd'[s].name = cmd[s].name /\ named[cmd[s].name] = Null
              /\ \A t \in Shells : ~(Chose(t) /\ cmd[t].name = cmd[s].name)
    BY <1>0, <1>8, ChooseEffect DEF ChooseName, historyDir
  <2>. QED  BY <1>2, <2>1 DEF ApartInv, Goes, OthersWait, Chose
<1>9. ASSUME CopyState(s)  PROVE ApartInv'
  <2>1. named' = named /\ Chose(s)
    BY <1>9 DEF CopyState, Chose
  <2>. QED  BY <1>0, <1>3, <1>4, <1>9, <2>1, CopyEffect DEF Goes
<1>10. ASSUME PublishCopy(s)  PROVE ApartInv'
  <2>1. Chose(s) /\ OthersWait(s) /\ ~Chose(s)'
    BY <1>0, <1>10, PublishEffect, EndEffect DEF PublishCopy, Goes, Chose
  <2>2. CASE named' = named
    BY <1>3, <2>1, <2>2
  <2>3. CASE cmd[s].name # Null /\ named' = [named EXCEPT ![cmd[s].name] = draft[cmd[s].name]]
    BY <1>0, <1>2, <2>1, <2>3 DEF ApartInv, OthersWait, Chose, HistoryTyped
  <2>. QED  BY <1>10, <2>2, <2>3 DEF PublishCopy, historyDir
<1>11. ASSUME OpenTemporary(s)  PROVE ApartInv'
  <2>1. Goes(s, "write") /\ named' = named
    BY <1>0, <1>11, OpenEffect DEF OpenTemporary, historyDir, FilesTyped
  <2>. QED  BY <1>3, <2>1 DEF Goes, Chose
<1>12. ASSUME named' = named, SaveThrows(s)  PROVE ApartInv'
  BY <1>0, <1>3, <1>4, <1>12, ThrowEffect DEF Goes, Chose
<1>13. ASSUME WriteTemporary(s)  PROVE ApartInv'
  <2>1. CASE cmd' = [cmd EXCEPT ![s].pc = "rename", ![s].ino = Null]
    <3>1. Goes(s, "rename")
      BY <1>0, <2>1, CloseEffect DEF Pcs
    <3>. QED  BY <1>3, <1>13, <3>1 DEF Goes, Chose, WriteTemporary, historyDir
  <2>. QED  BY <1>12, <1>13, <2>1 DEF WriteTemporary, historyDir
<1>14. ASSUME Rename(s)  PROVE ApartInv'
  <2>1. CASE /\ cmd[s].then # "done"
             /\ cmd' = [cmd EXCEPT ![s].pc = cmd[s].then, ![s].then = Null]
    <3>1. Goes(s, cmd[s].then) /\ cmd[s].then \in {"change", "reread"}
      BY <1>0, <1>14, <2>1, RenameEffect DEF Rename
    <3>. QED  BY <1>3, <1>14, <3>1 DEF Goes, Chose, Rename, historyDir
  <2>. QED  BY <1>4, <1>12, <1>14, <2>1 DEF Rename, historyDir
<1>15. ASSUME Set(s, "restore") \/ Set(s, "reinstate"), named' = named  PROVE ApartInv'
  BY <1>0, <1>3, <1>15, SetEffect DEF Pcs, Chose
<1>16. ASSUME Reread(s)  PROVE ApartInv'
  BY <1>4, <1>15, <1>16 DEF Reread, historyDir
<1>17. ASSUME CopyBackup(s)  PROVE ApartInv'
  BY <1>4, <1>15, <1>17 DEF CopyBackup, historyDir
<1>18. ASSUME Reinstate(s) \/ Crash(s)  PROVE ApartInv'
  BY <1>4, <1>18 DEF Reinstate, Crash, historyDir
<1>. QED
  BY <1>5, <1>6, <1>7, <1>8, <1>9, <1>10, <1>11, <1>13, <1>14, <1>16, <1>17, <1>18
  DEF StateFileNext

-------------------------------------------------------------------------------
(* As long as no copy of the version 2 state has its name, the state is where *)
(* it was, no temporary file exists, no command is past its backup, and what *)
(* one is about to give a name is a copy of it.                              *)
Quiet == {"idle", "change", "backup", "name", "copy", "publish", "ended"}

Publishes(s) == IF cmd[s].name = Null THEN cmd[s].copy ELSE draft[cmd[s].name]

OriginalInv ==
    start \in States /\ start.v = 2 /\ ~clash /\ start \notin History =>
        /\ path.state = 1 /\ path.tmp = Null /\ data[1] = start
        /\ \A s \in Shells :
              cmd[s].pc \in Quiet /\ (cmd[s].pc = "publish" => Publishes(s) = start)

(* A copy that has its name keeps it.                                        *)
LEMMA HistoryGrows ==
    ASSUME FilesTyped, ApartInv, NEW s \in Shells, StateFileNext(s), ~clash
    PROVE  History \ {Null} \subseteq History'
<1>1. CASE PublishCopy(s) /\ named' # named
  <2>1. /\ cmd[s].name # Null /\ Chose(s) /\ own' = own
        /\ named' = [named EXCEPT ![cmd[s].name] = draft[cmd[s].name]]
    BY <1>1 DEF PublishCopy, historyDir, Chose
  <2>2. named[cmd[s].name] = Null
    BY <2>1 DEF ApartInv
  <2>3. \A n \in Preferred \ {cmd[s].name} : named'[n] = named[n]
    BY <2>1 DEF FilesTyped, HistoryTyped
  <2>. QED  BY <2>1, <2>2, <2>3 DEF History
<1>2. CASE ~(PublishCopy(s) /\ named' # named)
  <2>1. named' = named /\ own \subseteq own'
    BY <1>2 DEF StateFileNext, Begin, Change, ParseForBackup, ChooseName, CopyState, PublishCopy,
         OpenTemporary, WriteTemporary, Rename, Reread, CopyBackup, Reinstate, Crash, historyDir
  <2>. QED  BY <2>1 DEF History
<1>. QED  BY <1>1, <1>2

LEMMA OriginalStep ==
    ASSUME FilesTyped, ApartInv, OriginalInv, NEW s \in Shells, StateFileNext(s)
    PROVE  OriginalInv'
<1>. SUFFICES ASSUME start' \in States, start'.v = 2, ~clash', start' \notin History'
              PROVE  /\ path'.state = 1 /\ path'.tmp = Null /\ data'[1] = start'
                     /\ \A t \in Shells : cmd'[t].pc \in Quiet
                     /\ \A t \in Shells : cmd'[t].pc = "publish" => Publishes(t)' = start'
  BY DEF OriginalInv
<1>1. start' = start /\ ~clash
  BY ChangesSeen
<1>2. start \notin History
  BY <1>1, HistoryGrows, StateFileAssumption
<1>3. /\ path.state = 1 /\ path.tmp = Null /\ data[1] = start
      /\ \A t \in Shells : cmd[t].pc \in Quiet /\ (cmd[t].pc = "publish" => Publishes(t) = start)
      /\ CmdTyped /\ CmdSane /\ HistoryTyped /\ cmd[s] \in Commands
      /\ Content \in Contents
  BY <1>1, <1>2, ContentTyped DEF OriginalInv, FilesTyped, CmdTyped
<1>4. path.state # Null /\ Content = start
  <2>1. Cardinality(Shells) \in Nat
    BY StateFileAssumption, FS_CardinalityType
  <2>. QED  BY <1>3, <2>1, StateFileAssumption DEF Inodes, Content
<1>5. start # Null
  BY <1>1, StateFileAssumption
<1>6. ASSUME UNCHANGED <<path, data>>, OthersWait(s), cmd'[s].pc \in Quiet,
             \A t \in Shells \ {s} : cmd[t].pc = "publish" => Publishes(t)' = Publishes(t),
             cmd'[s].pc = "publish" => Publishes(s)' = start
      PROVE  /\ path'.state = 1 /\ path'.tmp = Null /\ data'[1] = start'
             /\ \A t \in Shells : cmd'[t].pc \in Quiet
             /\ \A t \in Shells : cmd'[t].pc = "publish" => Publishes(t)' = start'
  BY <1>1, <1>3, <1>6 DEF OthersWait
<1>7. ASSUME UNCHANGED <<path, data, draft>>, OthersWait(s), cmd'[s].pc \in Quiet \ {"publish"}
      PROVE  /\ path'.state = 1 /\ path'.tmp = Null /\ data'[1] = start'
             /\ \A t \in Shells : cmd'[t].pc \in Quiet
             /\ \A t \in Shells : cmd'[t].pc = "publish" => Publishes(t)' = start'
  BY <1>6, <1>7 DEF OthersWait, Publishes
<1>8. ASSUME NEW kind \in Kinds, Begin(s, kind)
      PROVE  UNCHANGED <<path, data, draft>> /\ OthersWait(s) /\ cmd'[s].pc \in Quiet \ {"publish"}
  <2>1. PICK q \in Commands : Begun(s, q) /\ cmd' = [cmd EXCEPT ![s] = q]
    BY <1>3, <1>8, BeginEffect
  <2>2. cmd'[s] = q /\ OthersWait(s) /\ UNCHANGED <<path, data, draft>>
    BY <1>3, <1>8, <2>1, OneCommand DEF Begin, stateDir, historyDir
  <2>3. q.pc \in Quiet \ {"publish"}
    BY <1>1, <1>4, <2>1 DEF Begun, Quiet
  <2>. QED  BY <2>2, <2>3
<1>9. ASSUME UNCHANGED <<path, data, draft>>, End(s)
      PROVE  OthersWait(s) /\ cmd'[s].pc \in Quiet \ {"publish"}
  BY <1>3, <1>9, EndEffect DEF Quiet
<1>10. ASSUME Change(s)
       PROVE  UNCHANGED <<path, data, draft>> /\ OthersWait(s) /\ cmd'[s].pc \in Quiet \ {"publish"}
  BY <1>3, <1>4, <1>9, <1>10, ChangeEffect DEF Change, stateDir, historyDir, Goes, Quiet
<1>11. ASSUME ParseForBackup(s)
       PROVE  UNCHANGED <<path, data, draft>> /\ OthersWait(s) /\ cmd'[s].pc \in Quiet \ {"publish"}
  BY <1>3, <1>9, <1>11, ParseEffect DEF ParseForBackup, stateDir, historyDir, Goes, Quiet
<1>12. ASSUME ChooseName(s)
       PROVE  UNCHANGED <<path, data, draft>> /\ OthersWait(s) /\ cmd'[s].pc \in Quiet \ {"publish"}
  BY <1>3, <1>12, ChooseEffect DEF ChooseName, stateDir, historyDir, Goes, Quiet
<1>13. ASSUME CopyState(s)
       PROVE  /\ UNCHANGED <<path, data>> /\ OthersWait(s) /\ cmd'[s].pc \in Quiet
              /\ \A t \in Shells \ {s} : cmd[t].pc = "publish" => Publishes(t)' = Publishes(t)
              /\ cmd'[s].pc = "publish" => Publishes(s)' = start
  <2>1. /\ UNCHANGED <<path, data>> /\ Chose(s)
        /\ \/ draft' = draft
           \/ cmd[s].name # Null /\ \E c : draft' = [draft EXCEPT ![cmd[s].name] = c]
    BY <1>13 DEF CopyState, stateDir, Chose
  <2>2. OthersWait(s) /\ cmd'[s].pc \in {"publish", "ended"}
    BY <1>3, <1>13, CopyEffect, EndEffect DEF Goes
  <2>3. ASSUME NEW t \in Shells \ {s}, cmd[t].pc = "publish"  PROVE Publishes(t)' = Publishes(t)
    <3>1. Chose(t) /\ cmd'[t] = cmd[t]
      BY <2>2, <2>3 DEF Chose, OthersWait
    <3>2. cmd[t].name # Null => cmd[t].name # cmd[s].name /\ cmd[t].name \in Preferred
      BY <1>1, <1>3, <2>1, <2>3, <3>1 DEF ApartInv, CmdTyped, Commands
    <3>. QED  BY <1>3, <2>1, <3>1, <3>2 DEF Publishes, HistoryTyped
  <2>4. ASSUME cmd'[s].pc = "publish"  PROVE Publishes(s)' = start
    <3>1. ~End(s)
      BY <1>3, <2>4, EndEffect
    <3>2. /\ cmd'[s].name = cmd[s].name /\ cmd[s].name \in Preferred \cup {Null}
          /\ cmd[s].name = Null => cmd'[s].copy = Content
          /\ cmd[s].name # Null => draft' = [draft EXCEPT ![cmd[s].name] = Content]
      BY <1>3, <1>13, <3>1, CopyEffect DEF Commands
    <3>. QED  BY <1>3, <1>4, <3>2 DEF Publishes, HistoryTyped
  <2>. QED  BY <2>1, <2>2, <2>3, <2>4 DEF Quiet
<1>14. ~PublishCopy(s)
  <2>. SUFFICES ASSUME PublishCopy(s)  PROVE FALSE
    OBVIOUS
  <2>1. Publishes(s) = start /\ cmd[s].name \in Preferred \cup {Null}
    BY <1>3 DEF PublishCopy, Commands
  <2>2. CASE cmd[s].name = Null
    <3>1. start \in own'
      BY <2>1, <2>2 DEF PublishCopy, Publishes
    <3>. QED  BY <1>1, <3>1 DEF History
  <2>3. CASE cmd[s].name # Null
    <3>1. draft[cmd[s].name] = start /\ cmd[s].name \in Preferred
      BY <2>1, <2>3 DEF Publishes
    <3>2. named' = [named EXCEPT ![cmd[s].name] = start]
      BY <1>5, <2>3, <3>1 DEF PublishCopy
    <3>3. named'[cmd[s].name] = start
      BY <1>3, <3>1, <3>2 DEF HistoryTyped
    <3>. QED  BY <1>1, <3>1, <3>3 DEF History
  <2>. QED  BY <2>2, <2>3
<1>15. /\ ~OpenTemporary(s) /\ ~WriteTemporary(s) /\ ~Rename(s) /\ ~Reread(s)
       /\ ~CopyBackup(s) /\ ~Reinstate(s)
  BY <1>3 DEF Quiet, OpenTemporary, WriteTemporary, Rename, Reread, CopyBackup, Reinstate
<1>16. ASSUME Crash(s)
       PROVE  UNCHANGED <<path, data, draft>> /\ OthersWait(s) /\ cmd'[s].pc \in Quiet \ {"publish"}
  BY <1>9, <1>16 DEF Crash, stateDir, historyDir
<1>. QED
  BY <1>6, <1>7, <1>8, <1>10, <1>11, <1>12, <1>13, <1>14, <1>15, <1>16 DEF StateFileNext

-------------------------------------------------------------------------------
(* Commands that work alone, and windows.                                    *)

LEMMA OthersWaitStep ==
    ASSUME FilesTyped, NEW s \in Shells, StateFileNext(s)
    PROVE  OthersWait(s)
<1>0. CmdTyped /\ CmdSane /\ PathTyped /\ Content \in Contents
  BY ContentTyped DEF FilesTyped
<1>1. End(s) => OthersWait(s)
  BY <1>0, EndEffect
<1>2. ASSUME NEW kind \in Kinds, Begin(s, kind)  PROVE OthersWait(s)
  BY <1>0, <1>2, BeginEffect, OneCommand
<1>3. ASSUME NEW p \in Pcs, Set(s, p)  PROVE OthersWait(s)
  BY <1>0, <1>3, SetEffect
<1>4. Change(s) \/ ParseForBackup(s) => OthersWait(s)
  BY <1>0, <1>1, ChangeEffect, ParseEffect DEF Goes
<1>5. ChooseName(s) \/ CopyState(s) \/ PublishCopy(s) => OthersWait(s)
  BY <1>0, <1>1, ChooseEffect, CopyEffect, PublishEffect DEF Goes
<1>6. OpenTemporary(s) => OthersWait(s)
  BY <1>0, OpenEffect DEF Goes
<1>7. SaveThrows(s) => OthersWait(s)
  BY <1>0, <1>1, ThrowEffect DEF Goes
<1>8. WriteTemporary(s) => OthersWait(s)
  BY <1>0, <1>7, CloseEffect DEF WriteTemporary, Goes, Pcs
<1>9. Rename(s) => OthersWait(s)
  BY <1>0, <1>1, <1>7, RenameEffect DEF Rename, Goes
<1>10. Reread(s) \/ CopyBackup(s) \/ Reinstate(s) \/ Crash(s) => OthersWait(s)
  BY <1>1, <1>3 DEF Reread, CopyBackup, Reinstate, Crash, Pcs
<1>. QED  BY <1>2, <1>4, <1>5, <1>6, <1>8, <1>9, <1>10 DEF StateFileNext

LEMMA IdleBegins ==
    ASSUME NEW s \in Shells, StateFileNext(s), ~Busy(s)
    PROVE  \E kind \in Kinds : Begin(s, kind)
BY DEF StateFileNext, Busy, Change, ParseForBackup, ChooseName, CopyState, PublishCopy,
       OpenTemporary, WriteTemporary, Rename, Reread, CopyBackup, Reinstate, Crash

Alone(s) == \A t \in Shells : Busy(t) => t = s

(* What a command that works alone has in its temporary file.                *)
TmpOwn(s) ==
    /\ cmd[s].pc = "write" => path.tmp # Null /\ cmd[s].ino = path.tmp /\ data[path.tmp] = Empty
    /\ cmd[s].pc = "rename" => path.tmp # Null /\ data[path.tmp] = cmd[s].state

SoloInv == \A s \in Shells : Busy(s) /\ s \notin met => Alone(s) /\ TmpOwn(s)

(* Nobody who is at work and has met nobody is at work with the one that steps. *)
LEMMA MeetStep ==
    ASSUME FilesTyped, SoloInv, NEW s \in Shells, StateFileNext(s),
           NEW t \in Shells, Busy(t)', t \notin met'
    PROVE  /\ t = s /\ Alone(s)' /\ s \notin met
           /\ Busy(s) => Alone(s) /\ TmpOwn(s)
           /\ ~Busy(s) => \A u \in Shells : ~Busy(u)
<1>1. OthersWait(s) /\ t \notin met
  BY OthersWaitStep, ChangesSeen
<1>2. CASE Busy(s)
  <2>1. t = s
    BY <1>1, <1>2 DEF SoloInv, Alone, OthersWait, Busy
  <2>. QED  BY <1>1, <1>2, <2>1 DEF SoloInv, Alone, OthersWait, Busy
<1>3. CASE ~Busy(s)
  <2>1. met' = IF {u \in Shells : Busy(u)} = {} THEN met
               ELSE met \cup {u \in Shells : Busy(u)} \cup {s}
    BY <1>3, IdleBegins DEF Begin
  <2>2. CASE t = s
    <3>1. \A u \in Shells : ~Busy(u)
      BY <2>1, <2>2
    <3>. QED  BY <1>1, <1>3, <2>2, <3>1 DEF Alone, OthersWait, Busy
  <2>3. CASE t # s
    <3>1. Busy(t)
      BY <1>1, <2>3 DEF OthersWait, Busy
    <3>. QED  BY <2>1, <3>1
  <2>. QED  BY <2>2, <2>3
<1>. QED  BY <1>2, <1>3

LEMMA SoloStep ==
    ASSUME FilesTyped, SoloInv, NEW s \in Shells, StateFileNext(s)
    PROVE  SoloInv'
<1>0. /\ CmdTyped /\ CmdSane /\ PathTyped /\ DataTyped /\ cmd[s] \in Commands /\ Sane(s)
      /\ Content \in Contents
  BY ContentTyped DEF FilesTyped, CmdTyped, CmdSane
<1>. SUFFICES ASSUME Busy(s)', s \notin met', Busy(s) => TmpOwn(s)
              PROVE  TmpOwn(s)'
  BY MeetStep DEF SoloInv
<1>1. ASSUME cmd'[s].pc \notin {"write", "rename"}  PROVE TmpOwn(s)'
  BY <1>1 DEF TmpOwn
<1>2. ~End(s)
  BY <1>0, EndEffect
<1>3. ASSUME NEW kind \in Kinds, Begin(s, kind)  PROVE TmpOwn(s)'
  <2>1. PICK q \in Commands : Begun(s, q) /\ cmd' = [cmd EXCEPT ![s] = q]
    BY <1>0, <1>3, BeginEffect
  <2>2. cmd'[s] = q
    BY <1>0, <2>1, OneCommand
  <2>. QED  BY <1>1, <2>1, <2>2 DEF Begun
<1>4. ASSUME Change(s) \/ ParseForBackup(s)  PROVE TmpOwn(s)'
  BY <1>0, <1>1, <1>2, <1>4, ChangeEffect, ParseEffect DEF Goes
<1>5. ASSUME ChooseName(s) \/ CopyState(s) \/ PublishCopy(s)  PROVE TmpOwn(s)'
  BY <1>0, <1>1, <1>2, <1>5, ChooseEffect, CopyEffect, PublishEffect DEF Goes
<1>6. ASSUME OpenTemporary(s)  PROVE TmpOwn(s)'
  <2>1. PICK i \in Inodes :
               /\ data' = [data EXCEPT ![i] = Empty]
               /\ path' = [path EXCEPT !.tmp = i]
               /\ cmd'[s].pc = "write" /\ cmd'[s].ino = i
    BY <1>0, <1>6, OpenEffect DEF Goes
  <2>. QED  BY <1>0, <2>1, StateFileAssumption DEF TmpOwn, PathTyped, DataTyped
<1>7. ASSUME SaveThrows(s)  PROVE TmpOwn(s)'
  BY <1>0, <1>1, <1>2, <1>7, ThrowEffect DEF Goes
<1>8. ASSUME WriteTemporary(s)  PROVE TmpOwn(s)'
  <2>1. CASE cmd' = [cmd EXCEPT ![s].pc = "rename", ![s].ino = Null] /\ ~SaveThrows(s)
    <3>1. cmd'[s].pc = "rename" /\ cmd'[s].state = cmd[s].state
      BY <1>0, <2>1, CloseEffect DEF Goes, Remembers, Pcs
    <3>2. path.tmp # Null /\ cmd[s].ino = path.tmp /\ data[path.tmp] = Empty /\ path' = path
      BY <1>8 DEF WriteTemporary, TmpOwn, Busy
    <3>3. data' = [data EXCEPT ![path.tmp] = cmd[s].state]
      BY <1>8, <2>1, <3>2 DEF WriteTemporary, Filled
    <3>4. data'[path.tmp] = cmd[s].state
      BY <1>0, <3>2, <3>3 DEF PathTyped, DataTyped, InodeNames
    <3>. QED  BY <3>1, <3>2, <3>4 DEF TmpOwn
  <2>. QED  BY <1>7, <1>8, <2>1 DEF WriteTemporary
<1>9. ASSUME Rename(s)  PROVE TmpOwn(s)'
  <2>1. CASE cmd[s].then # "done" /\ cmd' = [cmd EXCEPT ![s].pc = cmd[s].then, ![s].then = Null]
    BY <1>0, <1>1, <1>9, <2>1, RenameEffect DEF Rename, Goes
  <2>. QED  BY <1>2, <1>7, <1>9, <2>1 DEF Rename
<1>10. ASSUME Set(s, "restore") \/ Set(s, "reinstate")  PROVE TmpOwn(s)'
  BY <1>0, <1>1, <1>10, SetEffect DEF Pcs
<1>. QED
  BY <1>2, <1>3, <1>4, <1>5, <1>6, <1>8, <1>9, <1>10
  DEF StateFileNext, Reread, CopyBackup, Reinstate, Crash

(* A state that has the mark of w, and nothing a later command would begin   *)
(* anew.                                                                     *)
Has(w, c) == c \in States /\ w \in c.marks /\ c.v = 3 /\ c.buf

WindowInv ==
    \A s \in Shells : Busy(s) /\ cmd[s].kind = "window" =>
        cmd[s].pc \in {"open", "write", "rename"} /\ cmd[s].then = "done" /\ Has(s, cmd[s].state)

LEMMA WindowStep ==
    ASSUME FilesTyped, WindowInv, NEW s \in Shells, StateFileNext(s)
    PROVE  WindowInv'
<1>0. /\ CmdTyped /\ CmdSane /\ PathTyped /\ cmd[s] \in Commands /\ Content \in Contents
      /\ Content \in States => Content.marks \in SUBSET Shells
  BY ContentTyped DEF FilesTyped, CmdTyped, States
<1>. SUFFICES ASSUME Busy(s)', cmd'[s].kind = "window"
              PROVE  /\ cmd'[s].pc \in {"open", "write", "rename"} /\ cmd'[s].then = "done"
                     /\ Has(s, cmd'[s].state)
  BY OthersWaitStep DEF WindowInv, OthersWait, Busy, Has
<1>1. ~End(s)
  BY <1>0, EndEffect
<1>2. ASSUME NEW kind \in Kinds, Begin(s, kind)
      PROVE  /\ cmd'[s].pc \in {"open", "write", "rename"} /\ cmd'[s].then = "done"
             /\ Has(s, cmd'[s].state)
  <2>1. PICK q \in Commands : Begun(s, q) /\ cmd' = [cmd EXCEPT ![s] = q]
    BY <1>0, <1>2, BeginEffect
  <2>2. cmd'[s] = q
    BY <1>0, <2>1, OneCommand
  <2>. QED  BY <2>1, <2>2 DEF Begun, Has, Busy
<1>3. ASSUME cmd[s].kind = "window", Busy(s)
      PROVE  /\ cmd[s].pc \in {"open", "write", "rename"} /\ cmd[s].then = "done"
             /\ Has(s, cmd[s].state) /\ ~Migrates(s)
  BY <1>3 DEF WindowInv, Migrates
<1>4. ASSUME Change(s) \/ ParseForBackup(s) \/ ChooseName(s) \/ CopyState(s) \/ PublishCopy(s)
      PROVE  FALSE
  <2>1. cmd'[s].kind = cmd[s].kind
    BY <1>0, <1>1, <1>4, ChangeEffect, ParseEffect, ChooseEffect, CopyEffect, PublishEffect DEF Goes
  <2>2. cmd[s].pc \in {"change", "backup", "name", "copy", "publish"}
    BY <1>4 DEF Change, ParseForBackup, ChooseName, CopyState, PublishCopy
  <2>. QED  BY <1>3, <2>1, <2>2 DEF Busy
<1>5. ASSUME OpenTemporary(s)
      PROVE  /\ cmd'[s].pc \in {"open", "write", "rename"} /\ cmd'[s].then = "done"
             /\ Has(s, cmd'[s].state)
  <2>1. Goes(s, "write") /\ Remembers(s)
    BY <1>0, <1>5, OpenEffect
  <2>. QED  BY <1>3, <1>5, <2>1 DEF Goes, Remembers, OpenTemporary, Busy
<1>6. ASSUME SaveThrows(s), Busy(s)  PROVE FALSE
  <2>1. Migrates(s) /\ cmd'[s].kind = cmd[s].kind
    BY <1>0, <1>1, <1>6, ThrowEffect DEF Goes
  <2>. QED  BY <1>3, <1>6, <2>1
<1>7. ASSUME WriteTemporary(s)
      PROVE  /\ cmd'[s].pc \in {"open", "write", "rename"} /\ cmd'[s].then = "done"
             /\ Has(s, cmd'[s].state)
  <2>1. cmd' = [cmd EXCEPT ![s].pc = "rename", ![s].ino = Null] /\ Busy(s)
    BY <1>6, <1>7 DEF WriteTemporary, Busy
  <2>2. Goes(s, "rename") /\ Remembers(s)
    BY <1>0, <2>1, CloseEffect DEF Pcs
  <2>. QED  BY <1>3, <2>1, <2>2 DEF Goes, Remembers
<1>8. ASSUME Rename(s)  PROVE FALSE
  <2>1. Busy(s)
    BY <1>8 DEF Rename, Busy
  <2>2. CASE cmd[s].then # "done" /\ cmd' = [cmd EXCEPT ![s].pc = cmd[s].then, ![s].then = Null]
    <3>1. cmd'[s].kind = cmd[s].kind
      BY <1>0, <1>8, <2>2, RenameEffect DEF Rename, Goes
    <3>. QED  BY <1>3, <2>1, <2>2, <3>1
  <2>. QED  BY <1>1, <1>6, <1>8, <2>1, <2>2 DEF Rename
<1>9. ASSUME Reread(s) \/ CopyBackup(s)  PROVE FALSE
  <2>1. Set(s, "restore") \/ Set(s, "reinstate")
    BY <1>1, <1>9 DEF Reread, CopyBackup
  <2>2. cmd'[s].kind = cmd[s].kind /\ cmd[s].pc \in {"reread", "restore"}
    BY <1>0, <1>9, <2>1, SetEffect DEF Pcs, Reread, CopyBackup
  <2>. QED  BY <1>3, <2>2 DEF Busy
<1>. QED
  BY <1>1, <1>2, <1>4, <1>5, <1>7, <1>8, <1>9 DEF StateFileNext, Reinstate, Crash


-------------------------------------------------------------------------------
(* The mark of a window that met nobody is wherever the next state can come  *)
(* from, and no migration can be under way or start.                         *)
MarkedBy(w) ==
    /\ path.state # Null
    /\ Content \in States => Has(w, Content)
    /\ path.tmp # Null /\ data[path.tmp] \in States => Has(w, data[path.tmp])
    /\ \A s \in Shells : Busy(s) => ~Migrates(s) /\ Has(w, cmd[s].state)

MarkInv == \A w \in saved \ met : MarkedBy(w)

LEMMA MarkedStep ==
    ASSUME FilesTyped, NEW w, MarkedBy(w), NEW s \in Shells, StateFileNext(s)
    PROVE  MarkedBy(w)'
<1>0. /\ CmdTyped /\ CmdSane /\ PathTyped /\ OneName /\ DataTyped /\ cmd[s] \in Commands /\ Sane(s)
      /\ Content \in Contents /\ OthersWait(s)
  BY ContentTyped, OthersWaitStep DEF FilesTyped, CmdTyped, CmdSane
<1>1. Empty \notin States /\ Torn \notin States
  BY StateFileAssumption
<1>2. Busy(s) => ~Migrates(s) /\ Has(w, cmd[s].state)
  BY DEF MarkedBy
<1>3. ASSUME Busy(s)' => ~Migrates(s)' /\ Has(w, cmd'[s].state)
      PROVE  \A t \in Shells : Busy(t)' => ~Migrates(t)' /\ Has(w, cmd'[t].state)
  BY <1>0, <1>3 DEF MarkedBy, OthersWait, Busy, Migrates, Has
<1>4. ASSUME UNCHANGED <<path, data>>, Busy(s)' => ~Migrates(s)' /\ Has(w, cmd'[s].state)
      PROVE  MarkedBy(w)'
  BY <1>3, <1>4 DEF MarkedBy, Content, Has
<1>5. End(s) => ~Busy(s)'
  BY <1>0, EndEffect
<1>6. ASSUME NEW kind \in Kinds, Begin(s, kind)  PROVE MarkedBy(w)'
  <2>1. PICK q \in Commands : Begun(s, q) /\ cmd' = [cmd EXCEPT ![s] = q]
    BY <1>0, <1>6, BeginEffect
  <2>2. cmd'[s] = q /\ UNCHANGED <<path, data>>
    BY <1>0, <1>6, <2>1, OneCommand DEF Begin, stateDir
  <2>3. path.state # Null /\ (Parses => Has(w, Content))
    BY DEF MarkedBy, Parses
  <2>4. Busy(s)' => ~Migrates(s)' /\ Has(w, cmd'[s].state)
    BY <2>1, <2>2, <2>3 DEF Begun, Has, Busy, Migrates
  <2>. QED  BY <1>4, <2>2, <2>4
<1>7. ASSUME Change(s)  PROVE MarkedBy(w)'
  <2>1. CASE ~End(s)
    <3>1. /\ cmd'[s].state \in States /\ cmd'[s].kind = cmd[s].kind
          /\ cmd'[s].state \in {initializeIdentities(cmd[s].state),
                                initializeDeploymentBuffer(cmd[s].state)}
      BY <1>0, <1>7, <2>1, ChangeEffect DEF Goes
    <3>2. Has(w, cmd[s].state) /\ ~Migrates(s)
      BY <1>2, <1>7 DEF Change, Busy
    <3>3. /\ initializeDeploymentBuffer(cmd[s].state) = cmd[s].state
          /\ Has(w, initializeIdentities(cmd[s].state))
      BY <3>2 DEF Has, initializeDeploymentBuffer, initializeIdentities, States
    <3>. QED  BY <1>4, <1>7, <3>1, <3>2, <3>3 DEF Change, stateDir, Migrates
  <2>. QED  BY <1>4, <1>5, <1>7, <2>1 DEF Change, stateDir
<1>8. ASSUME ParseForBackup(s) \/ ChooseName(s) \/ CopyState(s) \/ PublishCopy(s)
      PROVE  MarkedBy(w)'
  <2>1. UNCHANGED <<path, data>> /\ Busy(s)
    BY <1>8 DEF ParseForBackup, ChooseName, CopyState, PublishCopy, stateDir, Busy
  <2>2. End(s) \/ (Remembers(s) /\ cmd'[s].kind = cmd[s].kind)
    BY <1>0, <1>8, ParseEffect, ChooseEffect, CopyEffect, PublishEffect DEF Goes
  <2>. QED  BY <1>2, <1>4, <1>5, <2>1, <2>2 DEF Remembers, Migrates
<1>9. ASSUME OpenTemporary(s)  PROVE MarkedBy(w)'
  <2>1. PICK i \in Inodes :
               /\ IF path.tmp = Null THEN i # path.state ELSE i = path.tmp
               /\ data' = [data EXCEPT ![i] = Empty]
               /\ path' = [path EXCEPT !.tmp = i]
               /\ Goes(s, "write") /\ Remembers(s) /\ HasBackup(s) /\ cmd'[s].ino = i
    BY <1>0, <1>9, OpenEffect
  <2>2. /\ path'.state = path.state /\ path'.tmp = i /\ i # path.state
        /\ data'[path.state] = data[path.state] /\ data'[i] = Empty
    BY <1>0, <2>1 DEF PathTyped, OneName, DataTyped
  <2>3. Busy(s)' => ~Migrates(s)' /\ Has(w, cmd'[s].state)
    BY <1>2, <1>9, <2>1 DEF OpenTemporary, Busy, Goes, Remembers, Migrates
  <2>. QED  BY <1>1, <1>3, <2>2, <2>3 DEF MarkedBy, Content, Has
<1>10. ASSUME SaveThrows(s), Busy(s)  PROVE ~Busy(s)'
  BY <1>2, <1>5, <1>10 DEF SaveThrows
<1>11. ASSUME WriteTemporary(s)  PROVE MarkedBy(w)'
  <2>1. Busy(s) /\ path' = path
    BY <1>11 DEF WriteTemporary, Busy
  <2>2. PICK c \in {cmd[s].state, Torn, data[cmd[s].ino]} : data' = [data EXCEPT ![cmd[s].ino] = c]
    BY <1>11 DEF WriteTemporary, Filled
  <2>3. \A i \in Inodes : data'[i] \in States => Has(w, data'[i]) \/ data'[i] = data[i]
    BY <1>0, <1>1, <1>2, <2>1, <2>2 DEF DataTyped
  <2>4. Busy(s)' => ~Migrates(s)' /\ Has(w, cmd'[s].state)
    <3>1. CASE cmd' = [cmd EXCEPT ![s].pc = "rename", ![s].ino = Null]
      BY <1>0, <1>2, <2>1, <3>1, CloseEffect DEF Pcs, Goes, Remembers, Migrates
    <3>. QED  BY <1>10, <1>11, <2>1, <3>1 DEF WriteTemporary
  <2>5. path.state \in Inodes /\ (path.tmp # Null => path.tmp \in Inodes)
    BY <1>0 DEF PathTyped, InodeNames, MarkedBy
  <2>. QED  BY <1>3, <2>1, <2>3, <2>4, <2>5 DEF MarkedBy, Content, Has
<1>12. ASSUME Rename(s)  PROVE MarkedBy(w)'
  <2>1. Busy(s) /\ data' = data
    BY <1>12 DEF Rename, Busy
  <2>2. Busy(s)' => ~Migrates(s)' /\ Has(w, cmd'[s].state)
    <3>1. CASE cmd[s].then # "done" /\ cmd' = [cmd EXCEPT ![s].pc = cmd[s].then, ![s].then = Null]
      BY <1>0, <1>2, <1>12, <2>1, <3>1, RenameEffect DEF Rename, Goes, Migrates
    <3>. QED  BY <1>5, <1>10, <1>12, <2>1, <3>1 DEF Rename
  <2>3. CASE path.tmp = Null
    BY <1>4, <1>12, <2>1, <2>2, <2>3 DEF Rename
  <2>4. CASE path.tmp # Null
    <3>1. path' = [state |-> path.tmp, tmp |-> Null]
      BY <1>12, <2>4 DEF Rename
    <3>. QED  BY <1>3, <2>1, <2>2, <2>4, <3>1 DEF MarkedBy, Content, Has
  <2>. QED  BY <2>3, <2>4
<1>13. ~Reread(s) /\ ~CopyBackup(s) /\ ~Reinstate(s)
  BY <1>0, <1>2 DEF Sane, Busy, Reread, CopyBackup, Reinstate
<1>14. ASSUME Crash(s)  PROVE MarkedBy(w)'
  BY <1>4, <1>5, <1>14 DEF Crash, stateDir
<1>. QED
  BY <1>6, <1>7, <1>8, <1>9, <1>11, <1>12, <1>13, <1>14 DEF StateFileNext

LEMMA MarkStep ==
    ASSUME FilesTyped, SoloInv, WindowInv, MarkInv, NEW s \in Shells, StateFileNext(s)
    PROVE  MarkInv'
<1>. SUFFICES ASSUME NEW w \in saved', w \notin met'  PROVE MarkedBy(w)'
  BY DEF MarkInv
<1>1. w \notin met
  BY ChangesSeen
<1>2. CASE w \in saved
  BY <1>1, <1>2, MarkedStep DEF MarkInv
<1>3. CASE w \notin saved
  <2>1. Rename(s) /\ path.tmp # Null /\ cmd[s].kind = "window" /\ w = s
    BY <1>3 DEF StateFileNext, Begin, Change, ParseForBackup, ChooseName, CopyState, PublishCopy,
         OpenTemporary, WriteTemporary, Rename, Reread, CopyBackup, Reinstate, Crash, seen
  <2>2. Alone(s) /\ data[path.tmp] = cmd[s].state /\ Has(s, cmd[s].state) /\ cmd[s].then = "done"
    BY <1>1, <2>1 DEF SoloInv, WindowInv, TmpOwn, Busy, Rename
  <2>3. path' = [state |-> path.tmp, tmp |-> Null] /\ data' = data /\ End(s)
    BY <2>1, <2>2 DEF Rename
  <2>4. \A t \in Shells : ~Busy(t)'
    BY <2>2, <2>3, EndEffect DEF FilesTyped, Alone, OthersWait, Busy
  <2>. QED  BY <2>1, <2>2, <2>3, <2>4 DEF MarkedBy, Content, Has
<1>. QED  BY <1>2, <1>3

-------------------------------------------------------------------------------
(* As long as no two commands worked at the same time, the state file parses *)
(* and so does what a migration would restore.                               *)
Backup(s) == IF cmd[s].name = Null THEN cmd[s].copy ELSE named[cmd[s].name]

Work(s) ==
    /\ cmd[s].pc \in {"name", "copy"} => path.state # Null
    /\ cmd[s].pc = "publish" => Publishes(s) \in States
    /\ Busy(s) /\ Migrates(s) => cmd[s].pc # "change" /\ cmd[s].then # "change"
    /\ Migrates(s) /\ cmd[s].pc \in {"open", "write", "rename", "reread", "restore"} =>
          Backup(s) \in States
    /\ cmd[s].pc = "reinstate" => roll \in States

ParseInv ==
    met = {} => (path.state # Null => Content \in States) /\ \A s \in Shells : Work(s)

LEMMA ParseStep ==
    ASSUME FilesTyped, SoloInv, ParseInv, NEW s \in Shells, StateFileNext(s)
    PROVE  ParseInv'
<1>. SUFFICES ASSUME met' = {}
              PROVE  (path'.state # Null => Content' \in States) /\ \A t \in Shells : Work(t)'
  BY DEF ParseInv
<1>0. /\ CmdTyped /\ CmdSane /\ PathTyped /\ OneName /\ DataTyped /\ HistoryTyped
      /\ cmd[s] \in Commands /\ Sane(s)
      /\ Content \in Contents /\ OthersWait(s)
      /\ Null \notin States
  BY ContentTyped, OthersWaitStep, StateFileAssumption DEF FilesTyped, CmdTyped, CmdSane
<1>1. /\ met = {} /\ Work(s)
      /\ path.state # Null => Content \in States
  BY ChangesSeen DEF ParseInv
<1>2. Busy(s) => TmpOwn(s)
  BY <1>1 DEF SoloInv
<1>3. ASSUME ~Busy(s)' \/ Work(s)'  PROVE \A t \in Shells : Work(t)'
  <2>. SUFFICES ASSUME NEW t \in Shells  PROVE Work(t)'
    OBVIOUS
  <2>1. Busy(t)' => t = s
    BY MeetStep
  <2>2. ~Busy(t)' => Work(t)'
    BY DEF Busy, Work
  <2>. QED  BY <1>3, <2>1, <2>2
<1>4. ASSUME UNCHANGED <<path, data>>, ~Busy(s)' \/ Work(s)'
      PROVE  (path'.state # Null => Content' \in States) /\ \A t \in Shells : Work(t)'
  BY <1>1, <1>3, <1>4 DEF Content
<1>5. End(s) => ~Busy(s)'
  BY <1>0, EndEffect
<1>. DEFINE G == (path'.state # Null => Content' \in States) /\ \A t \in Shells : Work(t)'
<1>6. ASSUME NEW kind \in Kinds, Begin(s, kind)  PROVE G
  <2>1. PICK q \in Commands : Begun(s, q) /\ cmd' = [cmd EXCEPT ![s] = q]
    BY <1>0, <1>6, BeginEffect
  <2>2. cmd'[s] = q /\ UNCHANGED <<path, data>>
    BY <1>0, <1>6, <2>1, OneCommand DEF Begin, stateDir
  <2>3. Work(s)' \/ ~Busy(s)'
    BY <2>1, <2>2 DEF Begun, Work, Busy, Migrates
  <2>. QED  BY <1>4, <2>2, <2>3
<1>7. ASSUME Change(s)  PROVE G
  <2>1. UNCHANGED <<path, data>> /\ ~Migrates(s)
    BY <1>1, <1>7 DEF Change, stateDir, Work, Busy
  <2>2. CASE ~End(s)
    <3>1. cmd'[s].pc \in {"open", "backup"} /\ cmd'[s].kind = cmd[s].kind
      BY <1>0, <1>7, <2>2, ChangeEffect DEF Goes
    <3>2. Work(s)'
      BY <2>1, <3>1 DEF Work, Migrates
    <3>. QED  BY <1>4, <2>1, <3>2
  <2>. QED  BY <1>4, <1>5, <2>1, <2>2
<1>8. ASSUME ParseForBackup(s)  PROVE G
  <2>1. UNCHANGED <<path, data>> /\ cmd[s].pc = "backup"
    BY <1>8 DEF ParseForBackup, stateDir
  <2>2. CASE ~End(s)
    <3>1. Parses /\ cmd'[s].pc = "name" /\ cmd'[s].kind = cmd[s].kind /\ cmd'[s].then = cmd[s].then
      BY <1>0, <1>8, <2>2, ParseEffect DEF Goes, Remembers
    <3>2. path.state # Null
      BY <1>0, <3>1 DEF Parses, Content
    <3>3. Work(s)'
      BY <1>1, <2>1, <3>1, <3>2 DEF Work, Migrates, Busy
    <3>. QED  BY <1>4, <2>1, <3>3
  <2>. QED  BY <1>4, <1>5, <2>1, <2>2
<1>9. ASSUME ChooseName(s)  PROVE G
  <2>1. UNCHANGED <<path, data>> /\ cmd[s].pc = "name"
    BY <1>9 DEF ChooseName, stateDir
  <2>2. cmd'[s].pc = "copy" /\ cmd'[s].kind = cmd[s].kind /\ cmd'[s].then = cmd[s].then
    BY <1>0, <1>9, ChooseEffect DEF Goes, Remembers
  <2>3. Work(s)'
    BY <1>1, <2>1, <2>2 DEF Work, Migrates, Busy
  <2>. QED  BY <1>4, <2>1, <2>3
<1>10. ASSUME CopyState(s)  PROVE G
  <2>1. UNCHANGED <<path, data>> /\ cmd[s].pc = "copy"
    BY <1>10 DEF CopyState, stateDir
  <2>2. CASE ~End(s)
    <3>1. /\ cmd'[s].pc = "publish" /\ cmd'[s].kind = cmd[s].kind /\ cmd'[s].then = cmd[s].then
          /\ cmd'[s].name = cmd[s].name /\ cmd[s].name \in Preferred \cup {Null}
          /\ cmd[s].name = Null => cmd'[s].copy = Content
          /\ cmd[s].name # Null => draft' = [draft EXCEPT ![cmd[s].name] = Content]
      BY <1>0, <1>10, <2>2, CopyEffect DEF Goes, Remembers, Commands
    <3>2. Publishes(s)' = Content
      BY <1>0, <3>1 DEF Publishes, HistoryTyped
    <3>3. Content \in States
      BY <1>1, <2>1 DEF Work
    <3>4. Work(s)'
      BY <1>1, <2>1, <3>1, <3>2, <3>3 DEF Work, Migrates, Busy
    <3>. QED  BY <1>4, <2>1, <3>4
  <2>. QED  BY <1>4, <1>5, <2>1, <2>2
<1>11. ASSUME PublishCopy(s)  PROVE G
  <2>1. UNCHANGED <<path, data>> /\ cmd[s].pc = "publish" /\ Publishes(s) \in States
    BY <1>1, <1>11 DEF PublishCopy, stateDir, Work
  <2>2. CASE ~End(s)
    <3>1. /\ cmd'[s].pc = "open" /\ cmd'[s].kind = cmd[s].kind /\ cmd'[s].then = cmd[s].then
          /\ Migrates(s) => cmd'[s].name = cmd[s].name /\ cmd'[s].copy = cmd[s].copy
          /\ cmd[s].name \in Preferred \cup {Null}
      BY <1>0, <1>11, <2>2, PublishEffect DEF Goes, Remembers, HasBackup, Commands
    <3>2. Migrates(s) => Backup(s)' \in States
      <4>1. CASE cmd[s].name = Null
        BY <2>1, <3>1, <4>1 DEF Backup, Publishes
      <4>2. CASE cmd[s].name # Null
        <5>1. named' = [named EXCEPT ![cmd[s].name] = draft[cmd[s].name]]
          BY <1>11, <2>2, <4>2 DEF PublishCopy
        <5>. QED  BY <1>0, <2>1, <3>1, <4>2, <5>1 DEF Backup, Publishes, HistoryTyped
      <4>. QED  BY <4>1, <4>2
    <3>3. Work(s)'
      BY <1>1, <2>1, <3>1, <3>2 DEF Work, Migrates, Busy
    <3>. QED  BY <1>4, <2>1, <3>3
  <2>. QED  BY <1>4, <1>5, <2>1, <2>2
<1>12. ASSUME HasBackup(s), named' = named  PROVE Backup(s)' = Backup(s)
  BY <1>12 DEF HasBackup, Backup
<1>13. ASSUME OpenTemporary(s)  PROVE G
  <2>1. PICK i \in Inodes :
               /\ IF path.tmp = Null THEN i # path.state ELSE i = path.tmp
               /\ data' = [data EXCEPT ![i] = Empty]
               /\ path' = [path EXCEPT !.tmp = i]
               /\ Goes(s, "write") /\ Remembers(s) /\ HasBackup(s) /\ cmd'[s].ino = i
    BY <1>0, <1>13, OpenEffect
  <2>2. /\ path'.state = path.state /\ i # path.state
        /\ data'[path.state] = data[path.state]
    BY <1>0, <2>1 DEF PathTyped, OneName, DataTyped
  <2>3. cmd[s].pc = "open" /\ named' = named
    BY <1>13 DEF OpenTemporary, historyDir
  <2>4. Work(s)'
    BY <1>1, <1>12, <2>1, <2>3 DEF Work, Goes, Remembers, Migrates, Busy
  <2>. QED  BY <1>1, <1>3, <2>2, <2>4 DEF Content
<1>14. ASSUME SaveThrows(s), named' = named, cmd[s].pc \in {"write", "rename"}
       PROVE  ~Busy(s)' \/ Work(s)'
  <2>1. CASE ~End(s)
    <3>1. Migrates(s) /\ Goes(s, "restore") /\ Remembers(s) /\ HasBackup(s)
      BY <1>0, <1>14, <2>1, ThrowEffect
    <3>2. Work(s)'
      BY <1>1, <1>12, <1>14, <3>1 DEF Work, Goes, Remembers, Migrates, Busy
    <3>. QED  BY <3>2
  <2>. QED  BY <1>5, <2>1
<1>15. ASSUME WriteTemporary(s)  PROVE G
  <2>1. /\ cmd[s].pc = "write" /\ path' = path /\ named' = named
        /\ cmd[s].ino = path.tmp /\ path.tmp # Null /\ path.tmp # path.state
    BY <1>0, <1>2, <1>15 DEF WriteTemporary, TmpOwn, Busy, historyDir, OneName
  <2>2. PICK c : data' = [data EXCEPT ![path.tmp] = c]
    BY <1>15, <2>1 DEF WriteTemporary
  <2>3. data'[path.state] = data[path.state]
    BY <1>0, <2>1, <2>2 DEF DataTyped
  <2>4. CASE cmd' = [cmd EXCEPT ![s].pc = "rename", ![s].ino = Null]
    <3>1. Goes(s, "rename") /\ Remembers(s) /\ HasBackup(s)
      BY <1>0, <2>4, CloseEffect DEF Pcs
    <3>2. Work(s)'
      BY <1>1, <1>12, <2>1, <3>1 DEF Work, Goes, Remembers, Migrates, Busy
    <3>. QED  BY <1>1, <1>3, <2>1, <2>3, <3>2 DEF Content
  <2>. QED  BY <1>1, <1>3, <1>14, <1>15, <2>1, <2>3, <2>4 DEF WriteTemporary, Content
<1>16. ASSUME Rename(s)  PROVE G
  <2>1. /\ cmd[s].pc = "rename" /\ data' = data /\ named' = named
        /\ path.tmp # Null /\ data[path.tmp] = cmd[s].state /\ cmd[s].state \in States
        /\ path' = [state |-> path.tmp, tmp |-> Null]
    BY <1>0, <1>2, <1>16 DEF Rename, TmpOwn, Busy, historyDir, Sane
  <2>2. Content' \in States
    BY <2>1 DEF Content
  <2>3. CASE cmd[s].then # "done" /\ cmd' = [cmd EXCEPT ![s].pc = cmd[s].then, ![s].then = Null]
    <3>1. /\ Goes(s, cmd[s].then) /\ cmd[s].then \in {"change", "reread"}
          /\ cmd'[s].then = Null /\ HasBackup(s)
      BY <1>0, <2>1, <2>3, RenameEffect
    <3>2. Work(s)'
      BY <1>1, <1>12, <2>1, <3>1, StateFileAssumption DEF Work, Goes, Migrates, Busy, Thens
    <3>. QED  BY <1>3, <2>2, <3>2
  <2>. QED  BY <1>3, <1>5, <1>16, <2>1, <2>2, <2>3 DEF Rename
<1>17. ASSUME Reread(s)  PROVE G
  <2>1. UNCHANGED <<path, data, named>> /\ cmd[s].pc = "reread" /\ Migrates(s)
    BY <1>0, <1>17 DEF Reread, stateDir, historyDir, Sane
  <2>2. CASE Set(s, "restore")
    <3>1. /\ cmd'[s].pc = "restore" /\ cmd'[s].kind = cmd[s].kind
          /\ cmd'[s].then = cmd[s].then /\ HasBackup(s)
      BY <1>0, <2>2, SetEffect DEF Pcs, HasBackup
    <3>2. Work(s)'
      BY <1>1, <1>12, <2>1, <3>1 DEF Work, Migrates, Busy
    <3>. QED  BY <1>4, <2>1, <3>2
  <2>. QED  BY <1>4, <1>5, <1>17, <2>1, <2>2 DEF Reread
<1>18. ASSUME CopyBackup(s)  PROVE G
  <2>1. UNCHANGED <<path, data, named>> /\ cmd[s].pc = "restore" /\ Migrates(s)
    BY <1>0, <1>18 DEF CopyBackup, historyDir, Sane
  <2>2. CASE ~End(s)
    <3>1. roll' = Backup(s) /\ Set(s, "reinstate")
      BY <1>18, <2>2 DEF CopyBackup, Backup
    <3>2. /\ cmd'[s].pc = "reinstate" /\ cmd'[s].kind = cmd[s].kind /\ cmd'[s].then = cmd[s].then
      BY <1>0, <3>1, SetEffect DEF Pcs
    <3>3. Work(s)'
      BY <1>1, <2>1, <3>1, <3>2 DEF Work, Migrates, Busy
    <3>. QED  BY <1>4, <2>1, <3>3
  <2>. QED  BY <1>4, <1>5, <2>1, <2>2
<1>19. ASSUME Reinstate(s)  PROVE G
  <2>1. roll \in States /\ cmd[s].ino = Null /\ End(s)
    BY <1>0, <1>1, <1>19 DEF Reinstate, Work, Sane
  <2>2. Fresh \in Inodes
    BY <1>0, <2>1, FreshExists
  <2>3. data' = [data EXCEPT ![Fresh] = roll] /\ path' = [path EXCEPT !.state = Fresh]
    BY <1>0, <1>19, <2>1 DEF Reinstate
  <2>4. path'.state = Fresh /\ data'[Fresh] = roll
    BY <1>0, <2>2, <2>3 DEF PathTyped, DataTyped
  <2>5. Content' \in States
    BY <2>1, <2>2, <2>4, StateFileAssumption DEF Content
  <2>. QED  BY <1>3, <1>5, <2>1, <2>5
<1>20. ASSUME Crash(s)  PROVE G
  BY <1>4, <1>5, <1>20 DEF Crash, stateDir
<1>. QED
  BY <1>6, <1>7, <1>8, <1>9, <1>10, <1>11, <1>13, <1>15, <1>16, <1>17, <1>18, <1>19, <1>20
  DEF StateFileNext

-------------------------------------------------------------------------------
(* The two stores side by side.                                              *)

StartTyped == start \in States \cup {Null}

IdsInv == IdsTyped /\ ReserveInv

FilesInv ==
    /\ FilesTyped /\ StartTyped /\ ApartInv /\ OriginalInv
    /\ SoloInv /\ WindowInv /\ MarkInv /\ ParseInv

LocalInv == IdsInv /\ FilesInv

LEMMA IdsInitial ==
    ASSUME IdsInit
    PROVE  IdsInv
<1>1. /\ ids = {} /\ ids # None
      /\ \A r \in Runs : /\ req[r] = [phase |-> "idle", id |-> None, used |-> {}]
                         /\ req[r].phase = "idle"
  BY ExecutionIdsAssumption DEF IdsInit
<1>2. req \in [Runs -> Requests]
  BY DEF IdsInit, Requests
<1>3. IdsTyped
  BY <1>1, <1>2 DEF IdsTyped
<1>4. ReserveInv
  BY <1>1 DEF ReserveInv, SideBySideLapped, Reserving, Reserved
<1>. QED  BY <1>3, <1>4 DEF IdsInv

LEMMA FilesInitial ==
    ASSUME StateFileInit
    PROVE  FilesInv
<1>1. /\ 1 \in Inodes /\ 1 # Null /\ start \in States \cup {Null}
      /\ Null \notin States /\ Null \notin Kinds
  BY StateFileAssumption, FS_CardinalityType DEF StateFileInit, Inodes
<1>2. /\ path.state \in InodeNames /\ path.tmp = Null
      /\ start = Null => path.state = Null
      /\ start # Null => path.state = 1 /\ data[1] = start
      /\ saved = {}
  BY <1>1 DEF StateFileInit, InodeNames
<1>3. PathTyped /\ OneName
  BY <1>1 DEF StateFileInit, PathTyped, OneName, InodeNames
<1>4. DataTyped /\ HistoryTyped
  BY <1>1 DEF StateFileInit, DataTyped, HistoryTyped, Contents
<1>5. NewCommand \in Commands
  BY DEF NewCommand, Commands, Pcs, InodeNames, Contents
<1>6. \A s \in Shells : /\ cmd[s] = NewCommand /\ cmd[s].pc = "idle" /\ cmd[s].ino = Null
                        /\ cmd[s].kind = Null /\ cmd[s].then = Null
  BY DEF StateFileInit, NewCommand
<1>7. \A s \in Shells : ~Busy(s) /\ ~Chose(s) /\ ~Migrates(s)
  BY <1>1, <1>6 DEF Busy, Chose, Migrates, Kinds
<1>8. CmdTyped /\ CmdSane
  BY <1>5, <1>6, <1>7, StateFileAssumption DEF StateFileInit, CmdTyped, CmdSane, Sane, Thens
<1>9. ApartInv /\ OriginalInv
  BY <1>1, <1>2, <1>6, <1>7 DEF ApartInv, OriginalInv, Quiet
<1>10. SoloInv /\ WindowInv /\ MarkInv
  BY <1>2, <1>7 DEF SoloInv, WindowInv, MarkInv
<1>11. ParseInv
  BY <1>1, <1>2, <1>6, <1>7 DEF ParseInv, Work, Content
<1>. QED
  BY <1>1, <1>3, <1>4, <1>8, <1>9, <1>10, <1>11 DEF FilesInv, FilesTyped, StartTyped

LEMMA FilesInvStep ==
    ASSUME FilesInv, NEW s \in Shells, StateFileNext(s)
    PROVE  FilesInv'
BY FilesStep, ChangesSeen, ApartStep, OriginalStep, SoloStep, WindowStep, MarkStep, ParseStep
DEF FilesInv, StartTyped

(* A step on one store leaves the other as it is.                            *)
LEMMA FilesUntouched ==
    ASSUME FilesInv, UNCHANGED sfVars
    PROVE  FilesInv'
<1>1. UNCHANGED <<data, path, roll, draft, named, own, cmd, start, met, clash, saved>>
  BY DEF sfVars, stateDir, historyDir, seen
<1>2. FilesTyped' /\ StartTyped'
  BY <1>1 DEF FilesInv, FilesTyped, StartTyped, PathTyped, OneName, DataTyped, HistoryTyped,
              CmdTyped, CmdSane, Sane, Busy, Migrates
<1>3. ApartInv' /\ OriginalInv'
  BY <1>1 DEF FilesInv, ApartInv, OriginalInv, Chose, History, Publishes
<1>4. SoloInv' /\ WindowInv'
  BY <1>1 DEF FilesInv, SoloInv, WindowInv, Alone, TmpOwn, Busy, Has
<1>5. MarkInv'
  BY <1>1 DEF FilesInv, MarkInv, MarkedBy, Content, Busy, Has, Migrates
<1>6. ParseInv'
  <2>1. Content' = Content /\ \A t \in Shells : Work(t) => Work(t)'
    BY <1>1 DEF Content, Work, Publishes, Backup, Busy, Migrates
  <2>. QED  BY <1>1, <2>1 DEF FilesInv, ParseInv
<1>. QED  BY <1>2, <1>3, <1>4, <1>5, <1>6 DEF FilesInv

LEMMA IdsUntouched ==
    ASSUME IdsInv, UNCHANGED idVars
    PROVE  IdsInv'
BY DEF IdsInv, idVars, IdsTyped, ReserveInv, SideBySideLapped, Listed, ReadBy, Reserving, Reserved

LEMMA LocalInvStep ==
    ASSUME LocalInv, [Next]_vars
    PROVE  LocalInv'
<1>1. ASSUME NEW s \in Shells, StateFileNext(s), UNCHANGED idVars
      PROVE  LocalInv'
  BY <1>1, FilesInvStep, IdsUntouched DEF LocalInv
<1>2. ASSUME NEW r \in Runs, ReserveNext(r), UNCHANGED sfVars
      PROVE  LocalInv'
  <2>1. IdsInv'
    BY <1>2, IdsTypeStep, ReserveStep DEF LocalInv, IdsInv
  <2>. QED  BY <1>2, <2>1, FilesUntouched DEF LocalInv
<1>3. ASSUME UNCHANGED vars  PROVE LocalInv'
  <2>1. UNCHANGED sfVars /\ UNCHANGED idVars
    BY <1>3 DEF vars
  <2>. QED  BY <2>1, IdsUntouched, FilesUntouched DEF LocalInv
<1>. QED  BY <1>1, <1>2, <1>3, LocalAssumption DEF Next

(* In every reachable state: the id of a run that nobody lapped is on the    *)
(* list or about to be written back by whoever is at work; the version 2     *)
(* state stays in place until a copy of it has its name under history/, and  *)
(* keeps that name until two backups choose the same one; the mark of a      *)
(* window that met nobody is in the state file, in its temporary file and in *)
(* the memory of every command at work.                                      *)
THEOREM LocalInvariant == Spec => []LocalInv
<1>1. Init => LocalInv
  BY IdsInitial, FilesInitial DEF Init, LocalInv
<1>2. LocalInv /\ [Next]_vars => LocalInv'
  BY LocalInvStep
<1>. QED  BY <1>1, <1>2, PTL DEF Spec

(* Two runs of the matrix pass reserveExecutionId with the same id only if   *)
(* the id of one of them may have been missed: by a run at work beside it,   *)
(* or by one that read execution-ids.json truncated.                         *)
THEOREM ReplaysAreExplained == Spec => []ReplayNeedsOverlapOrTear
<1>1. LocalInv => ReplayNeedsOverlapOrTear
  BY DEF LocalInv, IdsInv, ReserveInv, ReplayNeedsOverlapOrTear
<1>. QED  BY <1>1, LocalInvariant, PTL

(* Whatever commands run together and wherever they fail or die, the version *)
(* 2 state is the state file or one of the copies of backupState, unless two *)
(* backups chose the same name before either had given it to its copy.       *)
THEOREM OriginalIsKept == Spec => []OriginalRecoverable
<1>1. LocalInv => OriginalRecoverable
  <2>. SUFFICES ASSUME LocalInv, start # Null, start.v = 2, ~clash, start \notin History
                PROVE  Content = start
    BY DEF OriginalRecoverable
  <2>1. path.state = 1 /\ data[1] = start
    BY DEF LocalInv, FilesInv, StartTyped, OriginalInv
  <2>2. path.state # Null
    <3>1. 1 \in Inodes
      BY StateFileAssumption, FS_CardinalityType DEF Inodes
    <3>. QED  BY <2>1, <3>1, StateFileAssumption
  <2>. QED  BY <2>1, <2>2 DEF Content
<1>. QED  BY <1>1, LocalInvariant, PTL

(* As long as no two commands worked at the same time state.json parses, and *)
(* whenever it parses it has the mark of every upload window whose save      *)
(* returned and that met no other command.                                   *)
THEOREM ProgressIsKept == Spec => []ProgressNeedsOverlapToVanish
<1>1. LocalInv => ProgressNeedsOverlapToVanish
  <2>. SUFFICES ASSUME LocalInv, path.state # Null
                PROVE  /\ met = {} => Parses
                       /\ Parses => saved \ met \subseteq Content.marks
    BY DEF ProgressNeedsOverlapToVanish
  <2>1. met = {} => Parses
    BY DEF LocalInv, FilesInv, ParseInv, Parses
  <2>2. ASSUME Parses, NEW w \in saved \ met  PROVE w \in Content.marks
    BY <2>2 DEF LocalInv, FilesInv, MarkInv, MarkedBy, Parses, Has
  <2>. QED  BY <2>1, <2>2
<1>. QED  BY <1>1, LocalInvariant, PTL
===============================================================================
