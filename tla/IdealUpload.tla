------------------------------ MODULE IdealUpload -------------------------------
(***************************************************************************)
(* What the upload tooling promises its user: one window at a time works   *)
(* on the plan, a chunk is signed and submitted at most once, a claim      *)
(* rests on what the cluster cannot take back, and a window is only let go *)
(* of when nothing it sent is open.  There are no processes, files, locks, *)
(* evidence or faults here: UploadSystem implements this with them.        *)
(***************************************************************************)
CONSTANTS
    Chunks,    \* chunks of the plan
    Windows,   \* names of upload windows
    OldWindow, \* the signer of what an older uploader left behind
    None

VARIABLES
    given,    \* chunks whose bytes were on the buffer before anything was sent
    older,    \* chunks an older uploader left with an unknown outcome
    record,   \* record[c]: the status claimed for chunk c and who signed it
    chain,    \* chain[c]: the only transaction there is for chunk c
    holder,   \* the window that was begun and not let go of, or None
    working,  \* the holder may still sign and send
    past,     \* windows that were let go of
    undo      \* the records a reconciliation may still put back: none or one

ideal == <<given, older, record, chain, holder, working, past, undo>>

Pending == {c \in Chunks : record[c].status \in {"SENT", "UNKNOWN"}}

Init ==
    /\ given \subseteq Chunks
    /\ older \subseteq Chunks
    /\ record = [c \in Chunks |->
          IF c \in older THEN [status |-> "UNKNOWN", sig |-> OldWindow]
          ELSE [status |-> "PLANNED", sig |-> None]]
    /\ DOMAIN chain = Chunks
    /\ \A c \in Chunks : chain[c] = "none" <=> c \notin older
    /\ holder = None
    /\ working = FALSE
    /\ past = {}
    /\ undo = {}

Write(c, status, sig) ==
    /\ record' = [record EXCEPT ![c] = [status |-> status, sig |-> sig]]
    /\ UNCHANGED <<given, older, chain, holder, working, past, undo>>

-------------------------------------------------------------------------------
(* The window                                                                *)

(* A window begins where nobody else holds the plan; it has never held it.   *)
Begin(w) ==
    /\ holder = None
    /\ w \notin past
    /\ holder' = w
    /\ working' = TRUE
    /\ UNCHANGED <<given, older, record, chain, past, undo>>

(* A planned chunk whose bytes were there from the start needs no sending.   *)
Match(c) ==
    /\ working
    /\ record[c].status = "PLANNED"
    /\ c \in given
    /\ Write(c, "CONFIRMED", None)

(* The claim to a chunk is made before its transaction exists.               *)
Sign(c) ==
    /\ working
    /\ record[c].status = "PLANNED"
    /\ Write(c, "SENT", holder)

(* A window only submits what it signed itself, and only once.               *)
Submit(c) ==
    /\ working
    /\ record[c] = [status |-> "SENT", sig |-> holder]
    /\ chain[c] = "none"
    /\ chain' = [chain EXCEPT ![c] = "inflight"]
    /\ UNCHANGED <<given, older, record, holder, working, past, undo>>

(* The outcome of an open transaction.  A success is final, except for a     *)
(* chunk of an older uploader, where bytes at confirmed commitment count.    *)
Resolve(c) ==
    /\ working
    /\ c \in Pending
    /\ \/ /\ chain[c] = "final" \/ (c \in older /\ (c \in given \/ chain[c] = "landed"))
          /\ Write(c, "CONFIRMED", record[c].sig)
       \/ /\ chain[c] # "none"
          /\ Write(c, "FAILED", record[c].sig)
       \/ Write(c, "UNKNOWN", record[c].sig)

(* The window has come to an end, its own or another.                        *)
Stop ==
    /\ working
    /\ working' = FALSE
    /\ UNCHANGED <<given, older, record, chain, holder, past, undo>>

-------------------------------------------------------------------------------
(* The commands for a window that has ended                                  *)

(* Everything that is open turns out final, all of it at once.               *)
Reconcile ==
    /\ holder # None /\ ~working /\ undo = {}
    /\ Pending # {}
    /\ \A c \in Pending : chain[c] = "final"
    /\ record' = [c \in Chunks |->
          IF c \in Pending THEN [status |-> "CONFIRMED", sig |-> record[c].sig] ELSE record[c]]
    /\ undo' = {record}
    /\ UNCHANGED <<given, older, chain, holder, working, past>>

(* Until it is verified, a reconciliation may be taken back as a whole.      *)
Verify ==
    /\ undo # {}
    /\ undo' = {}
    /\ record' \in undo \cup {record}
    /\ UNCHANGED <<given, older, chain, holder, working, past>>

(* The window is let go of for good.                                         *)
Release ==
    /\ holder # None /\ ~working /\ undo = {}
    /\ Pending = {}
    /\ holder' = None
    /\ past' = past \cup {holder}
    /\ UNCHANGED <<given, older, record, chain, working, undo>>

-------------------------------------------------------------------------------
(* The cluster: what a submitted transaction may go through; "final",        *)
(* "errfinal" and "dropped" are its ends.                                    *)

Fates ==
    [inflight |-> {"landed", "errored", "dropped"},
     landed   |-> {"final", "inflight"},
     errored  |-> {"errfinal", "inflight"}]

Advance(c) ==
    /\ chain[c] \in DOMAIN Fates
    /\ chain'[c] \in Fates[chain[c]]
    /\ chain' = [chain EXCEPT ![c] = chain'[c]]
    /\ UNCHANGED <<given, older, record, holder, working, past, undo>>

Next ==
    \/ \E w \in Windows : Begin(w)
    \/ \E c \in Chunks :
          \/ Match(c)
          \/ Sign(c)
          \/ Submit(c)
          \/ Resolve(c)
          \/ Advance(c)
    \/ Stop
    \/ Reconcile
    \/ Verify
    \/ Release

Spec == Init /\ [][Next]_ideal
===============================================================================
