------------------------------ MODULE PopupState ------------------------------
(***************************************************************************)
(* The JSON state file shared by a voice session and its popup window.     *)
(* Both sides change it the same way, without a lock: read the file, merge *)
(* their updates, write <file>.tmp, replace the file by it.  The temporary *)
(* name is the same on both sides.                                         *)
(*                                                                         *)
(* A step is one system call.  A file name refers to an inode; a writer    *)
(* keeps its descriptor when the name moves on.  Of the content only the   *)
(* status, the cancel flag and the number of turns are kept; an empty or   *)
(* torn file is "unreadable", and reading it gives the empty state.        *)
(***************************************************************************)
EXTENDS Naturals

CONSTANT MaxUpdates   \* bound on the updates of one session

ASSUME UpdatesAssumption == MaxUpdates \in Nat \ {0}

VARIABLES
  inode,     \* content of each inode
  main,      \* the inode the state file's name refers to
  tmp,       \* the inode the temporary name refers to, NoFile if there is none
  phase,     \* where each side is in its update
  fd,        \* the inode each side has open for writing
  copy,      \* the state each side is about to write
  op,        \* what the session is writing
  shown,     \* the turns append_visualization_turn read, plus its own
  updates,   \* updates begun by the session
  appended,  \* history: turns appended by the session
  outcome,   \* how the session ended, "open" before
  overlapped \* history: both sides were in an update at the same time

vars == <<inode, main, tmp, phase, fd, copy, op, shown, updates, appended,
          outcome, overlapped>>

Sides  == {"session", "popup"}
Inodes == 1..4
NoFile == 0

Statuses == {"unreadable", "none", "active", "cancel_requested", "done", "cancelled"}
State == [status : Statuses, cancel : BOOLEAN, turns : 0..MaxUpdates]

Unreadable == [status |-> "unreadable", cancel |-> FALSE, turns |-> 0]
EmptyState == [status |-> "none", cancel |-> FALSE, turns |-> 0]

Ops == {"stage", "note", "turn", "done", "cancelled"}

(* launch_visualization has written the file and opened the window. *)
Init ==
  /\ inode = [i \in Inodes |-> [EmptyState EXCEPT !.status = "active"]]
  /\ main = 1 /\ tmp = NoFile
  /\ phase = [s \in Sides |-> "idle"]
  /\ fd = [s \in Sides |-> NoFile]
  /\ copy = [s \in Sides |-> EmptyState]
  /\ op = "stage" /\ shown = 0
  /\ updates = 0 /\ appended = 0
  /\ outcome = "open" /\ overlapped = FALSE

-----------------------------------------------------------------------------
(* One update of the file, the same on both sides. *)

Loaded == IF inode[main].status = "unreadable" THEN EmptyState ELSE inode[main]

Writing(s) == phase[s] \notin {"idle", "over"}

Advance(s, next) ==
  /\ phase' = [phase EXCEPT ![s] = next]
  /\ overlapped' = (overlapped \/ (Writing(s)' /\ \E o \in Sides \ {s} : Writing(o)))

Used == {main, tmp, fd["session"], fd["popup"]}

(* write_text opens the temporary name: created, or truncated if the other *)
(* side's is still there.                                                  *)
OpenTmp(s) ==
  /\ phase[s] = "open"
  /\ IF tmp # NoFile
       THEN fd' = [fd EXCEPT ![s] = tmp]
       ELSE \E i \in Inodes \ Used :
              /\ \A j \in Inodes \ Used : i <= j
              /\ fd' = [fd EXCEPT ![s] = i]
  /\ tmp' = fd'[s]
  /\ inode' = [inode EXCEPT ![fd'[s]] = Unreadable]
  /\ Advance(s, "write")
  /\ UNCHANGED <<main, copy, op, shown, updates, appended, outcome>>

(* The text over what the other side may have written into the same inode: *)
(* a shorter text leaves the other's tail behind.                          *)
WriteTmp(s) ==
  /\ phase[s] = "write"
  /\ \E written \in {copy[s]} \cup
        (IF inode[fd[s]].status = "unreadable" THEN {} ELSE {Unreadable}) :
       inode' = [inode EXCEPT ![fd[s]] = written]
  /\ Advance(s, "replace")
  /\ UNCHANGED <<main, tmp, fd, copy, op, shown, updates, appended, outcome>>

(* os.replace; without a temporary file it raises, which is logged only. *)
Replace ==
  IF tmp = NoFile THEN UNCHANGED <<main, tmp>> ELSE main' = tmp /\ tmp' = NoFile

-----------------------------------------------------------------------------
(* The session. *)

(* A cancel request that is seen is answered by the final update. *)
BeginUpdate ==
  /\ phase["session"] = "idle" /\ outcome = "open"
  /\ \/ updates < MaxUpdates /\ op' \in {"stage", "note", "turn"}
     \/ op' = "done"
     \/ Loaded.cancel /\ op' = "cancelled"
  /\ updates' = updates + 1
  /\ Advance("session", IF op' = "turn" THEN "turns" ELSE "read")
  /\ UNCHANGED <<inode, main, tmp, fd, copy, shown, appended, outcome>>

(* append_visualization_turn reads the turns before the update reads all. *)
ReadTurns ==
  /\ phase["session"] = "turns"
  /\ shown' = Loaded.turns + 1
  /\ appended' = appended + 1
  /\ Advance("session", "read")
  /\ UNCHANGED <<inode, main, tmp, fd, copy, op, updates, outcome>>

Merged(s) ==
  CASE op = "stage"     -> [s EXCEPT !.status = "active"]
    [] op = "note"      -> s
    [] op = "turn"      -> [s EXCEPT !.turns = shown]
    [] op = "done"      -> [s EXCEPT !.status = "done"]
    [] op = "cancelled" -> [s EXCEPT !.status = "cancelled", !.cancel = TRUE]

(* Faulty variant: the updates are written without reading the file. *)
ReadNothing ==
  /\ phase["session"] = "read"
  /\ copy' = [copy EXCEPT !["session"] = Merged(EmptyState)]
  /\ Advance("session", "open")
  /\ UNCHANGED <<inode, main, tmp, fd, op, shown, updates, appended, outcome>>

ReadState ==
  /\ phase["session"] = "read"
  /\ copy' = [copy EXCEPT !["session"] = Merged(Loaded)]
  /\ Advance("session", "open")
  /\ UNCHANGED <<inode, main, tmp, fd, op, shown, updates, appended, outcome>>

EndUpdate ==
  /\ phase["session"] = "replace"
  /\ Replace
  /\ fd' = [fd EXCEPT !["session"] = NoFile]
  /\ Advance("session", "idle")
  /\ outcome' = IF op \in {"done", "cancelled"} THEN op ELSE outcome
  /\ UNCHANGED <<inode, copy, op, shown, updates, appended>>

-----------------------------------------------------------------------------
(* The popup: Ctrl-C is the only thing it ever writes, and its last.       *)

CtrlC ==
  /\ phase["popup"] = "idle"
  /\ copy' = [copy EXCEPT !["popup"] =
                [Loaded EXCEPT !.status = "cancel_requested", !.cancel = TRUE]]
  /\ Advance("popup", "open")
  /\ UNCHANGED <<inode, main, tmp, fd, op, shown, updates, appended, outcome>>

PopupExits ==
  /\ phase["popup"] = "replace"
  /\ Replace
  /\ fd' = [fd EXCEPT !["popup"] = NoFile]
  /\ Advance("popup", "over")
  /\ UNCHANGED <<inode, copy, op, shown, updates, appended, outcome>>

Next ==
  \/ BeginUpdate \/ ReadTurns \/ ReadState \/ EndUpdate
  \/ CtrlC \/ PopupExits
  \/ \E s \in Sides : OpenTmp(s) \/ WriteTmp(s)

Spec == Init /\ [][Next]_vars

-----------------------------------------------------------------------------
(* Properties. *)

SessionRests == phase["session"] = "idle"

(* Nothing is lost while the two sides keep apart: between the session's   *)
(* updates the file is whole, shows every turn, and, once the popup has    *)
(* written its request, holds the cancel flag the session polls.           *)
ApartNothingIsLost ==
  SessionRests /\ ~overlapped =>
    /\ inode[main].status # "unreadable"
    /\ phase["popup"] \in {"idle", "over"} => inode[main].turns = appended
    /\ phase["popup"] = "over" => inode[main].cancel

(* README.md:310: "You can press Ctrl-C in the popup to cancel the active  *)
(* voice session": the request is there for the session's next look at it. *)
CancelArrives ==
  SessionRests /\ outcome = "open" /\ phase["popup"] = "over" => inode[main].cancel

=============================================================================
