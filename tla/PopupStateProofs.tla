---------------------------- MODULE PopupStateProofs ----------------------------
(***************************************************************************)
(* What holds of the popup's state file for every number of updates as     *)
(* long as session and popup keep apart.                                   *)
(***************************************************************************)
EXTENDS PopupState, TLAPS

Content == [status : Statuses, cancel : BOOLEAN, turns : Nat]

PopupTypes ==
  /\ inode \in [Inodes -> Content]
  /\ main \in Inodes /\ tmp \in Inodes \cup {NoFile}
  /\ phase \in [Sides -> {"idle", "turns", "read", "open", "write", "replace", "over"}]
  /\ phase["session"] # "over" /\ phase["popup"] \notin {"turns", "read"}
  /\ phase["session"] = "turns" => op = "turn"
  /\ fd \in [Sides -> Inodes \cup {NoFile}]
  /\ copy \in [Sides -> Content]
  /\ op \in Ops /\ shown \in Nat /\ appended \in Nat
  /\ overlapped \in BOOLEAN

(* The temporary file is the writer's own and not the state file: nobody   *)
(* else writes it, so it holds what its writer means to replace the state  *)
(* file by.                                                                *)
TmpIsWriters ==
  /\ tmp # NoFile => \E s \in Sides : phase[s] \in {"write", "replace"}
  /\ \A s \in Sides : phase[s] \in {"write", "replace"} =>
       /\ fd[s] = tmp /\ tmp \in Inodes /\ tmp # main
       /\ phase[s] = "write" => inode[tmp] = Unreadable
       /\ phase[s] = "replace" => inode[tmp] = copy[s]

(* A turn is in the state file, or in what the session is about to write.  *)
Appending == op = "turn" /\ phase["session"] \in {"read", "open", "write", "replace"}

TurnsCounted ==
  /\ Appending => inode[main].turns + 1 = appended /\ shown = appended
  /\ ~Appending => inode[main].turns = appended

(* What is about to be written loses nothing of the file. *)
CopiesComplete ==
  \A s \in Sides : phase[s] \in {"open", "write", "replace"} =>
    /\ copy[s].status # "unreadable"
    /\ copy[s].turns = appended
    /\ (s = "popup" \/ phase["popup"] = "over") => copy[s].cancel

Apart ==
  /\ ~(Writing("session") /\ Writing("popup"))
  /\ inode[main].status # "unreadable"
  /\ phase["popup"] = "over" => inode[main].cancel
  /\ TmpIsWriters /\ TurnsCounted /\ CopiesComplete

ApartInv == ~overlapped => Apart

-----------------------------------------------------------------------------
(* Types. *)

LEMMA LoadedContent ==
  ASSUME PopupTypes
  PROVE  /\ Loaded \in Content
         /\ inode[main].status # "unreadable" => Loaded = inode[main]
         /\ Loaded.status # "unreadable"
  BY DEF PopupTypes, Loaded, EmptyState, Content, Statuses

LEMMA MergedContent ==
  ASSUME NEW c \in Content, op \in Ops, shown \in Nat, c.status # "unreadable"
  PROVE  /\ Merged(c) \in Content
         /\ Merged(c).status # "unreadable"
         /\ Merged(c).turns = IF op = "turn" THEN shown ELSE c.turns
         /\ c.cancel => Merged(c).cancel
<1>1. op \in {"stage", "note", "turn", "done", "cancelled"}
  BY DEF Ops
<1>2. CASE op = "stage"
  BY <1>2 DEF Merged, Content, Statuses
<1>3. CASE op = "note"
  BY <1>3 DEF Merged
<1>4. CASE op = "turn"
  BY <1>4 DEF Merged, Content
<1>5. CASE op = "done"
  BY <1>5 DEF Merged, Content, Statuses
<1>6. CASE op = "cancelled"
  BY <1>6 DEF Merged, Content, Statuses
<1> QED
  BY <1>1, <1>2, <1>3, <1>4, <1>5, <1>6

(* Where a side goes, and that the other does not write then if the two    *)
(* are still apart.                                                        *)
LEMMA Advances ==
  ASSUME PopupTypes, NEW s \in Sides, NEW o \in Sides, o # s,
         NEW next \in {"idle", "turns", "read", "open", "write", "replace", "over"},
         Advance(s, next)
  PROVE  /\ phase' = [phase EXCEPT ![s] = next]
         /\ phase'[s] = next /\ phase'[o] = phase[o]
         /\ overlapped' \in BOOLEAN
         /\ ~overlapped' => ~overlapped
         /\ ~overlapped' /\ next \notin {"idle", "over"} => ~Writing(o)
  BY DEF PopupTypes, Advance, Writing, Sides

(* The inode a writer opens is new to the state file. *)
LEMMA Opened ==
  ASSUME PopupTypes, NEW s \in Sides, OpenTmp(s)
  PROVE  /\ fd'[s] \in Inodes /\ tmp' = fd'[s]
         /\ tmp = NoFile => fd'[s] # main
         /\ tmp # NoFile => fd'[s] = tmp
         /\ inode' = [inode EXCEPT ![fd'[s]] = Unreadable]
         /\ \E i \in Inodes : fd' = [fd EXCEPT ![s] = i]
  BY DEF PopupTypes, OpenTmp, Used

LEMMA TypesKept ==
  ASSUME PopupTypes, [Next]_vars
  PROVE  PopupTypes'
<1>0. Unreadable \in Content /\ "session" \in Sides /\ "popup" \in Sides
  BY DEF Unreadable, Content, Statuses, Sides
<1> USE DEF PopupTypes
<1>1. CASE BeginUpdate
  BY <1>0, <1>1, Advances DEF BeginUpdate, Ops
<1>2. CASE ReadTurns
  BY <1>0, <1>2, Advances, LoadedContent DEF ReadTurns, Content
<1>3. CASE ReadState
  <2>1. Merged(Loaded) \in Content
    BY LoadedContent, MergedContent
  <2> QED
    BY <1>0, <1>3, <2>1, Advances DEF ReadState
<1>4. CASE EndUpdate
  BY <1>0, <1>4, Advances DEF EndUpdate, Replace
<1>5. CASE CtrlC
  <2>1. [Loaded EXCEPT !.status = "cancel_requested", !.cancel = TRUE] \in Content
    BY LoadedContent DEF Content, Statuses
  <2> QED
    BY <1>0, <1>5, <2>1, Advances DEF CtrlC
<1>6. CASE PopupExits
  BY <1>0, <1>6, Advances DEF PopupExits, Replace
<1>7. ASSUME NEW s \in Sides, OpenTmp(s) PROVE PopupTypes'
  <2>1. PICK i \in Inodes : fd' = [fd EXCEPT ![s] = i]
    BY <1>7, Opened
  <2>2. inode' \in [Inodes -> Content]
    BY <1>0, <1>7, Opened
  <2> QED
    BY <1>7, <2>1, <2>2, Opened, Advances DEF OpenTmp, Sides
<1>8. ASSUME NEW s \in Sides, WriteTmp(s) PROVE PopupTypes'
  <2>1. inode' \in [Inodes -> Content]
    BY <1>0, <1>8 DEF WriteTmp
  <2> QED
    BY <1>8, <2>1, Advances DEF WriteTmp, Sides
<1>9. CASE UNCHANGED vars
  BY <1>9 DEF vars
<1> QED
  BY <1>1, <1>2, <1>3, <1>4, <1>5, <1>6, <1>7, <1>8, <1>9 DEF Next

-----------------------------------------------------------------------------
(* Apart. *)

LEMMA ApartKept ==
  ASSUME PopupTypes, ApartInv, [Next]_vars
  PROVE  ApartInv'
<1> SUFFICES ASSUME ~overlapped' PROVE Apart'
  BY DEF ApartInv
<1>0. "session" \in Sides /\ "popup" \in Sides /\ \A s \in Sides : s \in {"session", "popup"}
  BY DEF Sides
<1> USE DEF PopupTypes, Writing, Appending
<1>1. CASE BeginUpdate
  <2>1. /\ Apart /\ ~Writing("popup") /\ phase["session"] = "idle"
        /\ phase'["session"] \in {"turns", "read"} /\ phase'["popup"] = phase["popup"]
        /\ (phase'["session"] = "turns" <=> op' = "turn")
        /\ UNCHANGED <<inode, main, tmp, fd, copy, shown, appended>>
    BY <1>0, <1>1, Advances DEF BeginUpdate, ApartInv
  <2>2. TmpIsWriters'
    BY <1>0, <2>1 DEF Apart, TmpIsWriters
  <2>3. TurnsCounted' /\ CopiesComplete'
    BY <1>0, <2>1 DEF Apart, TurnsCounted, CopiesComplete
  <2> QED
    BY <2>1, <2>2, <2>3 DEF Apart
<1>2. CASE ReadTurns
  <2>1. /\ Apart /\ ~Writing("popup") /\ phase["session"] = "turns"
        /\ phase'["session"] = "read" /\ phase'["popup"] = phase["popup"]
        /\ shown' = Loaded.turns + 1 /\ appended' = appended + 1
        /\ UNCHANGED <<inode, main, tmp, fd, copy, op>>
    BY <1>0, <1>2, Advances DEF ReadTurns, ApartInv
  <2>2. TmpIsWriters'
    BY <1>0, <2>1 DEF Apart, TmpIsWriters
  <2>3. Loaded = inode[main]
    BY <2>1, LoadedContent DEF Apart
  <2>4. TurnsCounted'
    <3>1. inode[main].turns = appended
      BY <2>1 DEF Apart, TurnsCounted
    <3>2. Appending' /\ inode'[main'].turns = appended
      BY <2>1, <3>1
    <3> QED
      BY <2>1, <2>3, <3>1, <3>2 DEF TurnsCounted
  <2>5. CopiesComplete'
    BY <1>0, <2>1 DEF Apart, CopiesComplete
  <2> QED
    BY <2>1, <2>2, <2>4, <2>5 DEF Apart
<1>3. CASE ReadState
  <2>1. /\ Apart /\ ~Writing("popup") /\ phase["session"] = "read"
        /\ phase'["session"] = "open" /\ phase'["popup"] = phase["popup"]
        /\ copy' = [copy EXCEPT !["session"] = Merged(Loaded)]
        /\ UNCHANGED <<inode, main, tmp, fd, op, shown, appended>>
    BY <1>0, <1>3, Advances DEF ReadState, ApartInv
  <2>2. TmpIsWriters'
    BY <1>0, <2>1 DEF Apart, TmpIsWriters
  <2>3. Loaded = inode[main]
    BY <2>1, LoadedContent DEF Apart
  <2>4. TurnsCounted'
    BY <2>1 DEF Apart, TurnsCounted
  <2>5. /\ copy'["session"].status # "unreadable" /\ copy'["session"].turns = appended
        /\ phase["popup"] = "over" => copy'["session"].cancel
    <3> DEFINE before == inode[main]
    <3>1. /\ before \in Content /\ before.status # "unreadable"
          /\ phase["popup"] = "over" => before.cancel
          /\ IF op = "turn" THEN shown = appended ELSE before.turns = appended
      BY <2>1, <2>3, LoadedContent DEF Apart, TurnsCounted
    <3>2. copy'["session"] = Merged(before)
      BY <1>0, <2>1, <2>3
    <3> HIDE DEF before
    <3>3. Merged(before).turns = appended
      BY <3>1, MergedContent
    <3>4. phase["popup"] = "over" => Merged(before).cancel
      BY <3>1, MergedContent
    <3> QED
      BY <3>1, <3>2, <3>3, <3>4, MergedContent
  <2>6. CopiesComplete'
    BY <1>0, <2>1, <2>5 DEF Apart, CopiesComplete
  <2> QED
    BY <2>1, <2>2, <2>4, <2>6 DEF Apart
<1>4. CASE EndUpdate
  <2>1. /\ Apart /\ phase["session"] = "replace" /\ ~Writing("popup")
        /\ phase'["session"] = "idle" /\ phase'["popup"] = phase["popup"]
        /\ tmp # main /\ tmp \in Inodes /\ tmp # NoFile /\ inode[tmp] = copy["session"]
        /\ UNCHANGED <<inode, copy, op, shown, appended>>
        /\ Replace
    BY <1>0, <1>4, Advances DEF EndUpdate, ApartInv, Apart, TmpIsWriters, NoFile, Inodes
  <2>2. main' = tmp /\ tmp' = NoFile
    BY <2>1 DEF Replace
  <2>3. TmpIsWriters'
    BY <1>0, <2>1, <2>2 DEF TmpIsWriters
  <2>4. /\ inode'[main'].status # "unreadable" /\ inode'[main'].turns = appended
        /\ phase["popup"] = "over" => inode'[main'].cancel
    BY <1>0, <2>1, <2>2 DEF Apart, CopiesComplete
  <2>5. CopiesComplete'
    BY <1>0, <2>1 DEF CopiesComplete
  <2> QED
    BY <2>1, <2>3, <2>4, <2>5 DEF Apart, TurnsCounted
<1>5. CASE CtrlC
  <2>1. /\ Apart /\ ~Writing("session") /\ phase["popup"] = "idle"
        /\ phase'["popup"] = "open" /\ phase'["session"] = phase["session"]
        /\ copy' = [copy EXCEPT !["popup"] =
                      [Loaded EXCEPT !.status = "cancel_requested", !.cancel = TRUE]]
        /\ UNCHANGED <<inode, main, tmp, fd, op, shown, appended>>
    BY <1>0, <1>5, Advances DEF CtrlC, ApartInv
  <2>2. TmpIsWriters'
    BY <1>0, <2>1 DEF Apart, TmpIsWriters
  <2>3. Loaded = inode[main] /\ Loaded \in Content
    BY <2>1, LoadedContent DEF Apart
  <2>4. TurnsCounted'
    BY <2>1 DEF Apart, TurnsCounted
  <2>5. /\ copy'["popup"].status # "unreadable" /\ copy'["popup"].turns = appended
        /\ copy'["popup"].cancel
    BY <1>0, <2>1, <2>3 DEF Apart, TurnsCounted, Content
  <2>6. CopiesComplete'
    BY <1>0, <2>1, <2>5 DEF CopiesComplete
  <2> QED
    BY <2>1, <2>2, <2>4, <2>6 DEF Apart
<1>6. CASE PopupExits
  <2>1. /\ Apart /\ phase["popup"] = "replace" /\ ~Writing("session")
        /\ phase'["popup"] = "over" /\ phase'["session"] = phase["session"]
        /\ tmp # main /\ tmp \in Inodes /\ tmp # NoFile /\ inode[tmp] = copy["popup"]
        /\ UNCHANGED <<inode, copy, op, shown, appended>>
        /\ Replace
    BY <1>0, <1>6, Advances DEF PopupExits, ApartInv, Apart, TmpIsWriters, NoFile, Inodes
  <2>2. main' = tmp /\ tmp' = NoFile
    BY <2>1 DEF Replace
  <2>3. TmpIsWriters'
    BY <1>0, <2>1, <2>2 DEF TmpIsWriters
  <2>4. /\ inode'[main'].status # "unreadable" /\ inode'[main'].turns = appended
        /\ inode'[main'].cancel
    BY <1>0, <2>1, <2>2 DEF Apart, CopiesComplete
  <2>5. CopiesComplete'
    BY <1>0, <2>1 DEF CopiesComplete
  <2> QED
    BY <2>1, <2>3, <2>4, <2>5 DEF Apart, TurnsCounted
<1>7. ASSUME NEW s \in Sides, OpenTmp(s) PROVE Apart'
  <2>1. PICK o \in Sides : o # s /\ \A r \in Sides : r = s \/ r = o
    BY DEF Sides
  <2>2. /\ Apart /\ ~Writing(o) /\ phase[s] = "open"
        /\ phase'[s] = "write" /\ phase'[o] = phase[o]
        /\ UNCHANGED <<main, copy, op, shown, appended>>
    BY <1>7, <2>1, Advances DEF OpenTmp, ApartInv
  <2>3. tmp = NoFile
    BY <2>1, <2>2 DEF Apart, TmpIsWriters
  <2>4. /\ fd'[s] = tmp' /\ tmp' \in Inodes /\ tmp' # main
        /\ inode' = [inode EXCEPT ![tmp'] = Unreadable]
    BY <1>7, <2>3, Opened
  <2>5. inode'[main] = inode[main] /\ inode'[tmp'] = Unreadable
    BY <2>4
  <2>6. TmpIsWriters'
    BY <2>1, <2>2, <2>4, <2>5 DEF TmpIsWriters
  <2>7. TurnsCounted'
    BY <1>0, <2>1, <2>2, <2>5 DEF Apart, TurnsCounted
  <2>8. CopiesComplete'
    BY <1>0, <2>1, <2>2 DEF Apart, CopiesComplete
  <2> QED
    BY <1>0, <2>1, <2>2, <2>5, <2>6, <2>7, <2>8 DEF Apart
<1>8. ASSUME NEW s \in Sides, WriteTmp(s) PROVE Apart'
  <2>1. PICK o \in Sides : o # s /\ \A r \in Sides : r = s \/ r = o
    BY DEF Sides
  <2>2. /\ Apart /\ ~Writing(o) /\ phase[s] = "write"
        /\ phase'[s] = "replace" /\ phase'[o] = phase[o]
        /\ UNCHANGED <<main, tmp, fd, copy, op, shown, appended>>
    BY <1>8, <2>1, Advances DEF WriteTmp, ApartInv
  <2>3. /\ fd[s] = tmp /\ tmp \in Inodes /\ tmp # main /\ inode[tmp].status = "unreadable"
    BY <2>2 DEF Apart, TmpIsWriters, Unreadable
  <2>4. inode' = [inode EXCEPT ![tmp] = copy[s]]
    BY <1>8, <2>3 DEF WriteTmp
  <2>5. inode'[main] = inode[main] /\ inode'[tmp] = copy[s]
    BY <2>3, <2>4
  <2>6. TmpIsWriters'
    BY <2>1, <2>2, <2>3, <2>5 DEF TmpIsWriters
  <2>7. TurnsCounted'
    BY <1>0, <2>1, <2>2, <2>5 DEF Apart, TurnsCounted
  <2>8. CopiesComplete'
    BY <1>0, <2>1, <2>2 DEF Apart, CopiesComplete
  <2> QED
    BY <1>0, <2>1, <2>2, <2>5, <2>6, <2>7, <2>8 DEF Apart
<1>9. CASE UNCHANGED vars
  BY <1>9 DEF vars, ApartInv, Apart, TmpIsWriters, TurnsCounted, CopiesComplete
<1> QED
  BY <1>1, <1>2, <1>3, <1>4, <1>5, <1>6, <1>7, <1>8, <1>9 DEF Next

-----------------------------------------------------------------------------
(* The theorem. *)

LEMMA InitPopup == Init => PopupTypes /\ ApartInv
<1> SUFFICES ASSUME Init PROVE PopupTypes /\ ApartInv
  OBVIOUS
<1>1. EmptyState \in Content /\ EmptyState.turns = 0
  BY DEF EmptyState, Content, Statuses
<1>2. inode \in [Inodes -> Content] /\ inode[main].status = "active" /\ inode[main].turns = 0
  BY <1>1 DEF Init, Content, Statuses, Inodes
<1>3. PopupTypes
  <2>1. main \in Inodes /\ tmp \in Inodes \cup {NoFile}
    BY DEF Init, Inodes
  <2>2. op \in Ops /\ shown \in Nat /\ appended \in Nat /\ overlapped \in BOOLEAN
    BY DEF Init, Ops
  <2>3. fd \in [Sides -> Inodes \cup {NoFile}] /\ copy \in [Sides -> Content]
    BY <1>1 DEF Init
  <2>4. /\ phase \in [Sides -> {"idle", "turns", "read", "open", "write", "replace", "over"}]
        /\ phase["session"] = "idle" /\ phase["popup"] = "idle"
    BY DEF Init, Sides
  <2> QED
    BY <1>2, <2>1, <2>2, <2>3, <2>4 DEF PopupTypes
<1>4. Apart
  BY <1>2 DEF Init, Apart, TmpIsWriters, TurnsCounted, CopiesComplete, Writing, Appending, Sides
<1> QED
  BY <1>3, <1>4 DEF ApartInv

LEMMA PopupInvHolds == Spec => [](PopupTypes /\ ApartInv)
<1>1. PopupTypes /\ ApartInv /\ [Next]_vars => (PopupTypes /\ ApartInv)'
  BY TypesKept, ApartKept
<1> QED
  BY <1>1, InitPopup, PTL DEF Spec

(* As long as no two updates have overlapped, however many there were, the *)
(* file between them is whole, shows every turn and keeps the cancel flag. *)
THEOREM ApartUpdatesLoseNothing == Spec => []ApartNothingIsLost
<1>1. PopupTypes /\ ApartInv => ApartNothingIsLost
  BY DEF ApartInv, Apart, TurnsCounted, Appending, ApartNothingIsLost, SessionRests
<1> QED
  BY <1>1, PopupInvHolds, PTL

=============================================================================
