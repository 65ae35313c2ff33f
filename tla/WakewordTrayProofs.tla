--------------------------- MODULE WakewordTrayProofs ---------------------------
(***************************************************************************)
(* The tray for every number of clicks, changes and failed calls, every    *)
(* state it may find and every length of the queues: its types, and that   *)
(* its commands do not overlap.                                            *)
(***************************************************************************)
EXTENDS WakewordTray, SequenceTheorems, TLAPS

Calls == Commands \cup {"GetUnit", "Get", "Subscribe"}

Request == [call : Calls, unit : Units \cup {"none"}]
Message == [call : Calls \cup {"signal"}, unit : Units \cup {"none"},
            ok : BOOLEAN, active : BOOLEAN]

TrayTypes == TypeOK /\ requests \in Seq(Request) /\ inbox \in Seq(Message)

(* A command in flight is in exactly one place: asked for, or answered.    *)
(* Without the place its reply could end a command whose next call is      *)
(* already sent.                                                           *)
None(msgs) == \A i \in DOMAIN msgs : msgs[i].call \notin Commands
One(msgs) ==
  \E i \in DOMAIN msgs : /\ msgs[i].call \in Commands
                         /\ \A j \in DOMAIN msgs : msgs[j].call \in Commands => j = i

Free == None(requests) /\ None(inbox)
Busy == \/ One(requests) /\ None(inbox)
        \/ None(requests) /\ One(inbox)

OneUnderWay == alive => IF inFlight THEN Busy ELSE Free

Locked == inFlight => icon = "yellow" /\ ~onEnabled /\ ~offEnabled

TrayInv == OneUnderWay /\ Locked

-----------------------------------------------------------------------------
(* Commands in queues. *)

LEMMA TailLosesHead ==
  ASSUME NEW S, NEW q \in Seq(S), q # <<>>
  PROVE  /\ None(q) => None(Tail(q)) /\ Head(q).call \notin Commands
         /\ One(q) /\ Head(q).call \notin Commands => One(Tail(q))
         /\ One(q) /\ Head(q).call \in Commands => None(Tail(q))
<1>1. /\ Len(q) \in Nat \ {0} /\ DOMAIN q = 1..Len(q)
      /\ Head(q) = q[1] /\ Len(Tail(q)) = Len(q) - 1
      /\ DOMAIN Tail(q) = 1..(Len(q) - 1)
      /\ \A i \in 1..(Len(q) - 1) : Tail(q)[i] = q[i + 1]
  BY HeadTailProperties, EmptySeq, LenProperties
<1>2. \A i \in DOMAIN Tail(q) : i + 1 \in DOMAIN q /\ Tail(q)[i] = q[i + 1] /\ i + 1 # 1
  BY <1>1
<1>3. \A i \in DOMAIN q : i # 1 => i - 1 \in DOMAIN Tail(q) /\ Tail(q)[i - 1] = q[i]
  BY <1>1
<1>4. None(q) => None(Tail(q)) /\ Head(q).call \notin Commands
  BY <1>1, <1>2 DEF None
<1>5. ASSUME One(q), Head(q).call \notin Commands PROVE One(Tail(q))
  <2>1. PICK i \in DOMAIN q : /\ q[i].call \in Commands
                              /\ \A j \in DOMAIN q : q[j].call \in Commands => j = i
    BY <1>5 DEF One
  <2>2. i # 1
    BY <1>1, <1>5, <2>1
  <2>3. i - 1 \in DOMAIN Tail(q) /\ Tail(q)[i - 1].call \in Commands
    BY <1>3, <2>1, <2>2
  <2>4. \A j \in DOMAIN Tail(q) : Tail(q)[j].call \in Commands => j = i - 1
    BY <1>1, <1>2, <2>1
  <2> QED
    BY <2>3, <2>4 DEF One
<1>6. ASSUME One(q), Head(q).call \in Commands PROVE None(Tail(q))
  BY <1>1, <1>2, <1>6 DEF One, None
<1> QED
  BY <1>4, <1>5, <1>6

LEMMA Joined ==
  ASSUME NEW S, NEW q \in Seq(S), NEW T, NEW r \in Seq(T)
  PROVE  /\ None(q) /\ None(r) => None(q \o r)
         /\ One(q) /\ None(r) => One(q \o r)
         /\ None(q) /\ One(r) => One(q \o r)
<1> DEFINE b == q \o r
<1>1. q \in Seq(S \cup T) /\ r \in Seq(S \cup T)
  BY SeqMonotonic
<1>2. /\ Len(q) \in Nat /\ DOMAIN q = 1..Len(q)
      /\ Len(r) \in Nat /\ DOMAIN r = 1..Len(r)
      /\ DOMAIN b = 1..(Len(q) + Len(r))
      /\ \A i \in 1..(Len(q) + Len(r)) : b[i] = IF i <= Len(q) THEN q[i] ELSE r[i - Len(q)]
  BY <1>1, ConcatProperties, LenProperties
<1> HIDE DEF b
<1>3. \A i \in DOMAIN b : \/ i \in DOMAIN q /\ b[i] = q[i]
                          \/ i - Len(q) \in DOMAIN r /\ b[i] = r[i - Len(q)]
  BY <1>2
<1>4. \A i \in DOMAIN q : i \in DOMAIN b /\ b[i] = q[i]
  BY <1>2
<1>5. \A i \in DOMAIN r : i + Len(q) \in DOMAIN b /\ b[i + Len(q)] = r[i]
  BY <1>2
<1>6. None(q) /\ None(r) => None(b)
  BY <1>3 DEF None
<1>7. ASSUME One(q), None(r) PROVE One(b)
  <2>1. PICK i \in DOMAIN q : /\ q[i].call \in Commands
                              /\ \A j \in DOMAIN q : q[j].call \in Commands => j = i
    BY <1>7 DEF One
  <2>2. \A j \in DOMAIN b : b[j].call \in Commands => j = i
    BY <1>3, <1>7, <2>1 DEF None
  <2> QED
    BY <1>4, <2>1, <2>2 DEF One
<1>8. ASSUME None(q), One(r) PROVE One(b)
  <2>1. PICK i \in DOMAIN r : /\ r[i].call \in Commands
                              /\ \A j \in DOMAIN r : r[j].call \in Commands => j = i
    BY <1>8 DEF One
  <2>2. \A j \in DOMAIN b : b[j].call \in Commands => j = i + Len(q)
    BY <1>2, <1>3, <1>8, <2>1 DEF None
  <2> QED
    BY <1>5, <2>1, <2>2 DEF One
<1> QED
  BY <1>6, <1>7, <1>8 DEF b

LEMMA Appended ==
  ASSUME NEW S, NEW q \in Seq(S), NEW m \in S
  PROVE  /\ Append(q, m) \in Seq(S)
         /\ None(q) /\ m.call \notin Commands => None(Append(q, m))
         /\ One(q) /\ m.call \notin Commands => One(Append(q, m))
         /\ None(q) /\ m.call \in Commands => One(Append(q, m))
<1>1. <<m>> \in Seq(S) /\ Append(q, m) = q \o <<m>> /\ Append(q, m) \in Seq(S)
  OBVIOUS
<1>2. DOMAIN <<m>> = {1} /\ <<m>>[1] = m
  OBVIOUS
<1>3. m.call \notin Commands => None(<<m>>)
  BY <1>2 DEF None
<1>4. m.call \in Commands => One(<<m>>)
  BY <1>2 DEF One
<1> QED
  BY <1>1, <1>3, <1>4, Joined

(* What the tray sends. *)
LEMMA CallsSent ==
  /\ UnitStates \in Seq(Request) /\ None(UnitStates)
  /\ \A c \in Calls, u \in Units \cup {"none"} :
       /\ <<Ask(c, u)>> \in Seq(Request)
       /\ c \notin Commands => None(<<Ask(c, u)>>)
       /\ c \in Commands => One(<<Ask(c, u)>>)
<1>1. Ask("GetUnit", "wakeword") \in Request /\ Ask("GetUnit", "handler") \in Request
  BY DEF Ask, Request, Calls, Units
<1>2. UnitStates \in Seq(Request)
  BY <1>1 DEF UnitStates
<1>3. None(UnitStates)
  BY DEF UnitStates, None, Ask, Commands
<1>4. ASSUME NEW c \in Calls, NEW u \in Units \cup {"none"}
      PROVE  /\ <<Ask(c, u)>> \in Seq(Request)
             /\ c \notin Commands => None(<<Ask(c, u)>>)
             /\ c \in Commands => One(<<Ask(c, u)>>)
  <2>1. Ask(c, u) \in Request /\ Ask(c, u).call = c
    BY DEF Ask, Request
  <2>2. DOMAIN <<Ask(c, u)>> = {1} /\ <<Ask(c, u)>>[1] = Ask(c, u)
    OBVIOUS
  <2> QED
    BY <2>1, <2>2 DEF None, One
<1> QED
  BY <1>2, <1>3, <1>4

(* The place of a unit in a command is a number. *)
LEMMA AfterIsPlace ==
  ASSUME NEW c \in Commands, NEW u
  PROVE  /\ After(c, u) \in Nat /\ Len(Order[c]) = 2
         /\ After(c, u) < 2 => Order[c][After(c, u) + 1] \in Units
<1>1. /\ Len(Order[c]) = 2 /\ Order[c][1] \in Units /\ Order[c][2] \in Units
  BY DEF Order, Commands, Units
<1> DEFINE I == {i \in 1..Len(Order[c]) : Order[c][i] = u}
<1>2. After(c, u) = IF I # {} THEN Min(I) ELSE 0
  BY DEF After, SelectInSeq
<1>3. I \subseteq {1, 2}
  BY <1>1
<1> HIDE DEF I
<1>4. ASSUME I # {} PROVE Min(I) \in I
  <2>1. \E x \in I : \A y \in I : x =< y
    <3>1. CASE 1 \in I BY <1>3, <3>1
    <3>2. CASE 1 \notin I
      <4>1. \A y \in I : y = 2 BY <1>3, <3>2
      <4>2. PICK x \in I : TRUE BY <1>4
      <4> QED BY <4>1, <4>2
    <3> QED BY <3>1, <3>2
  <2> QED
    BY <2>1, Zenon DEF Min
<1>5. After(c, u) \in {0, 1, 2}
  BY <1>2, <1>3, <1>4
<1> QED
  BY <1>1, <1>5

-----------------------------------------------------------------------------
(* What the steps are built from. *)

ShownTypes ==
  /\ spinning \in BOOLEAN /\ icon \in Icons
  /\ onEnabled \in BOOLEAN /\ offEnabled \in BOOLEAN
  /\ (icon = "yellow") = spinning

LEMMA StatesOfDaemon ==
  ASSUME NEW active
  PROVE  DaemonState(active) \in {"NoMicrophone", "Starting", "On", "Off"}
  BY DEF DaemonState

LEMMA Refreshed ==
  ASSUME TypeOK, NEW active, RefreshState(active)
  PROVE  /\ ShownTypes'
         /\ inFlight => UNCHANGED <<icon, onEnabled, offEnabled>>
<1>1. CASE inFlight
  BY <1>1 DEF TypeOK, RefreshState, shownVars, ShownTypes
<1>2. CASE ~inFlight
  BY <1>2, StatesOfDaemon DEF RefreshState, Show, ShownTypes, Icons
<1> QED
  BY <1>1, <1>2

LEMMA Signalled ==
  ASSUME TrayTypes, NEW u, UnitChanged(u)
  PROVE  /\ inbox' \in Seq(Message) /\ misled' \in BOOLEAN
         /\ None(inbox) => None(inbox')
         /\ One(inbox) => One(inbox')
<1>1. Signal \in Message /\ Signal.call \notin Commands
  BY DEF Signal, Message, Commands
<1>2. CASE inbox' = Append(inbox, Signal) /\ misled' = FALSE
  BY <1>1, <1>2, Appended DEF TrayTypes
<1>3. CASE UNCHANGED inbox /\ misled' = (misled \/ (Active(u)' # Active(u) /\ ~WillAsk(u)))
  BY <1>3 DEF TrayTypes, TypeOK
<1> QED
  BY <1>2, <1>3 DEF UnitChanged

(* The call that is answered goes on as its reply, while there is a tray. *)
LEMMA Answered ==
  ASSUME TrayTypes, requests # <<>>, NEW ok \in BOOLEAN, NEW active \in BOOLEAN,
         Answer(ok, active)
  PROVE  /\ requests' \in Seq(Request) /\ inbox' \in Seq(Message)
         /\ alive => (Free => Free') /\ (Busy => Busy')
<1> DEFINE r == Head(requests)
           reply == [call |-> r.call, unit |-> r.unit, ok |-> ok, active |-> active]
<1>1. /\ r \in Request /\ requests' = Tail(requests) /\ requests' \in Seq(Request)
      /\ inbox' = IF alive THEN Append(inbox, reply) ELSE inbox
  BY HeadTailProperties DEF TrayTypes, Answer
<1>2. reply \in Message /\ reply.call = r.call
  BY <1>1 DEF Request, Message
<1>3. /\ None(requests) => None(requests') /\ r.call \notin Commands
      /\ One(requests) /\ r.call \notin Commands => One(requests')
      /\ One(requests) /\ r.call \in Commands => None(requests')
  BY <1>1, TailLosesHead DEF TrayTypes
<1> HIDE DEF r, reply
<1>4. alive => /\ inbox' \in Seq(Message)
               /\ None(inbox) /\ r.call \notin Commands => None(inbox')
               /\ One(inbox) /\ r.call \notin Commands => One(inbox')
               /\ None(inbox) /\ r.call \in Commands => One(inbox')
  BY <1>1, <1>2, Appended DEF TrayTypes
<1>5. ~alive => inbox' \in Seq(Message)
  BY <1>1 DEF TrayTypes
<1> QED
  BY <1>1, <1>3, <1>4, <1>5 DEF Free, Busy

LEMMA Received ==
  ASSUME TrayTypes, NEW calls, Receiving(calls)
  PROVE  /\ alive /\ Head(inbox) \in Message /\ Head(inbox).call \in calls
         /\ inbox' \in Seq(Message)
         /\ None(inbox) => None(inbox') /\ Head(inbox).call \notin Commands
         /\ One(inbox) /\ Head(inbox).call \notin Commands => One(inbox')
         /\ One(inbox) /\ Head(inbox).call \in Commands => None(inbox')
  BY HeadTailProperties, TailLosesHead DEF TrayTypes, Receiving

LEMMA Sent ==
  ASSUME TrayTypes, NEW calls \in Seq(Request), Send(calls)
  PROVE  /\ requests' \in Seq(Request)
         /\ None(requests) /\ None(calls) => None(requests')
         /\ One(requests) /\ None(calls) => One(requests')
         /\ None(requests) /\ One(calls) => One(requests')
  BY ConcatProperties, Joined DEF TrayTypes, Send

-----------------------------------------------------------------------------
(* Types. *)

UnitTypes ==
  /\ listener \in {"down", "loading", "up"} /\ file \in Listener!Statuses
  /\ heard \in BOOLEAN /\ handler \in BOOLEAN /\ marker \in BOOLEAN /\ mic \in BOOLEAN
  /\ jobs \in [Units -> Commands \cup {"none"}]

QueueTypes ==
  /\ subscribed \in BOOLEAN
  /\ requests \in Seq(Request) /\ inbox \in Seq(Message)
  /\ news \subseteq {"ready", "capture", "audio"}

CacheTypes ==
  /\ alive \in BOOLEAN /\ connected \in BOOLEAN /\ retry \in BOOLEAN
  /\ firstRefresh \in BOOLEAN /\ cached \in [Units -> BOOLEAN] /\ inFlight \in BOOLEAN

PastTypes ==
  /\ events \in 0..MaxEvents
  /\ asked \in Commands \cup {"none"} /\ misled \in BOOLEAN

LEMMA TypesGrouped ==
  /\ TrayTypes <=> (UnitTypes /\ QueueTypes /\ CacheTypes /\ ShownTypes /\ PastTypes)
  /\ TrayTypes' <=> (UnitTypes /\ QueueTypes /\ CacheTypes /\ ShownTypes /\ PastTypes)'
  BY DEF TrayTypes, TypeOK, UnitTypes, QueueTypes, CacheTypes, ShownTypes, PastTypes

LEMMA ListenerTypes ==
  ASSUME UnitTypes, \/ Listener!Launch \/ Listener!Retire \/ Listener!Die
                    \/ Listener!Announce \/ Listener!Report \/ Listener!Hear
  PROVE  /\ listener' \in {"down", "loading", "up"} /\ file' \in Listener!Statuses
         /\ heard' \in BOOLEAN
  BY DEF UnitTypes, Listener!Statuses, Listener!Launch, Listener!Retire, Listener!Die,
         Listener!Announce, Listener!Report, Listener!Hear

LEMMA NewsTypes ==
  ASSUME QueueTypes, NEW isNew, NEW what \in {"ready", "capture", "audio"}
  PROVE  News(isNew, what) \subseteq {"ready", "capture", "audio"}
  BY DEF QueueTypes, News

LEMMA EventCounted ==
  ASSUME PastTypes, Event
  PROVE  events' \in 0..MaxEvents
  BY TrayAssumption DEF PastTypes, Event

LEMMA UnitStepsTyped ==
  ASSUME TrayTypes, \/ ListenerComesOrGoes \/ ListenerReports \/ ListenerHears
                    \/ HandlerComesOrGoes \/ HandlerMarks \/ MicrophoneChanges
                    \/ \E u \in Units : RunJob(u)
  PROVE  TrayTypes'
<1> USE DEF unitVars, systemVars, cacheVars, shownVars, pastVars
<1>0. UnitTypes /\ QueueTypes /\ CacheTypes /\ ShownTypes /\ PastTypes
  BY TypesGrouped
<1>1. CASE ListenerComesOrGoes
  <2>1. UnitTypes'
    BY <1>0, <1>1, ListenerTypes DEF ListenerComesOrGoes, UnitTypes
  <2>2. QueueTypes'
    BY <1>0, <1>1, Signalled, NewsTypes DEF ListenerComesOrGoes, QueueTypes
  <2>3. CacheTypes' /\ ShownTypes'
    BY <1>0, <1>1 DEF ListenerComesOrGoes, CacheTypes, ShownTypes
  <2>4. PastTypes'
    BY <1>0, <1>1, Signalled, EventCounted DEF ListenerComesOrGoes, Unasked, PastTypes
  <2> QED
    BY <2>1, <2>2, <2>3, <2>4, TypesGrouped
<1>2. CASE ListenerReports
  <2>1. UnitTypes'
    BY <1>0, <1>2, ListenerTypes DEF ListenerReports, UnitTypes
  <2>2. QueueTypes'
    BY <1>0, <1>2, NewsTypes DEF ListenerReports, QueueTypes
  <2>3. CacheTypes' /\ ShownTypes'
    BY <1>0, <1>2 DEF ListenerReports, CacheTypes, ShownTypes
  <2>4. PastTypes'
    BY <1>0, <1>2, EventCounted DEF ListenerReports, Unasked, PastTypes
  <2> QED
    BY <2>1, <2>2, <2>3, <2>4, TypesGrouped
<1>3. CASE ListenerHears
  <2>1. UnitTypes'
    BY <1>0, <1>3, ListenerTypes DEF ListenerHears, UnitTypes
  <2>2. QueueTypes' /\ CacheTypes' /\ ShownTypes' /\ PastTypes'
    BY <1>0, <1>3 DEF ListenerHears, QueueTypes, CacheTypes, ShownTypes, PastTypes
  <2> QED
    BY <2>1, <2>2, TypesGrouped
<1>4. CASE HandlerComesOrGoes
  <2>1. UnitTypes'
    BY <1>0, <1>4 DEF HandlerComesOrGoes, UnitTypes
  <2>2. QueueTypes'
    BY <1>0, <1>4, Signalled, NewsTypes DEF HandlerComesOrGoes, QueueTypes
  <2>3. CacheTypes' /\ ShownTypes'
    BY <1>0, <1>4 DEF HandlerComesOrGoes, CacheTypes, ShownTypes
  <2>4. PastTypes'
    BY <1>0, <1>4, Signalled, EventCounted DEF HandlerComesOrGoes, Unasked, PastTypes
  <2> QED
    BY <2>1, <2>2, <2>3, <2>4, TypesGrouped
<1>5. CASE HandlerMarks
  <2>1. UnitTypes'
    BY <1>0, <1>5 DEF HandlerMarks, UnitTypes
  <2>2. QueueTypes'
    BY <1>0, <1>5, NewsTypes DEF HandlerMarks, QueueTypes
  <2>3. CacheTypes' /\ ShownTypes'
    BY <1>0, <1>5 DEF HandlerMarks, CacheTypes, ShownTypes
  <2>4. PastTypes'
    BY <1>0, <1>5, EventCounted DEF HandlerMarks, Unasked, PastTypes
  <2> QED
    BY <2>1, <2>2, <2>3, <2>4, TypesGrouped
<1>6. CASE MicrophoneChanges
  <2>1. UnitTypes'
    BY <1>0, <1>6 DEF MicrophoneChanges, UnitTypes
  <2>2. QueueTypes'
    BY <1>0, <1>6, NewsTypes DEF MicrophoneChanges, QueueTypes
  <2>3. CacheTypes' /\ ShownTypes'
    BY <1>0, <1>6 DEF MicrophoneChanges, CacheTypes, ShownTypes
  <2>4. PastTypes'
    BY <1>0, <1>6, EventCounted DEF MicrophoneChanges, Unasked, PastTypes
  <2> QED
    BY <2>1, <2>2, <2>3, <2>4, TypesGrouped
<1>7. ASSUME NEW u \in Units, RunJob(u) PROVE TrayTypes'
  <2>1. UnitTypes'
    <3>1. mic' \in BOOLEAN /\ jobs' \in [Units -> Commands \cup {"none"}]
      BY <1>0, <1>7 DEF RunJob, UnitTypes
    <3>2. handler' \in BOOLEAN /\ marker' \in BOOLEAN
      BY <1>0, <1>7 DEF RunJob, UnitTypes
    <3>3. /\ listener' \in {"down", "loading", "up"} /\ file' \in Listener!Statuses
          /\ heard' \in BOOLEAN
      BY <1>0, <1>7, ListenerTypes DEF RunJob, UnitTypes
    <3> QED
      BY <3>1, <3>2, <3>3 DEF UnitTypes
  <2>2. QueueTypes'
    BY <1>0, <1>7, Signalled, NewsTypes DEF RunJob, QueueTypes
  <2>3. CacheTypes' /\ ShownTypes'
    BY <1>0, <1>7 DEF RunJob, CacheTypes, ShownTypes
  <2>4. PastTypes'
    BY <1>0, <1>7, Signalled DEF RunJob, PastTypes
  <2> QED
    BY <2>1, <2>2, <2>3, <2>4, TypesGrouped
<1> QED
  BY <1>1, <1>2, <1>3, <1>4, <1>5, <1>6, <1>7

LEMMA SystemStepsTyped ==
  ASSUME TrayTypes, ServeQuery \/ ServeSubscribe \/ ServeCommand
  PROVE  TrayTypes'
<1> USE DEF unitVars, systemVars, cacheVars, shownVars, pastVars
<1>0. UnitTypes /\ QueueTypes /\ CacheTypes /\ ShownTypes /\ PastTypes
  BY TypesGrouped
<1>1. CASE ServeQuery
  <2>1. requests # <<>> /\ \E ok, active \in BOOLEAN : Answer(ok, active)
    BY <1>0, <1>1 DEF ServeQuery, Serving, Active, UnitTypes
  <2>2. QueueTypes'
    BY <1>0, <1>1, <2>1, Answered DEF ServeQuery, QueueTypes
  <2>3. UnitTypes' /\ CacheTypes' /\ ShownTypes'
    BY <1>0, <1>1 DEF ServeQuery, UnitTypes, CacheTypes, ShownTypes
  <2>4. PastTypes'
    BY <1>0, <1>1, EventCounted DEF ServeQuery, PastTypes
  <2> QED
    BY <2>2, <2>3, <2>4, TypesGrouped
<1>2. CASE ServeSubscribe
  <2>1. requests # <<>> /\ \E ok, active \in BOOLEAN : Answer(ok, active)
    BY <1>2 DEF ServeSubscribe, Serving
  <2>2. QueueTypes'
    BY <1>0, <1>2, <2>1, Answered DEF ServeSubscribe, QueueTypes, CacheTypes
  <2>3. UnitTypes' /\ CacheTypes' /\ ShownTypes'
    BY <1>0, <1>2 DEF ServeSubscribe, UnitTypes, CacheTypes, ShownTypes
  <2>4. PastTypes'
    BY <1>0, <1>2, EventCounted DEF ServeSubscribe, PastTypes
  <2> QED
    BY <2>2, <2>3, <2>4, TypesGrouped
<1>3. CASE ServeCommand
  <2>1. requests # <<>> /\ \E ok, active \in BOOLEAN : Answer(ok, active)
    BY <1>3 DEF ServeCommand, Serving
  <2>2. QueueTypes'
    BY <1>0, <1>3, <2>1, Answered DEF ServeCommand, QueueTypes
  <2>3. UnitTypes' /\ CacheTypes' /\ ShownTypes'
    <3>1. jobs' \in [Units -> Commands \cup {"none"}]
      BY <1>0, <1>3 DEF ServeCommand, Serving, UnitTypes
    <3>2. UnitTypes'
      BY <1>0, <1>3, <3>1 DEF ServeCommand, UnitTypes
    <3> QED
      BY <1>0, <1>3, <3>2 DEF ServeCommand, CacheTypes, ShownTypes
  <2>4. PastTypes'
    BY <1>0, <1>3, EventCounted DEF ServeCommand, PastTypes
  <2> QED
    BY <2>2, <2>3, <2>4, TypesGrouped
<1> QED
  BY <1>1, <1>2, <1>3

LEMMA RepliesTyped ==
  ASSUME TrayTypes, \/ SystemdStateChanged \/ SubscribeReplied \/ UnitReplied
                    \/ ActiveStateReplied \/ CommandReplied
  PROVE  TrayTypes'
<1> USE DEF unitVars, systemVars, cacheVars, shownVars, pastVars
<1>0. UnitTypes /\ QueueTypes /\ CacheTypes /\ ShownTypes /\ PastTypes
  BY TypesGrouped
<1>1. CASE SystemdStateChanged
  <2>1. QueueTypes'
    BY <1>0, <1>1, Received, Sent, CallsSent DEF SystemdStateChanged, QueueTypes
  <2>2. UnitTypes' /\ CacheTypes' /\ ShownTypes' /\ PastTypes'
    BY <1>0, <1>1 DEF SystemdStateChanged, UnitTypes, CacheTypes, ShownTypes, PastTypes
  <2> QED
    BY <2>1, <2>2, TypesGrouped
<1>2. CASE SubscribeReplied
  <2>1. QueueTypes'
    BY <1>0, <1>2, Received DEF SubscribeReplied, QueueTypes
  <2>2. retry' \in BOOLEAN
    BY <1>2 DEF SubscribeReplied
  <2>3. UnitTypes' /\ CacheTypes' /\ ShownTypes' /\ PastTypes'
    BY <1>0, <1>2, <2>2 DEF SubscribeReplied, UnitTypes, CacheTypes, ShownTypes, PastTypes
  <2> QED
    BY <2>1, <2>3, TypesGrouped
<1>3. CASE UnitReplied
  <2> DEFINE u == Head(inbox).unit
  <2>1. u \in Units \cup {"none"} /\ inbox' \in Seq(Message)
    BY <1>3, Received DEF UnitReplied, Message
  <2>2. QueueTypes' /\ CacheTypes' /\ ShownTypes'
    <3>1. \/ Send(<<Ask("Get", u)>>) /\ UNCHANGED <<cached, shownVars>>
          \/ /\ UNCHANGED requests /\ cached' = [cached EXCEPT ![u] = FALSE]
             /\ RefreshState(cached')
      BY <1>3 DEF UnitReplied
    <3>2. CASE Send(<<Ask("Get", u)>>) /\ UNCHANGED <<cached, shownVars>>
      <4>1. requests' \in Seq(Request)
        BY <2>1, <3>2, Sent, CallsSent DEF Calls
      <4> QED
        BY <1>0, <1>3, <2>1, <3>2, <4>1 DEF UnitReplied, QueueTypes, CacheTypes, ShownTypes
    <3>3. CASE /\ UNCHANGED requests /\ cached' = [cached EXCEPT ![u] = FALSE]
               /\ RefreshState(cached')
      <4>1. ShownTypes'
        BY <3>3, Refreshed DEF TrayTypes
      <4> QED
        BY <1>0, <1>3, <2>1, <3>3, <4>1 DEF UnitReplied, QueueTypes, CacheTypes
    <3> QED
      BY <3>1, <3>2, <3>3
  <2>3. UnitTypes' /\ PastTypes'
    BY <1>0, <1>3 DEF UnitReplied, UnitTypes, PastTypes
  <2> QED
    BY <2>2, <2>3, TypesGrouped
<1>4. CASE ActiveStateReplied
  <2>1. QueueTypes'
    BY <1>0, <1>4, Received DEF ActiveStateReplied, QueueTypes
  <2>2. ShownTypes'
    BY <1>4, Refreshed DEF ActiveStateReplied, TrayTypes
  <2>3. UnitTypes' /\ CacheTypes' /\ PastTypes'
    BY <1>0, <1>4 DEF ActiveStateReplied, UnitTypes, CacheTypes, PastTypes
  <2> QED
    BY <2>1, <2>2, <2>3, TypesGrouped
<1>5. CASE CommandReplied
  <2>1. /\ Head(inbox).call \in Commands /\ inbox' \in Seq(Message)
    BY <1>5, Received DEF CommandReplied
  <2>2. requests' \in Seq(Request) /\ inFlight' \in BOOLEAN
    <3> DEFINE c == Head(inbox).call
               at == After(c, Head(inbox).unit)
    <3>1. \/ /\ at < Len(Order[c]) /\ UNCHANGED inFlight
             /\ Send(<<Ask(c, Order[c][at + 1])>>)
          \/ inFlight' = FALSE /\ Send(UnitStates)
      BY <1>5 DEF CommandReplied
    <3>2. ASSUME at < Len(Order[c]) PROVE <<Ask(c, Order[c][at + 1])>> \in Seq(Request)
      BY <2>1, <3>2, AfterIsPlace, CallsSent DEF Calls
    <3> HIDE DEF c, at
    <3> QED
      BY <1>0, <3>1, <3>2, Sent, CallsSent DEF CacheTypes
  <2>3. QueueTypes' /\ CacheTypes'
    BY <1>0, <1>5, <2>1, <2>2 DEF CommandReplied, QueueTypes, CacheTypes
  <2>4. UnitTypes' /\ ShownTypes' /\ PastTypes'
    BY <1>0, <1>5 DEF CommandReplied, UnitTypes, ShownTypes, PastTypes
  <2> QED
    BY <2>3, <2>4, TypesGrouped
<1> QED
  BY <1>1, <1>2, <1>3, <1>4, <1>5

LEMMA CommandGiven ==
  ASSUME TrayTypes, NEW call \in Commands, RunSystemdCommands(call)
  PROVE  /\ ShownTypes' /\ requests' \in Seq(Request) /\ inFlight' \in BOOLEAN
         /\ asked' \in Commands \cup {"none"}
<1>1. ShownTypes'
  BY DEF RunSystemdCommands, SetSwitchingState, ShownTypes, Icons
<1>2. Order[call][1] \in Units
  BY DEF Order, Commands, Units
<1>3. <<Ask(call, Order[call][1])>> \in Seq(Request)
  BY <1>2, CallsSent DEF Calls
<1>4. requests' \in Seq(Request)
  BY <1>3, Sent DEF RunSystemdCommands, TrayTypes
<1> QED
  BY <1>1, <1>4 DEF RunSystemdCommands, TrayTypes, TypeOK

LEMMA TraysOwnStepsTyped ==
  ASSUME TrayTypes, \/ FirstRefresh \/ RetryFires \/ AdvanceSpinner
                    \/ StartDaemon \/ StopDaemon \/ Exit
                    \/ \E what \in {"ready", "capture", "audio"} : WatchedChanged(what)
  PROVE  TrayTypes'
<1> USE DEF unitVars, systemVars, cacheVars, shownVars, pastVars
<1>0. UnitTypes /\ QueueTypes /\ CacheTypes /\ ShownTypes /\ PastTypes /\ TypeOK
  BY TypesGrouped DEF TrayTypes
<1>1. CASE FirstRefresh
  <2>1. ShownTypes'
    BY <1>0, <1>1, Refreshed DEF FirstRefresh
  <2>2. UnitTypes' /\ QueueTypes' /\ CacheTypes' /\ PastTypes'
    BY <1>0, <1>1 DEF FirstRefresh, UnitTypes, QueueTypes, CacheTypes, PastTypes
  <2> QED
    BY <2>1, <2>2, TypesGrouped
<1>2. CASE RetryFires
  <2>1. requests' \in Seq(Request)
    BY <1>2, Sent, CallsSent DEF RetryFires, Calls
  <2>2. connected' \in BOOLEAN /\ retry' \in BOOLEAN /\ events' \in 0..MaxEvents
    BY <1>0, <1>2, EventCounted DEF RetryFires, CacheTypes, PastTypes
  <2>3. UnitTypes' /\ QueueTypes' /\ CacheTypes' /\ ShownTypes' /\ PastTypes'
    BY <1>0, <1>2, <2>1, <2>2
       DEF RetryFires, UnitTypes, QueueTypes, CacheTypes, ShownTypes, PastTypes
  <2> QED
    BY <2>3, TypesGrouped
<1>3. CASE AdvanceSpinner
  <2>1. /\ spinning = TRUE /\ spinning' = TRUE /\ icon' = "yellow"
        /\ UNCHANGED <<onEnabled, offEnabled>>
    BY <1>0, <1>3 DEF AdvanceSpinner, ShownTypes
  <2>2. ShownTypes'
    BY <1>0, <2>1 DEF ShownTypes, Icons
  <2>3. UnitTypes' /\ QueueTypes' /\ CacheTypes' /\ PastTypes'
    BY <1>0, <1>3 DEF AdvanceSpinner, UnitTypes, QueueTypes, CacheTypes, PastTypes
  <2> QED
    BY <2>2, <2>3, TypesGrouped
<1>4. CASE StartDaemon
  <2>1. /\ ShownTypes' /\ requests' \in Seq(Request) /\ inFlight' \in BOOLEAN
        /\ asked' \in Commands \cup {"none"}
    <3>1. CASE RefreshState(cached) /\ UNCHANGED <<inFlight, requests, asked>>
      BY <1>0, <3>1, Refreshed DEF QueueTypes, CacheTypes, PastTypes
    <3>2. CASE RunSystemdCommands("StartUnit")
      BY <3>2, CommandGiven DEF Commands
    <3> QED
      BY <1>4, <3>1, <3>2 DEF StartDaemon
  <2>2. events' \in 0..MaxEvents
    BY <1>0, <1>4, EventCounted DEF StartDaemon, Clicks
  <2>3. UnitTypes' /\ QueueTypes' /\ CacheTypes' /\ PastTypes'
    BY <1>0, <1>4, <2>1, <2>2 DEF StartDaemon, UnitTypes, QueueTypes, CacheTypes, PastTypes
  <2> QED
    BY <2>1, <2>3, TypesGrouped
<1>5. CASE StopDaemon
  <2>1. /\ ShownTypes' /\ requests' \in Seq(Request) /\ inFlight' \in BOOLEAN
        /\ asked' \in Commands \cup {"none"}
    BY <1>5, CommandGiven DEF StopDaemon, Commands
  <2>2. events' \in 0..MaxEvents
    BY <1>0, <1>5, EventCounted DEF StopDaemon, Clicks
  <2>3. UnitTypes' /\ QueueTypes' /\ CacheTypes' /\ PastTypes'
    BY <1>0, <1>5, <2>1, <2>2 DEF StopDaemon, UnitTypes, QueueTypes, CacheTypes, PastTypes
  <2> QED
    BY <2>1, <2>3, TypesGrouped
<1>6. CASE Exit
  <2>1. ShownTypes' /\ CacheTypes'
    BY <1>6 DEF Exit, ShownTypes, CacheTypes, Icons
  <2>2. UnitTypes' /\ QueueTypes'
    BY <1>0, <1>6, EmptySeq DEF Exit, UnitTypes, QueueTypes
  <2>3. events' \in 0..MaxEvents
    BY <1>0, <1>6, EventCounted DEF Exit, Clicks
  <2>4. PastTypes'
    BY <1>0, <1>6, <2>3 DEF Exit, PastTypes
  <2> QED
    BY <2>1, <2>2, <2>4, TypesGrouped
<1>7. ASSUME NEW what \in {"ready", "capture", "audio"}, WatchedChanged(what)
      PROVE  TrayTypes'
  <2>1. ShownTypes'
    BY <1>0, <1>7, Refreshed DEF WatchedChanged
  <2>2. UnitTypes' /\ QueueTypes' /\ CacheTypes' /\ PastTypes'
    BY <1>0, <1>7 DEF WatchedChanged, UnitTypes, QueueTypes, CacheTypes, PastTypes
  <2> QED
    BY <2>1, <2>2, TypesGrouped
<1> QED
  BY <1>1, <1>2, <1>3, <1>4, <1>5, <1>6, <1>7

LEMMA TypesKept ==
  ASSUME TrayTypes, [Next]_vars
  PROVE  TrayTypes'
<1>1. CASE UNCHANGED vars
  BY <1>1 DEF vars, unitVars, systemVars, cacheVars, shownVars, pastVars, TrayTypes, TypeOK
<1> QED
  BY <1>1, UnitStepsTyped, SystemStepsTyped, RepliesTyped, TraysOwnStepsTyped
     DEF Next, SystemStep, TrayStep

-----------------------------------------------------------------------------
(* One command at a time. *)

(* Steps that only shorten or lengthen the queues by other calls. *)
LEMMA SystemKeepsCommands ==
  ASSUME TrayTypes, TrayInv,
         \/ ListenerComesOrGoes \/ ListenerReports \/ ListenerHears
         \/ HandlerComesOrGoes \/ HandlerMarks \/ MicrophoneChanges
         \/ SystemStep
  PROVE  TrayInv'
<1> USE DEF unitVars, systemVars, cacheVars, shownVars, pastVars
<1>0. UNCHANGED <<alive, inFlight, icon, onEnabled, offEnabled>>
  BY DEF ListenerComesOrGoes, ListenerReports, ListenerHears, HandlerComesOrGoes,
         HandlerMarks, MicrophoneChanges, SystemStep, ServeQuery, ServeSubscribe,
         ServeCommand, RunJob
<1>1. CASE \/ ListenerComesOrGoes \/ HandlerComesOrGoes \/ \E u \in Units : RunJob(u)
  <2>1. UNCHANGED requests /\ \E u \in Units : UnitChanged(u)
    BY <1>1 DEF ListenerComesOrGoes, HandlerComesOrGoes, RunJob, Units
  <2>2. (Free => Free') /\ (Busy => Busy')
    BY <2>1, Signalled DEF Free, Busy
  <2> QED
    BY <1>0, <2>2 DEF TrayInv, OneUnderWay, Locked
<1>2. CASE ListenerReports \/ ListenerHears \/ HandlerMarks \/ MicrophoneChanges
  <2>1. UNCHANGED <<requests, inbox>>
    BY <1>2 DEF ListenerReports, ListenerHears, HandlerMarks, MicrophoneChanges
  <2> QED
    BY <1>0, <2>1 DEF TrayInv, OneUnderWay, Locked, Free, Busy
<1>3. CASE ServeQuery \/ ServeSubscribe \/ ServeCommand
  <2>1. requests # <<>> /\ \E ok, active \in BOOLEAN : Answer(ok, active)
    <3>1. \A u : Active(u) \in BOOLEAN
      BY DEF Active, TrayTypes, TypeOK
    <3> QED
      BY <1>3, <3>1 DEF ServeQuery, ServeSubscribe, ServeCommand, Serving
  <2>2. alive => (Free => Free') /\ (Busy => Busy')
    BY <2>1, Answered
  <2> QED
    BY <1>0, <2>2 DEF TrayInv, OneUnderWay, Locked
<1> QED
  BY <1>1, <1>2, <1>3 DEF SystemStep

LEMMA RepliesKeepCommands ==
  ASSUME TrayTypes, TrayInv, \/ SystemdStateChanged \/ SubscribeReplied \/ UnitReplied
                             \/ ActiveStateReplied
  PROVE  TrayInv'
<1> USE DEF unitVars, systemVars, cacheVars, shownVars, pastVars
<1>1. UNCHANGED <<alive, inFlight>>
  BY DEF SystemdStateChanged, SubscribeReplied, UnitReplied, ActiveStateReplied
<1>2. inFlight => UNCHANGED <<icon, onEnabled, offEnabled>>
  BY Refreshed
     DEF SystemdStateChanged, SubscribeReplied, UnitReplied, ActiveStateReplied, TrayTypes
<1>3. /\ None(inbox) => None(inbox')
      /\ One(inbox) => One(inbox')
  <2>1. \A c \in {"signal", "Subscribe", "GetUnit", "Get"} : c \notin Commands
    BY DEF Commands
  <2> QED
    BY <2>1, Received
       DEF SystemdStateChanged, SubscribeReplied, UnitReplied, ActiveStateReplied
<1>4. /\ None(requests) => None(requests')
      /\ One(requests) => One(requests')
  <2>1. CASE UNCHANGED requests
    BY <2>1
  <2>2. CASE Send(UnitStates)
    BY <2>2, Sent, CallsSent
  <2>3. ASSUME NEW u \in Units \cup {"none"}, Send(<<Ask("Get", u)>>)
        PROVE  /\ None(requests) => None(requests')
               /\ One(requests) => One(requests')
    <3>1. <<Ask("Get", u)>> \in Seq(Request) /\ None(<<Ask("Get", u)>>)
      BY CallsSent DEF Calls, Commands
    <3> QED
      BY <2>3, <3>1, Sent
  <2>4. UnitReplied => Head(inbox).unit \in Units \cup {"none"}
    BY Received DEF UnitReplied, Message
  <2> QED
    BY <2>1, <2>2, <2>3, <2>4
       DEF SystemdStateChanged, SubscribeReplied, UnitReplied, ActiveStateReplied
<1> QED
  BY <1>1, <1>2, <1>3, <1>4 DEF TrayInv, OneUnderWay, Locked, Free, Busy

(* The reply to the command in flight is the only one there is: the next   *)
(* call takes its place, or the command is over.                           *)
LEMMA CommandsFollow ==
  ASSUME TrayTypes, TrayInv, CommandReplied
  PROVE  TrayInv'
<1> DEFINE c == Head(inbox).call
           at == After(c, Head(inbox).unit)
<1>1. /\ alive /\ c \in Commands /\ UNCHANGED <<alive, icon, onEnabled, offEnabled>>
      /\ None(inbox) => FALSE
      /\ One(inbox) => None(inbox')
  BY Received DEF CommandReplied, shownVars
<1>2. inFlight /\ None(requests) /\ None(inbox')
  BY <1>1 DEF TrayInv, OneUnderWay, Free, Busy
<1>3. \/ /\ at < Len(Order[c]) /\ UNCHANGED inFlight
         /\ Send(<<Ask(c, Order[c][at + 1])>>)
      \/ inFlight' = FALSE /\ Send(UnitStates)
  BY DEF CommandReplied
<1>4. ASSUME at < Len(Order[c])
      PROVE  <<Ask(c, Order[c][at + 1])>> \in Seq(Request) /\ One(<<Ask(c, Order[c][at + 1])>>)
  BY <1>1, <1>4, AfterIsPlace, CallsSent DEF Calls
<1>5. CASE at < Len(Order[c]) /\ UNCHANGED inFlight /\ Send(<<Ask(c, Order[c][at + 1])>>)
  <2> HIDE DEF c, at
  <2>1. One(requests')
    BY <1>2, <1>4, <1>5, Sent
  <2> QED
    BY <1>1, <1>2, <1>5, <2>1 DEF TrayInv, OneUnderWay, Locked, Busy
<1>6. CASE inFlight' = FALSE /\ Send(UnitStates)
  <2>1. None(requests')
    BY <1>2, <1>6, Sent, CallsSent
  <2> QED
    BY <1>2, <1>6, <2>1 DEF TrayInv, OneUnderWay, Locked, Free
<1> QED
  BY <1>3, <1>5, <1>6

(* A command is sent only when there is none. *)
LEMMA CommandsWait ==
  ASSUME TrayTypes, TrayInv, NEW call \in Commands, alive, UNCHANGED <<alive, inbox>>,
         onEnabled \/ offEnabled, RunSystemdCommands(call)
  PROVE  TrayInv'
<1>1. ~inFlight /\ None(requests) /\ None(inbox)
  BY DEF TrayInv, OneUnderWay, Locked, Free
<1>2. inFlight' = TRUE /\ Send(<<Ask(call, Order[call][1])>>) /\ SetSwitchingState
  BY <1>1 DEF RunSystemdCommands
<1>3. Order[call][1] \in Units
  BY DEF Order, Commands, Units
<1>4. <<Ask(call, Order[call][1])>> \in Seq(Request) /\ One(<<Ask(call, Order[call][1])>>)
  BY <1>3, CallsSent DEF Calls
<1>5. One(requests')
  BY <1>1, <1>2, <1>4, Sent
<1>6. Locked'
  BY <1>2 DEF SetSwitchingState, Locked
<1> QED
  BY <1>1, <1>2, <1>5, <1>6 DEF TrayInv, OneUnderWay, Busy

LEMMA TrayKeepsCommands ==
  ASSUME TrayTypes, TrayInv,
         \/ FirstRefresh \/ RetryFires \/ AdvanceSpinner
         \/ StartDaemon \/ StopDaemon \/ Exit
         \/ \E what \in {"ready", "capture", "audio"} : WatchedChanged(what)
  PROVE  TrayInv'
<1> USE DEF unitVars, systemVars, cacheVars, shownVars, pastVars
<1>1. CASE FirstRefresh \/ \E what \in {"ready", "capture", "audio"} : WatchedChanged(what)
  <2>1. UNCHANGED <<alive, inFlight, requests, inbox>> /\ RefreshState(cached)
    BY <1>1 DEF FirstRefresh, WatchedChanged
  <2> QED
    BY <2>1, Refreshed DEF TrayTypes, TrayInv, OneUnderWay, Locked, Free, Busy
<1>2. CASE RetryFires
  <2>1. <<Ask("Subscribe", "none")>> \in Seq(Request) /\ None(<<Ask("Subscribe", "none")>>)
    BY CallsSent DEF Calls, Commands
  <2>2. /\ None(requests) => None(requests')
        /\ One(requests) => One(requests')
    BY <1>2, <2>1, Sent DEF RetryFires
  <2> QED
    BY <1>2, <2>2 DEF RetryFires, TrayInv, OneUnderWay, Locked, Free, Busy
<1>3. CASE AdvanceSpinner
  BY <1>3 DEF AdvanceSpinner, TrayInv, OneUnderWay, Locked, Free, Busy
<1>4. CASE StartDaemon
  <2>1. CASE RefreshState(cached) /\ UNCHANGED <<inFlight, requests, asked>>
    <3>1. UNCHANGED <<alive, inbox>>
      BY <1>4 DEF StartDaemon
    <3> QED
      BY <2>1, <3>1, Refreshed DEF TrayTypes, TrayInv, OneUnderWay, Locked, Free, Busy
  <2>2. CASE RunSystemdCommands("StartUnit")
    BY <1>4, <2>2, CommandsWait DEF StartDaemon, Clicks, Commands
  <2> QED
    BY <1>4, <2>1, <2>2 DEF StartDaemon
<1>5. CASE StopDaemon
  BY <1>5, CommandsWait DEF StopDaemon, Clicks, Commands
<1>6. CASE Exit
  BY <1>6 DEF Exit, TrayInv, OneUnderWay, Locked
<1> QED
  BY <1>1, <1>2, <1>3, <1>4, <1>5, <1>6

LEMMA CommandsKept ==
  ASSUME TrayTypes, TrayInv, [Next]_vars
  PROVE  TrayInv'
<1>1. CASE UNCHANGED vars
  BY <1>1 DEF vars, systemVars, cacheVars, shownVars, TrayInv, OneUnderWay, Locked, Free, Busy
<1> QED
  BY <1>1, SystemKeepsCommands, RepliesKeepCommands, CommandsFollow, TrayKeepsCommands
     DEF Next, TrayStep

-----------------------------------------------------------------------------
(* The theorems. *)

LEMMA InitTray == Init => TrayTypes /\ TrayInv
<1> SUFFICES ASSUME Init PROVE TrayTypes /\ TrayInv
  OBVIOUS
<1>1. PICK found \in Found : /\ listener = found.listener /\ file = found.file
                             /\ handler = found.handler /\ marker = found.marker
                             /\ mic = found.mic
  BY DEF Init
<1>2. UnitTypes
  BY <1>1, TrayAssumption DEF Init, UnitTypes, Listener!Statuses
<1>3. requests \in Seq(Request) /\ None(requests)
  <2>1. <<Ask("Subscribe", "none")>> \in Seq(Request) /\ None(<<Ask("Subscribe", "none")>>)
    BY CallsSent DEF Calls, Commands
  <2>2. requests = <<Ask("Subscribe", "none")>> \o UnitStates
    BY DEF Init
  <2> QED
    BY <2>1, <2>2, CallsSent, ConcatProperties, Joined
<1>4. inbox = <<>> /\ inbox \in Seq(Message) /\ None(inbox)
  BY EmptySeq DEF Init, None
<1>5. QueueTypes
  BY <1>3, <1>4 DEF Init, QueueTypes
<1>6. connected \in BOOLEAN /\ retry \in BOOLEAN /\ events \in 0..MaxEvents
  <2>1. connected = TRUE \/ connected = (MaxEvents = 0)
    BY DEF Init
  <2>2. connected \in BOOLEAN /\ (connected \/ MaxEvents # 0)
    BY <2>1
  <2>3. retry \in BOOLEAN /\ events = IF connected THEN 0 ELSE 1
    BY DEF Init
  <2> QED
    BY <2>2, <2>3, TrayAssumption
<1>7. CacheTypes /\ ShownTypes /\ PastTypes
  BY <1>6 DEF Init, CacheTypes, ShownTypes, PastTypes, Icons
<1>8. TrayInv
  BY <1>3, <1>4 DEF Init, TrayInv, OneUnderWay, Locked, Free
<1> QED
  BY <1>2, <1>5, <1>7, <1>8, TypesGrouped

LEMMA TrayInvHolds == Spec => [](TrayTypes /\ TrayInv)
<1>1. TrayTypes /\ TrayInv /\ [Next]_vars => (TrayTypes /\ TrayInv)'
  BY TypesKept, CommandsKept
<1> QED
  BY <1>1, InitTray, PTL DEF Spec

(* The queues too: what systemd and the tray send each other is a call of  *)
(* one of the units, or a signal.                                          *)
THEOREM TrayTypeCorrect == Spec => []TypeOK
<1>1. TrayTypes => TypeOK
  BY DEF TrayTypes
<1> QED
  BY <1>1, TrayInvHolds, PTL

(* Whatever is clicked, fails or changes meanwhile: no second command is   *)
(* given while one is in flight, and no reply ends a command but its own.  *)
THEOREM CommandsDoNotOverlap == Spec => []OneCommandAtATime
<1>1. TrayTypes /\ TrayInv => OneCommandAtATime
  <2> SUFFICES ASSUME TrayTypes, TrayInv, alive PROVE OneCommandAtATime
    BY DEF OneCommandAtATime
  <2> DEFINE all == requests \o inbox
  <2>1. CASE inFlight
    <3>1. One(all)
      BY <2>1, Joined DEF TrayInv, OneUnderWay, Busy, TrayTypes
    <3>2. \E i \in DOMAIN all : CommandsIn(all) = {i}
      <4> HIDE DEF all
      <4> QED
        BY <3>1 DEF One, CommandsIn
    <3> QED
      BY <2>1, <3>2 DEF TrayInv, Locked, OneCommandAtATime
  <2>2. CASE ~inFlight
    <3>1. None(all)
      BY <2>2, Joined DEF TrayInv, OneUnderWay, Free, TrayTypes
    <3> QED
      BY <2>2, <3>1 DEF None, CommandsIn, OneCommandAtATime
  <2> QED
    BY <2>1, <2>2
<1> QED
  BY <1>1, TrayInvHolds, PTL

=============================================================================
