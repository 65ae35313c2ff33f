------------------------- MODULE ActivationServerProofs -------------------------
(***************************************************************************)
(* What holds of the warm server and its handlers for every backlog,       *)
(* cooldown, number of detections and length of the clock: their types,    *)
(* that an activation opens one session, and that one detected during a    *)
(* session opens none.                                                     *)
(***************************************************************************)
EXTENDS ActivationServer, TLAPS

(* TypeOK, and what the phases of server and handler say of the activation *)
(* each of them has in hand.                                               *)
Accepted == {"receive", "session", "reply"}

PhasesHold ==
  /\ server = "down" => queue = <<>>
  /\ server \in Accepted => current \in Activation
  /\ server \notin Accepted => current = NoActivation
  /\ handler # "none" => act \in Activation /\ act.id = heard
  /\ handler = "none" => act = NoActivation

ServerInv == TypeOK /\ PhasesHold

(* The connections the server has not opened a session for.  They are of   *)
(* different activations, and of none that anybody opened a session for.   *)
(* Without the first part a second connection could be served after the    *)
(* first; without the bound by `heard' a new detection could be one of the *)
(* old ones.                                                               *)
QueueDistinct ==
  /\ \A i, j \in DOMAIN queue : i # j => queue[i].id # queue[j].id
  /\ \A i \in DOMAIN queue : queue[i].id <= heard

Unserved(id) == id \notin served /\ id \notin local

UnservedWait ==
  /\ \A i \in DOMAIN queue : Unserved(queue[i].id) /\ queue[i].id # current.id
  /\ server = "receive" => Unserved(current.id)

ConnectingIsNew ==
  handler = "connect" =>
    /\ Unserved(act.id) /\ act.id # current.id
    /\ \A i \in DOMAIN queue : queue[i].id # act.id

IdsHeard ==
  /\ \A id \in served \cup local : id <= heard
  /\ current.id <= heard

OnceInv == QueueDistinct /\ UnservedWait /\ ConnectingIsNew /\ IdsHeard /\ HandledOnce

(* What was detected during a session of this server process is no younger *)
(* than that session, once it is over.                                     *)
Echoed(a) ==
  a.during => /\ a.at <= now
              /\ server # "session" => finishedAt > 0 /\ a.at <= finishedAt

EchoInv ==
  /\ server # "down" => /\ Echoed(act) /\ Echoed(current)
                        /\ \A i \in DOMAIN queue : Echoed(queue[i])
  /\ EchoNeverServed

-----------------------------------------------------------------------------
(* What the handler's failures and a vanished server do to the handler. *)

(* A timeout ends the handler; any other exception starts a session there. *)
LEMMA FailureOutcome ==
  ASSUME NEW exc \in {"timeout", "disabled", "refused", "again", "reset"}, AfterFailure(exc)
  PROVE  \/ /\ exc = "timeout"
            /\ handler' = "none" /\ act' = NoActivation /\ cause' = "none" /\ local' = local
         \/ /\ exc # "timeout"
            /\ handler' = "local" /\ act' = act /\ cause' = exc /\ local' = local \cup {act.id}
  BY DEF AfterFailure, RunsSession, FallsBack, HandlerExits

(* A handler without a server goes the way of one that cannot reach it. *)
LEMMA DisabledOutcome ==
  ASSUME ServerDisabled
  PROVE  AfterFailure("disabled") /\ handler = "connect"
  BY DEF ServerDisabled, AfterFailure, FallsBack

(* A handler that waits when its server goes away exits, or runs the       *)
(* session of a connection that nobody has read.                           *)
LEMMA DropOutcome ==
  ASSUME DropConnections
  PROVE  /\ queue' = <<>> /\ current' = NoActivation
         /\ \/ UNCHANGED <<handler, act, cause, local>>
            \/ /\ handler = "waiting" /\ handler' = "none" /\ act' = NoActivation
               /\ cause' = "none" /\ local' = local
            \/ /\ handler = "waiting" /\ handler' = "local" /\ act' = act
               /\ cause' = "reset" /\ local' = local \cup {act.id}
               /\ \/ \E i \in DOMAIN queue : queue[i] = act
                  \/ server = "receive" /\ current = act
<1>1. CASE handler # "waiting"
  BY <1>1 DEF DropConnections
<1>2. CASE handler = "waiting" /\ AfterFailure("reset") /\
           act \in {queue[i] : i \in DOMAIN queue} \cup (IF server = "receive" THEN {current} ELSE {})
  BY <1>2, FailureOutcome DEF DropConnections
<1>3. CASE handler = "waiting" /\ HandlerExits /\ UNCHANGED local
  BY <1>3 DEF DropConnections, HandlerExits
<1> QED
  BY <1>1, <1>2, <1>3 DEF DropConnections

(* Sequences of connections, as one joins and as one is accepted. *)
LEMMA QueueJoined ==
  ASSUME NEW q \in Seq(Activation), NEW a \in Activation
  PROVE  /\ Append(q, a) \in Seq(Activation) /\ Len(Append(q, a)) = Len(q) + 1
         /\ DOMAIN q = 1..Len(q) /\ Len(q) \in Nat
         /\ DOMAIN Append(q, a) = 1..(Len(q) + 1)
         /\ \A i \in 1..Len(q) : Append(q, a)[i] = q[i]
         /\ Append(q, a)[Len(q) + 1] = a
  OBVIOUS

LEMMA QueueServed ==
  ASSUME NEW q \in Seq(Activation), q # <<>>
  PROVE  /\ Tail(q) \in Seq(Activation) /\ Len(Tail(q)) = Len(q) - 1
         /\ Head(q) = q[1] /\ 1 \in DOMAIN q /\ Head(q) \in Activation
         /\ \A i \in DOMAIN Tail(q) : i + 1 \in DOMAIN q /\ i + 1 # 1 /\ Tail(q)[i] = q[i + 1]
         /\ \A i, j \in DOMAIN Tail(q) : i # j => i + 1 # j + 1
  OBVIOUS

-----------------------------------------------------------------------------
(* Types and phases. *)

LEMMA InitServer == Init => ServerInv /\ OnceInv /\ EchoInv
<1> SUFFICES ASSUME Init PROVE ServerInv /\ OnceInv /\ EchoInv
  OBVIOUS
<1>1. ServerInv
  <2>1. 1 \in 1..MaxTime /\ 0 \in 0..MaxActivations /\ 0 \in 0..MaxTime
    BY ServerAssumption
  <2>2. <<>> \in Seq(Activation) /\ Len(<<>>) = 0 /\ 0 <= Backlog + 1
    BY ServerAssumption
  <2> QED
    BY <2>1, <2>2 DEF Init, ServerInv, TypeOK, PhasesHold, Accepted
<1>2. OnceInv
  BY DEF Init, OnceInv, QueueDistinct, UnservedWait, ConnectingIsNew, IdsHeard, HandledOnce,
    NoActivation
<1>3. EchoInv
  BY DEF Init, EchoInv, EchoNeverServed
<1> QED
  BY <1>1, <1>2, <1>3

(* A restarted server has seen no session: `during' is about its own ones. *)
LEMMA ActivationRenewed ==
  ASSUME NEW a \in Activation \cup {NoActivation}
  PROVE  /\ [a EXCEPT !.during = FALSE].id = a.id
         /\ [a EXCEPT !.during = FALSE].during = FALSE
         /\ a \in Activation => [a EXCEPT !.during = FALSE] \in Activation
         /\ a = NoActivation => [a EXCEPT !.during = FALSE] = NoActivation
<1>1. CASE a \in Activation
  <2>1. a # NoActivation
    BY <1>1 DEF Activation, NoActivation
  <2> QED
    BY <1>1, <2>1 DEF Activation
<1>2. CASE a = NoActivation
  <2>1. a \notin Activation
    BY <1>2 DEF Activation, NoActivation
  <2>2. NoActivation \in [id : {0}, at : {0}, during : {FALSE}]
    BY DEF NoActivation
  <2>3. [NoActivation EXCEPT !.during = FALSE] = NoActivation
    BY <2>2
  <2>4. NoActivation.during = FALSE
    BY DEF NoActivation
  <2> QED
    BY <1>2, <2>1, <2>3, <2>4
<1> QED
  BY <1>1, <1>2

LEMMA TypesKept ==
  ASSUME ServerInv, [Next]_vars
  PROVE  ServerInv'
<1> USE ServerAssumption DEF ServerInv, TypeOK, PhasesHold, Accepted
<1>1. CASE Detect
  <2>1. act' \in Activation /\ act'.id = heard'
    BY <1>1 DEF Detect, Activation
  <2> QED
    BY <1>1, <2>1 DEF Detect, serverVars
<1>2. CASE Connect
  <2>1. queue' \in Seq(Activation) /\ Len(queue') <= Backlog + 1 /\ queue' # <<>>
    BY <1>2, QueueJoined DEF Connect, QueueFull
  <2> QED
    BY <1>2, <2>1 DEF Connect, Listening
<1>3. CASE ServerDisabled \/ ConnectFails \/ ClientTimesOut
  <2>1. handler # "none" /\ act.id \in 1..MaxActivations /\ UNCHANGED <<now, stop, heard, serverVars>>
    BY <1>3 DEF ServerDisabled, ConnectFails, ClientTimesOut, Activation
  <2>2. \E exc \in {"timeout", "disabled", "refused", "again", "reset"} : AfterFailure(exc)
    BY <1>3, DisabledOutcome DEF ConnectFails, ClientTimesOut
  <2> QED
    BY <2>1, <2>2, FailureOutcome DEF serverVars
<1>4. CASE LocalSessionEnds
  BY <1>4 DEF LocalSessionEnds, HandlerExits, serverVars
<1>5. CASE ServerStarts
  <2>1. act' = [act EXCEPT !.during = FALSE]
    BY <1>5 DEF ServerStarts
  <2>2. /\ act \in Activation => act' \in Activation /\ act'.id = act.id
        /\ act = NoActivation => act' = NoActivation
    BY <2>1, ActivationRenewed
  <2>3. /\ server = "down" /\ server' = "prewarm" /\ stop' = FALSE /\ ready' = FALSE
        /\ finishedAt' = 0
        /\ UNCHANGED <<now, heard, handler, cause, local, queue, current, served>>
    BY <1>5 DEF ServerStarts, ClearReady
  <2>4. 0 \in 0..MaxTime
    OBVIOUS
  <2>5. TypeOK'
    BY <2>2, <2>3, <2>4
  <2>6. PhasesHold'
    BY <2>2, <2>3
  <2> QED
    BY <2>5, <2>6
<1>6. CASE ServerStops \/ ServerCrashes
  <2>1. /\ DropConnections /\ server' = "down" /\ ready' \in BOOLEAN
        /\ UNCHANGED <<now, heard, stop, finishedAt, served>>
    BY <1>6 DEF ServerStops, ServerCrashes, ClearReady
  <2>2. handler = "waiting" => act.id \in 1..MaxActivations
    BY DEF Activation
  <2>3. queue' \in Seq(Activation) /\ Len(queue') <= Backlog + 1 /\ current' = NoActivation
    BY <2>1, DropOutcome
  <2>4. /\ handler' \in {"none", "connect", "waiting", "local"}
        /\ act' \in Activation \cup {NoActivation}
        /\ cause' \in {"none", "disabled", "refused", "again", "reset"}
        /\ local' \in SUBSET (1..MaxActivations)
        /\ handler' # "none" => act' \in Activation /\ act'.id = heard'
        /\ handler' = "none" => act' = NoActivation
    BY <2>1, <2>2, DropOutcome
  <2> QED
    BY <2>1, <2>3, <2>4, DropOutcome
<1>7. CASE Prewarmed \/ AcceptAgain \/ StopSignal
  BY <1>7 DEF Prewarmed, AcceptAgain, StopSignal, clientFrame, handlerVars, serverVars
<1>8. CASE Accept
  <2>1. /\ queue' \in Seq(Activation) /\ Len(queue') <= Backlog + 1 /\ current' \in Activation
    BY <1>8, QueueServed DEF Accept
  <2> QED
    BY <1>8, <2>1 DEF Accept, clientFrame, handlerVars
<1>9. CASE IgnoreStale
  BY <1>9 DEF IgnoreStale, clientFrame, handlerVars
<1>10. CASE OpenSession
  <2>1. current.id \in 1..MaxActivations
    BY <1>10 DEF OpenSession, Activation
  <2> QED
    BY <1>10, <2>1 DEF OpenSession, clientFrame, handlerVars
<1>11. CASE SessionEnds
  BY <1>11 DEF SessionEnds, Finish, clientFrame, handlerVars
<1>12. CASE Reply
  BY <1>12 DEF Reply, HandlerExits
<1>13. CASE Tick
  BY <1>13 DEF Tick, handlerVars, serverVars
<1>14. CASE UNCHANGED vars
  BY <1>14 DEF vars, handlerVars, serverVars
<1> QED
  BY <1>1, <1>2, <1>3, <1>4, <1>5, <1>6, <1>7, <1>8, <1>9, <1>10, <1>11, <1>12, <1>13, <1>14
  DEF Next, ServerStep

-----------------------------------------------------------------------------
(* One session for an activation. *)

LEMMA Numbers ==
  ASSUME ServerInv
  PROVE  /\ heard \in Nat /\ current.id \in Nat
         /\ \A i \in DOMAIN queue : queue[i].id \in Nat
         /\ \A id \in served \cup local : id \in Nat
<1>1. current.id \in Nat
  BY DEF ServerInv, TypeOK, Activation, NoActivation
<1>2. \A i \in DOMAIN queue : queue[i] \in Activation
  BY DEF ServerInv, TypeOK
<1> QED
  BY <1>1, <1>2 DEF ServerInv, TypeOK, Activation

LEMMA OnceKept ==
  ASSUME ServerInv, OnceInv, [Next]_vars
  PROVE  OnceInv'
<1> USE DEF OnceInv, QueueDistinct, UnservedWait, ConnectingIsNew, IdsHeard, HandledOnce, Unserved
<1>0. /\ heard \in Nat /\ current.id \in Nat
      /\ \A i \in DOMAIN queue : queue[i].id \in Nat
      /\ \A id \in served \cup local : id \in Nat
  BY Numbers
<1>1. CASE Detect
  <2>1. /\ heard' = heard + 1 /\ act'.id = heard + 1
        /\ UNCHANGED <<queue, current, served, local, server>>
    BY <1>1 DEF Detect, serverVars
  <2>2. /\ current.id < act'.id /\ current.id <= heard'
        /\ \A i \in DOMAIN queue : queue[i].id < act'.id /\ queue[i].id <= heard'
        /\ \A id \in served \cup local : id < act'.id /\ id <= heard'
    BY <1>0, <2>1
  <2>3. /\ act'.id \in Nat /\ Unserved(act'.id) /\ act'.id # current.id
        /\ \A i \in DOMAIN queue : queue[i].id # act'.id
    BY <1>0, <2>1, <2>2
  <2>4. QueueDistinct' /\ IdsHeard'
    BY <2>1, <2>2
  <2>5. ConnectingIsNew'
    BY <2>1, <2>3
  <2> QED
    BY <2>1, <2>4, <2>5
<1>2. CASE Connect
  <2>1. /\ act \in Activation /\ act.id = heard /\ queue \in Seq(Activation)
        /\ queue' = Append(queue, act) /\ handler' = "waiting"
        /\ Unserved(act.id) /\ act.id # current.id
        /\ \A i \in DOMAIN queue : queue[i].id # act.id
        /\ UNCHANGED <<heard, current, served, local, server>>
    BY <1>2 DEF Connect, ServerInv, TypeOK, PhasesHold
  <2>2. \A i \in DOMAIN queue' : \/ i \in DOMAIN queue /\ queue'[i] = queue[i]
                                 \/ i = Len(queue) + 1 /\ queue'[i] = act
    BY <2>1, QueueJoined
  <2>3. \A i \in DOMAIN queue' : queue'[i].id <= heard'
    BY <1>0, <2>1, <2>2
  <2>4. \A i, j \in DOMAIN queue' : i # j => queue'[i].id # queue'[j].id
    <3> SUFFICES ASSUME NEW i \in DOMAIN queue', NEW j \in DOMAIN queue', i # j
                 PROVE  queue'[i].id # queue'[j].id
      OBVIOUS
    <3>1. CASE i \in DOMAIN queue /\ queue'[i] = queue[i]
      BY <2>1, <2>2, <3>1
    <3>2. CASE i = Len(queue) + 1 /\ queue'[i] = act
      <4>1. j \in DOMAIN queue /\ queue'[j] = queue[j]
        BY <2>2, <3>2
      <4> QED
        BY <2>1, <3>2, <4>1
    <3> QED
      BY <2>2, <3>1, <3>2
  <2>5. QueueDistinct' /\ UnservedWait'
    BY <2>1, <2>2, <2>3, <2>4
  <2> QED
    BY <2>1, <2>5
<1>3. CASE ServerDisabled \/ ConnectFails \/ ClientTimesOut
  <2>1. UNCHANGED <<heard, queue, current, served, server>>
    BY <1>3 DEF ServerDisabled, ConnectFails, ClientTimesOut, serverVars
  <2>2. \/ handler' = "none" /\ local' = local
        \/ handler = "connect" /\ handler' = "local" /\ local' = local \cup {act.id}
    BY <1>3, FailureOutcome, DisabledOutcome DEF ConnectFails, ClientTimesOut
  <2>3. act.id = heard \/ handler # "connect"
    BY DEF ServerInv, PhasesHold
  <2>4. CASE handler' = "none" /\ local' = local
    BY <2>1, <2>4
  <2>5. CASE handler = "connect" /\ handler' = "local" /\ local' = local \cup {act.id}
    <3>1. /\ Unserved(act.id) /\ act.id # current.id
          /\ \A i \in DOMAIN queue : queue[i].id # act.id
      BY <2>5
    <3> QED
      BY <1>0, <2>1, <2>3, <2>5, <3>1
  <2> QED
    BY <2>2, <2>4, <2>5
<1>4. CASE LocalSessionEnds
  BY <1>4 DEF LocalSessionEnds, HandlerExits, serverVars
<1>5. CASE ServerStarts
  <2>1. act'.id = act.id
    BY <1>5, ActivationRenewed DEF ServerStarts, ServerInv, TypeOK
  <2>2. /\ server' = "prewarm" /\ UNCHANGED <<heard, handler, local, queue, current, served>>
    BY <1>5 DEF ServerStarts
  <2> QED
    BY <2>1, <2>2
<1>6. CASE ServerStops \/ ServerCrashes
  <2>1. DropConnections /\ server' = "down" /\ UNCHANGED <<heard, served>>
    BY <1>6 DEF ServerStops, ServerCrashes
  <2>2. queue' = <<>> /\ current' = NoActivation /\ NoActivation.id = 0 /\ 0 <= heard
    BY <1>0, <2>1, DropOutcome DEF NoActivation
  <2>3. \/ UNCHANGED <<handler, act, local>>
        \/ handler' # "connect" /\ local' = local
        \/ handler' # "connect" /\ local' = local \cup {act.id}
           /\ act.id \notin served /\ act.id = heard
    BY <2>1, DropOutcome DEF ServerInv, PhasesHold
  <2>4. act.id > 0 \/ handler # "connect"
    BY DEF ServerInv, PhasesHold, Activation
  <2>5. DOMAIN queue' = {}
    BY <2>2
  <2> QED
    BY <1>0, <2>1, <2>2, <2>3, <2>4, <2>5
<1>7. CASE Prewarmed \/ AcceptAgain \/ IgnoreStale \/ StopSignal \/ SessionEnds
  <2>1. /\ server' # "receive" \/ server' = server
        /\ UNCHANGED <<heard, handler, act, local, queue, current, served>>
    BY <1>7 DEF Prewarmed, AcceptAgain, IgnoreStale, StopSignal, SessionEnds, Finish, clientFrame,
      handlerVars, serverVars
  <2> QED
    BY <2>1
<1>8. CASE Accept
  <2>1. /\ queue # <<>> /\ queue \in Seq(Activation)
        /\ current' = Head(queue) /\ queue' = Tail(queue)
        /\ UNCHANGED <<heard, handler, act, local, served>>
    BY <1>8 DEF Accept, clientFrame, handlerVars, ServerInv, TypeOK
  <2>2. /\ current' = queue[1] /\ 1 \in DOMAIN queue
        /\ \A i \in DOMAIN queue' : i + 1 \in DOMAIN queue /\ i + 1 # 1 /\ queue'[i] = queue[i + 1]
        /\ \A i, j \in DOMAIN queue' : i # j => i + 1 # j + 1
    BY <2>1, QueueServed
  <2>3. QueueDistinct'
    BY <2>1, <2>2
  <2>4. UnservedWait'
    BY <2>1, <2>2
  <2>5. ConnectingIsNew'
    BY <2>1, <2>2
  <2> QED
    BY <2>1, <2>2, <2>3, <2>4, <2>5
<1>9. CASE OpenSession
  <2>1. /\ server = "receive" /\ server' = "session" /\ served' = served \cup {current.id}
        /\ UNCHANGED <<heard, handler, act, local, queue, current>>
    BY <1>9 DEF OpenSession, clientFrame, handlerVars
  <2> QED
    BY <2>1
<1>10. CASE Reply
  <2>1. /\ server' = "loop" /\ current' = NoActivation
        /\ (handler' = handler /\ act' = act) \/ handler' = "none"
        /\ UNCHANGED <<heard, local, queue, served>>
    BY <1>10 DEF Reply, HandlerExits
  <2>2. /\ NoActivation.id = 0 /\ 0 <= heard
        /\ \A i \in DOMAIN queue : queue[i].id # 0
        /\ handler = "connect" => act.id # 0
    <3>1. \A i \in DOMAIN queue : queue[i] \in Activation
      BY DEF ServerInv, TypeOK
    <3> QED
      BY <1>0, <3>1 DEF ServerInv, PhasesHold, Activation, NoActivation
  <2> QED
    BY <2>1, <2>2
<1>11. CASE Tick \/ UNCHANGED vars
  BY <1>11 DEF Tick, vars, handlerVars, serverVars
<1> QED
  BY <1>1, <1>2, <1>3, <1>4, <1>5, <1>6, <1>7, <1>8, <1>9, <1>10, <1>11 DEF Next, ServerStep

-----------------------------------------------------------------------------
(* Echoes. *)

LEMMA EchoKept ==
  ASSUME ServerInv, EchoInv, [Next]_vars
  PROVE  EchoInv'
<1> USE ServerAssumption DEF EchoInv, Echoed, EchoNeverServed
<1>0. /\ now \in Nat /\ now > 0 /\ finishedAt \in Nat /\ Cooldown \in Nat
      /\ queue \in Seq(Activation)
      /\ \A i \in DOMAIN queue : queue[i] \in Activation /\ queue[i].at \in Nat
      /\ current.at \in Nat /\ act.at \in Nat /\ NoActivation.during = FALSE
  <2>1. \A i \in DOMAIN queue : queue[i] \in Activation
    BY DEF ServerInv, TypeOK
  <2> QED
    BY <2>1 DEF ServerInv, TypeOK, Activation, NoActivation
<1>1. CASE Detect
  <2>1. /\ act'.at = now /\ (act'.during <=> server = "session")
        /\ UNCHANGED <<now, server, queue, current, finishedAt>>
    BY <1>1 DEF Detect, serverVars
  <2>2. Echoed(act)'
    <3>1. CASE server = "session"
      BY <1>0, <2>1, <3>1
    <3>2. CASE server # "session"
      BY <2>1, <3>2
    <3> QED
      BY <3>1, <3>2
  <2> QED
    BY <2>1, <2>2
<1>2. CASE Connect
  <2>1. /\ act \in Activation /\ queue' = Append(queue, act)
        /\ UNCHANGED <<now, server, act, current, finishedAt>> /\ server # "down"
    BY <1>2 DEF Connect, Listening, ServerInv, PhasesHold
  <2>2. \A i \in DOMAIN queue' : (i \in DOMAIN queue /\ queue'[i] = queue[i]) \/ queue'[i] = act
    BY <1>0, <2>1, QueueJoined
  <2> QED
    BY <2>1, <2>2
<1>3. CASE ServerDisabled \/ ConnectFails \/ ClientTimesOut \/ LocalSessionEnds
  <2>1. UNCHANGED <<now, server, queue, current, finishedAt>>
    BY <1>3 DEF ServerDisabled, ConnectFails, ClientTimesOut, LocalSessionEnds, serverVars
  <2>2. act' = act \/ act' = NoActivation
    BY <1>3, FailureOutcome, DisabledOutcome
      DEF ConnectFails, ClientTimesOut, LocalSessionEnds, HandlerExits
  <2> QED
    BY <1>0, <2>1, <2>2
<1>4. CASE ServerStarts
  <2>1. act'.during = FALSE
    BY <1>4, ActivationRenewed DEF ServerStarts, ServerInv, TypeOK
  <2>2. /\ server' = "prewarm" /\ queue' = <<>> /\ current' = NoActivation
    BY <1>4 DEF ServerStarts, ServerInv, PhasesHold, Accepted
  <2>3. DOMAIN queue' = {}
    BY <2>2
  <2> QED
    BY <1>0, <2>1, <2>2, <2>3
<1>5. CASE ServerStops \/ ServerCrashes
  <2>1. server' = "down"
    BY <1>5 DEF ServerStops, ServerCrashes
  <2> QED
    BY <2>1
<1>6. CASE Prewarmed \/ AcceptAgain \/ IgnoreStale \/ StopSignal
  <2>1. /\ server' # "session" \/ server' = server
        /\ server # "session" \/ server' = server
        /\ server # "down"
        /\ UNCHANGED <<now, act, queue, current, finishedAt>>
    BY <1>6 DEF Prewarmed, AcceptAgain, IgnoreStale, StopSignal, clientFrame, handlerVars, serverVars
  <2> QED
    BY <2>1
<1>7. CASE Accept
  <2>1. /\ queue # <<>> /\ current' = Head(queue) /\ queue' = Tail(queue)
        /\ server = "accept" /\ server' = "receive"
        /\ UNCHANGED <<now, act, finishedAt>>
    BY <1>7 DEF Accept, clientFrame, handlerVars
  <2>2. /\ current' = queue[1] /\ 1 \in DOMAIN queue
        /\ \A i \in DOMAIN queue' : i + 1 \in DOMAIN queue /\ queue'[i] = queue[i + 1]
    BY <1>0, <2>1, QueueServed
  <2> QED
    BY <2>1, <2>2
<1>8. CASE OpenSession
  <2>1. /\ server = "receive" /\ server' = "session" /\ ~Stale(current)
        /\ UNCHANGED <<now, act, queue, current, finishedAt>>
    BY <1>8 DEF OpenSession, clientFrame, handlerVars
  <2>2. ~current.during
    BY <1>0, <2>1 DEF Stale
  <2> QED
    BY <2>1, <2>2
<1>9. CASE SessionEnds
  <2>1. /\ server = "session" /\ server' = "reply" /\ finishedAt' = now
        /\ UNCHANGED <<now, act, queue, current>>
    BY <1>9 DEF SessionEnds, Finish, clientFrame, handlerVars
  <2> QED
    BY <1>0, <2>1
<1>10. CASE Reply
  <2>1. /\ server = "reply" /\ server' = "loop" /\ current' = NoActivation
        /\ act' = act \/ act' = NoActivation
        /\ UNCHANGED <<now, queue, finishedAt>>
    BY <1>10 DEF Reply, HandlerExits
  <2> QED
    BY <1>0, <2>1
<1>11. CASE Tick
  <2>1. now' = now + 1 /\ UNCHANGED <<server, act, queue, current, finishedAt>>
    BY <1>11 DEF Tick, handlerVars, serverVars
  <2> QED
    BY <1>0, <2>1
<1>12. CASE UNCHANGED vars
  BY <1>12 DEF vars, handlerVars, serverVars
<1> QED
  BY <1>1, <1>2, <1>3, <1>4, <1>5, <1>6, <1>7, <1>8, <1>9, <1>10, <1>11, <1>12 DEF Next, ServerStep

-----------------------------------------------------------------------------
(* The theorems. *)

LEMMA ServerInvHolds == Spec => [](ServerInv /\ OnceInv /\ EchoInv)
<1>1. (ServerInv /\ OnceInv /\ EchoInv) /\ [Next]_vars => (ServerInv /\ OnceInv /\ EchoInv)'
  BY TypesKept, OnceKept, EchoKept
<1> QED
  BY <1>1, InitServer, PTL DEF Spec

(* Every variable of handler and server keeps its type; the listen queue   *)
(* never holds more than Backlog + 1 connections.                          *)
THEOREM ServerTypeCorrect == Spec => []TypeOK
<1>1. ServerInv => TypeOK
  BY DEF ServerInv
<1> QED
  BY <1>1, ServerInvHolds, PTL

(* No activation is given both to the server's session and to one of the   *)
(* handler's own, whatever timeouts, crashes and restarts come between     *)
(* the handler's giving up and the server's accept.                        *)
THEOREM ActivationsHandledOnce == Spec => []HandledOnce
<1>1. OnceInv => HandledOnce
  BY DEF OnceInv
<1> QED
  BY <1>1, ServerInvHolds, PTL

(* A wake phrase heard during a session never opens a later session of     *)
(* the same server process, for every cooldown (also none).                *)
THEOREM EchoesIgnored == Spec => []EchoNeverServed
<1>1. EchoInv => EchoNeverServed
  BY DEF EchoInv
<1> QED
  BY <1>1, ServerInvHolds, PTL

=============================================================================
