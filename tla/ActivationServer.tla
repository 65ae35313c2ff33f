--------------------------- MODULE ActivationServer ---------------------------
(***************************************************************************)
(* The warm activation server and the short-lived handler the native       *)
(* listener runs for every detection.  The listener waits for its handler, *)
(* so there is one handler at a time.  The handler passes the activation   *)
(* over the Unix socket and waits for a reply with a timeout; when the     *)
(* server cannot be reached, or its configuration has none, it runs the    *)
(* voice session itself.                                                   *)
(*                                                                         *)
(* Time is a bounded clock that detected_at and last_session_finished_at   *)
(* are read from.  A session is one phase here; VoiceSession models it.    *)
(***************************************************************************)
EXTENDS Naturals, Sequences

CONSTANTS
  Backlog,         \* the argument of listen()
  Cooldown,        \* cooldown_seconds, in ticks
  MaxTime,         \* bound on the clock
  MaxActivations   \* bound on the detections

ASSUME ServerAssumption ==
  /\ Backlog \in Nat /\ Cooldown \in Nat
  /\ MaxTime \in Nat \ {0} /\ MaxActivations \in Nat \ {0}

VARIABLES
  now,        \* time.time()
  heard,      \* detections so far
  handler,    \* phase of the listener's handler process
  act,        \* the activation that handler carries
  cause,      \* what made the handler run a session itself
  server,     \* phase of the server process
  stop,       \* its STOP event
  ready,      \* the .ready marker file exists
  queue,      \* connections not accepted yet
  current,    \* the activation of the accepted connection
  finishedAt, \* last_session_finished_at, 0 before the first session
  served,     \* activations the server opened a session for
  local       \* activations a handler opened a session for

handlerVars == <<heard, handler, act, cause, local>>
serverVars  == <<server, ready, queue, current, finishedAt, served>>
vars == <<now, stop, handlerVars, serverVars>>

(* `during' says that the detection fell into a session of the server      *)
(* process that is running now.                                            *)
Activation == [id : 1..MaxActivations, at : 1..MaxTime, during : BOOLEAN]
NoActivation == [id |-> 0, at |-> 0, during |-> FALSE]

(* Types; the queue never holds more than listen() lets in. *)
TypeOK ==
  /\ now \in 1..MaxTime
  /\ heard \in 0..MaxActivations
  /\ handler \in {"none", "connect", "waiting", "local"}
  /\ act \in Activation \cup {NoActivation}
  /\ cause \in {"none", "disabled", "refused", "again", "reset"}
  /\ server \in {"down", "prewarm", "loop", "accept", "receive", "session", "reply"}
  /\ stop \in BOOLEAN
  /\ ready \in BOOLEAN
  /\ queue \in Seq(Activation) /\ Len(queue) <= Backlog + 1
  /\ current \in Activation \cup {NoActivation}
  /\ finishedAt \in 0..MaxTime
  /\ served \in SUBSET (1..MaxActivations)
  /\ local \in SUBSET (1..MaxActivations)

Init ==
  /\ now = 1
  /\ heard = 0 /\ handler = "none" /\ act = NoActivation /\ cause = "none"
  /\ server = "down" /\ stop = FALSE /\ ready = FALSE
  /\ queue = <<>> /\ current = NoActivation
  /\ finishedAt = 0
  /\ served = {} /\ local = {}

-----------------------------------------------------------------------------
(* The handler process. *)

Detect ==
  /\ handler = "none" /\ heard < MaxActivations
  /\ heard' = heard + 1
  /\ act' = [id |-> heard + 1, at |-> now, during |-> server = "session"]
  /\ handler' = "connect"
  /\ UNCHANGED <<now, stop, cause, local, serverVars>>

HandlerExits == handler' = "none" /\ act' = NoActivation /\ cause' = "none"

(* Faulty variant: a timeout falls back as well. *)
FallsBackAlways(exc) == TRUE

(* should_fallback_to_local_handler: anything but a timeout. *)
FallsBack(exc) == exc # "timeout"

RunsSession(why) ==
  /\ handler' = "local" /\ cause' = why
  /\ local' = local \cup {act.id}
  /\ UNCHANGED act

(* main's except clause. *)
AfterFailure(exc) ==
  IF FallsBack(exc) THEN RunsSession(exc) ELSE HandlerExits /\ UNCHANGED local

(* Every handler reads the configuration for itself; as shipped it has no  *)
(* server enabled.                                                         *)
ServerDisabled ==
  /\ handler = "connect"
  /\ RunsSession("disabled")
  /\ UNCHANGED <<now, stop, heard, serverVars>>

Listening == server # "down"

(* Faulty variant: one connection too many. *)
QueueFullLate == Len(queue) > Backlog + 1

(* The kernel keeps up to Backlog + 1 connections for a Unix socket. *)
QueueFull == Len(queue) > Backlog

Connect ==
  /\ handler = "connect" /\ Listening /\ ~QueueFull
  /\ handler' = "waiting"
  /\ queue' = Append(queue, act)
  /\ UNCHANGED <<now, stop, heard, act, cause, local,
                 server, ready, current, finishedAt, served>>

(* A socket with a timeout is non-blocking: connect fails with EAGAIN,     *)
(* BlockingIOError, when the queue is full.                                *)
ConnectFails ==
  /\ handler = "connect"
  /\ \/ ~Listening /\ AfterFailure("refused")
     \/ Listening /\ QueueFull /\ AfterFailure("again")
  /\ UNCHANGED <<now, stop, heard, serverVars>>

(* Faulty variant: the timeout covers the connection, not the reply. *)
ClientTimesOutUnaccepted ==
  /\ handler = "waiting" /\ act # current
  /\ AfterFailure("timeout")
  /\ UNCHANGED <<now, stop, heard, serverVars>>

(* No reply within native_activation_server_timeout_seconds. *)
ClientTimesOut ==
  /\ handler = "waiting"
  /\ AfterFailure("timeout")
  /\ UNCHANGED <<now, stop, heard, serverVars>>

LocalSessionEnds ==
  /\ handler = "local"
  /\ HandlerExits
  /\ UNCHANGED <<now, stop, heard, local, serverVars>>

-----------------------------------------------------------------------------
(* The server process. *)

clientFrame == <<now, handlerVars>>

ClearReady == ready' = FALSE

ServerStarts ==
  /\ server = "down"
  /\ server' = "prewarm" /\ stop' = FALSE /\ ClearReady
  /\ finishedAt' = 0
  /\ act' = [act EXCEPT !.during = FALSE]
  /\ UNCHANGED <<now, heard, handler, cause, local, queue, current, served>>

Prewarmed ==
  /\ server = "prewarm"
  /\ server' = "loop" /\ ready' = TRUE
  /\ UNCHANGED <<clientFrame, stop, queue, current, finishedAt, served>>

(* The listening socket is gone: a client still waiting in the queue, or   *)
(* accepted with its payload unread, gets ECONNRESET; one whose payload    *)
(* was read gets an empty response and exits.                              *)
DropConnections ==
  LET unread == {queue[i] : i \in DOMAIN queue} \cup
                (IF server = "receive" THEN {current} ELSE {})
  IN /\ queue' = <<>> /\ current' = NoActivation
     /\ IF handler # "waiting" THEN UNCHANGED <<handler, act, cause, local>>
        ELSE IF act \in unread THEN AfterFailure("reset")
        ELSE HandlerExits /\ UNCHANGED local

(* The finally of serve(). *)
ServerStops ==
  /\ server = "loop" /\ stop
  /\ server' = "down" /\ ClearReady
  /\ DropConnections
  /\ UNCHANGED <<now, heard, stop, finishedAt, served>>

(* Killed: the marker file stays behind. *)
ServerCrashes ==
  /\ server # "down"
  /\ server' = "down"
  /\ DropConnections
  /\ UNCHANGED <<now, heard, stop, ready, finishedAt, served>>

AcceptAgain ==
  /\ \/ server = "loop" /\ ~stop /\ server' = "accept"
     \/ server = "accept" /\ queue = <<>> /\ server' = "loop"
  /\ UNCHANGED <<clientFrame, stop, ready, queue, current, finishedAt, served>>

Accept ==
  /\ server = "accept" /\ queue # <<>>
  /\ server' = "receive"
  /\ current' = Head(queue) /\ queue' = Tail(queue)
  /\ UNCHANGED <<clientFrame, stop, ready, finishedAt, served>>

(* _is_stale_activation, on the server's own record of its last session. *)
Stale(a) == finishedAt > 0 /\ a.at <= finishedAt + Cooldown

IgnoreStale ==
  /\ server = "receive" /\ Stale(current)
  /\ server' = "reply"
  /\ UNCHANGED <<clientFrame, stop, ready, queue, current, finishedAt, served>>

(* A fresh activation clears STOP before its session starts. *)
OpenSession ==
  /\ server = "receive" /\ ~Stale(current)
  /\ server' = "session" /\ stop' = FALSE
  /\ served' = served \cup {current.id}
  /\ UNCHANGED <<clientFrame, ready, queue, current, finishedAt>>

(* Faulty variant: a session that raises leaves its end unrecorded. *)
FinishUnlessRaised(how) ==
  /\ server' = "reply"
  /\ finishedAt' = IF how = "raised" THEN finishedAt ELSE now

(* The finally around handle_activation. *)
Finish(how) ==
  /\ server' = "reply"
  /\ finishedAt' = now

(* Faulty variant: STOP is cleared after the session, not before it. *)
SessionEndsClearing ==
  /\ server = "session"
  /\ \E how \in {"completed", "cancelled", "raised"} : Finish(how)
  /\ stop' = FALSE
  /\ UNCHANGED <<clientFrame, ready, queue, current, served>>

SessionEnds ==
  /\ server = "session"
  /\ \E how \in {"completed", "cancelled", "raised"} : Finish(how)
  /\ UNCHANGED <<clientFrame, stop, ready, queue, current, served>>

Reply ==
  /\ server = "reply"
  /\ server' = "loop" /\ current' = NoActivation
  /\ IF handler = "waiting" /\ act = current
       THEN HandlerExits /\ UNCHANGED local
       ELSE UNCHANGED <<handler, act, cause, local>>
  /\ UNCHANGED <<now, heard, stop, ready, queue, finishedAt, served>>

(* SIGTERM or SIGINT. *)
StopSignal ==
  /\ server # "down" /\ ~stop
  /\ stop' = TRUE
  /\ UNCHANGED <<clientFrame, serverVars>>

Tick ==
  /\ now < MaxTime
  /\ now' = now + 1
  /\ UNCHANGED <<stop, handlerVars, serverVars>>

ServerStep ==
  \/ Prewarmed \/ ServerStops \/ AcceptAgain \/ Accept
  \/ IgnoreStale \/ OpenSession \/ Reply

Next ==
  \/ Detect \/ ServerDisabled \/ Connect \/ ConnectFails \/ ClientTimesOut
  \/ LocalSessionEnds
  \/ ServerStarts \/ ServerStep \/ SessionEnds \/ ServerCrashes
  \/ StopSignal \/ Tick

(* The handler's socket calls return or time out; the server's own steps   *)
(* run on; a session with STOP set comes to its end.  Without STOP it may  *)
(* wait for the user for ever, as may the session of a handler.            *)
Fairness ==
  /\ WF_vars(ServerDisabled \/ Connect \/ ConnectFails) /\ WF_vars(ClientTimesOut)
  /\ WF_vars(ServerStep)
  /\ WF_vars(stop /\ SessionEnds)

Spec == Init /\ [][Next]_vars /\ Fairness

-----------------------------------------------------------------------------
(* Properties. *)

(* An activation opens one session: the timeout that lets a handler give   *)
(* up does not take its connection back, so what the server does later     *)
(* with it and what the handler does next must exclude each other.         *)
HandledOnce == served \cap local = {}

(* An activation detected while a server session was running (the          *)
(* assistant's own voice, or the user repeating the phrase) never opens a  *)
(* later session of that server process, however long it was queued and    *)
(* however the session it fell into ended.                                 *)
EchoNeverServed == server = "session" => ~current.during

(* A stop signal that finds the server in a session or on its way back to  *)
(* the loop takes the server down.                                         *)
StopDuringSessionObeyed == (stop /\ server \in {"session", "reply"}) ~> (server = "down")

(* The listener is never held for good by a handler that waits for the     *)
(* server.  One that runs the session itself holds it as long as that      *)
(* session lasts, and nothing is promised of that.                         *)
ListenerReleased == (handler \in {"connect", "waiting"}) ~> (handler \in {"none", "local"})

(* native_activation_handler.py:62-65: falling back while the warm server  *)
(* is busy "creates a second popup/window for the same wakephrase.  Only   *)
(* fall back when the server is unreachable, not merely busy."             *)
OnlyUnreachableFallsBack == (server = "session" /\ handler = "local") => cause # "again"

=============================================================================
