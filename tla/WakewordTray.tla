----------------------------- MODULE WakewordTray -----------------------------
(***************************************************************************)
(* The system tray between the user, the two service units, their files    *)
(* and the sound server.  It asks systemd by asynchronous calls, answered  *)
(* in their order; it learns of changes by signals, which systemd sends    *)
(* only to subscribers, and by watching files; and what it shows is        *)
(* computed from what it has cached and what it reads at that moment.      *)
(*                                                                         *)
(* The listener's unit and file are those of module CaptureStatus.         *)
(***************************************************************************)
EXTENDS Integers, Sequences, SequencesExt

CONSTANTS
  Found,   \* what the constructor finds: a set of records of the units' state
  Kept,    \* the units systemd keeps loaded while they are inactive
  MaxEvents,  \* changes nobody ordered, clicks and failed calls, together
  MaxQueue  \* calls, replies and signals under way when one more thing happens

ASSUME TrayAssumption ==
  /\ Found \subseteq [listener : {"down", "up"}, handler : BOOLEAN, marker : BOOLEAN,
                     file : {"absent", "starting", "healthy", "unhealthy"}, mic : BOOLEAN]
  /\ Kept \subseteq {"wakeword", "handler"}
  /\ MaxEvents \in Nat /\ MaxQueue \in Nat

VARIABLES
  listener, file, heard,   \* the wakeword unit (CaptureStatus)
  handler,                 \* the handler unit is active
  marker,                  \* the handler's ready marker exists
  mic,                     \* there is a real default source
  jobs,                    \* unit -> "none", "StartUnit" or "StopUnit"
  subscribed,              \* systemd sends its signals
  requests,                \* calls on their way to systemd
  inbox,                   \* replies and signals on their way to the tray
  news,                    \* watched things that changed
  alive,                   \* the tray has not been exited
  connected,               \* the signals are connected to the slots
  retry,                   \* systemdRetryTimer is active
  firstRefresh,            \* the 150 ms single shot is to come
  cached,                  \* unit -> wakewordActive, handlerActive
  inFlight,                \* systemdCommandInFlight
  spinning,                \* switchingTimer is active
  icon, onEnabled, offEnabled,
  events,                  \* bounded by MaxEvents
  asked,                   \* history: the last command, until something undoes it
  misled                   \* history: nothing will tell the tray what a unit is

unitVars   == <<listener, file, heard, handler, marker, mic, jobs>>
systemVars == <<subscribed, requests, inbox>>
cacheVars  == <<alive, connected, retry, firstRefresh, cached, inFlight>>
shownVars  == <<spinning, icon, onEnabled, offEnabled>>
pastVars   == <<asked, misled>>
vars == <<unitVars, systemVars, news, cacheVars, shownVars, events, pastVars>>

Units    == {"wakeword", "handler"}
Commands == {"StartUnit", "StopUnit"}
Icons    == {"yellow", "gray", "green", "red"}

Listener == INSTANCE CaptureStatus WITH unit <- listener

(* A service of type simple is active as soon as its process is there. *)
Active(u) == IF u = "wakeword" THEN listener # "down" ELSE handler

(* Types, and the spinner runs under the yellow icon and no other. *)
TypeOK ==
  /\ listener \in {"down", "loading", "up"} /\ file \in Listener!Statuses
  /\ heard \in BOOLEAN /\ handler \in BOOLEAN /\ marker \in BOOLEAN /\ mic \in BOOLEAN
  /\ jobs \in [Units -> Commands \cup {"none"}]
  /\ subscribed \in BOOLEAN
  /\ news \subseteq {"ready", "capture", "audio"}
  /\ alive \in BOOLEAN /\ connected \in BOOLEAN /\ retry \in BOOLEAN
  /\ firstRefresh \in BOOLEAN /\ cached \in [Units -> BOOLEAN] /\ inFlight \in BOOLEAN
  /\ spinning \in BOOLEAN /\ icon \in Icons
  /\ onEnabled \in BOOLEAN /\ offEnabled \in BOOLEAN
  /\ (icon = "yellow") = spinning
  /\ events \in 0..MaxEvents
  /\ asked \in Commands \cup {"none"} /\ misled \in BOOLEAN

-----------------------------------------------------------------------------
(* What the tray shows. *)

Ask(call, u) == [call |-> call, unit |-> u]
UnitStates == <<Ask("GetUnit", "wakeword"), Ask("GetUnit", "handler")>>
Order == [StartUnit |-> <<"handler", "wakeword">>, StopUnit |-> <<"wakeword", "handler">>]

CaptureHealth == IF file \in {"healthy", "unhealthy"} THEN file ELSE "unknown"
HandlerIsReady(active) == active["handler"] /\ marker

DaemonState(active) ==
  IF ~mic \/ (active["wakeword"] /\ CaptureHealth = "unhealthy") THEN "NoMicrophone"
  ELSE IF active["wakeword"] /\ CaptureHealth = "unknown" THEN "Starting"
  ELSE IF active["wakeword"] /\ HandlerIsReady(active) THEN "On"
  ELSE IF active["wakeword"] \/ active["handler"] THEN "Starting"
  ELSE "Off"

(* Faulty variant: the spinner goes on under the gray icon. *)
ShowSpinning(state, active) ==
  /\ icon' = CASE state = "NoMicrophone" -> "gray" [] state = "Starting" -> "yellow"
               [] state = "On" -> "green" [] state = "Off" -> "red"
  /\ spinning' = (state \in {"Starting", "NoMicrophone"})
  /\ onEnabled' = (state = "Off")
  /\ offEnabled' = \/ state = "On"
                   \/ state = "NoMicrophone" /\ \E u \in Units : active[u]

Show(state, active) ==
  /\ icon' = CASE state = "NoMicrophone" -> "gray" [] state = "Starting" -> "yellow"
               [] state = "On" -> "green" [] state = "Off" -> "red"
  /\ spinning' = (state = "Starting")
  /\ onEnabled' = (state = "Off")
  /\ offEnabled' = \/ state = "On"
                   \/ state = "NoMicrophone" /\ \E u \in Units : active[u]

(* Faulty variant: a command in flight does not hold the display. *)
RefreshInFlight(active) == Show(DaemonState(active), active)

RefreshState(active) ==
  IF inFlight THEN UNCHANGED shownVars ELSE Show(DaemonState(active), active)

SetSwitchingState ==
  icon' = "yellow" /\ spinning' = TRUE /\ onEnabled' = FALSE /\ offEnabled' = FALSE

-----------------------------------------------------------------------------
(* The constructor, and what it finds. *)
Init ==
  /\ \E found \in Found :
       /\ listener = found.listener /\ file = found.file
       /\ handler = found.handler /\ marker = found.marker /\ mic = found.mic
  /\ heard = (listener = "up")
  /\ jobs = [u \in Units |-> "none"]
  /\ subscribed = FALSE
  /\ requests = <<Ask("Subscribe", "none")>> \o UnitStates
  /\ inbox = <<>> /\ news = {}
  /\ connected \in {TRUE, MaxEvents = 0} /\ retry = ~connected
  /\ alive = TRUE /\ firstRefresh = TRUE /\ inFlight = FALSE
  /\ cached = [u \in Units |-> FALSE]
  /\ icon = "yellow" /\ spinning = TRUE /\ onEnabled = FALSE /\ offEnabled = FALSE
  /\ events = IF connected THEN 0 ELSE 1
  /\ asked = "none" /\ misled = FALSE

-----------------------------------------------------------------------------
(* The units, their files and the sound source. *)

(* The state of u will be asked for: the question or its first answer is   *)
(* under way, or a signal or a command at whose end it is asked.           *)
WillAsk(u) ==
  \/ inFlight
  \/ \E i \in DOMAIN requests : requests[i].unit = u /\ requests[i].call \in {"GetUnit", "Get"}
  \/ \E i \in DOMAIN inbox :
       \/ inbox[i].call = "signal"
       \/ inbox[i].unit = u /\ inbox[i].call = "GetUnit" /\ inbox[i].ok

Signal == [call |-> "signal", unit |-> "none", ok |-> TRUE, active |-> FALSE]

(* Unit u became active or inactive, or its job is done.  The four signals *)
(* the tray connects all lead to the same slot.                            *)
UnitChanged(u) ==
  IF subscribed /\ connected
  THEN inbox' = Append(inbox, Signal) /\ misled' = FALSE
  ELSE /\ UNCHANGED inbox
       /\ misled' = (misled \/ (Active(u)' # Active(u) /\ ~WillAsk(u)))

News(isNew, what) == IF isNew /\ alive THEN news \cup {what} ELSE news

Calm == Len(requests) + Len(inbox) <= MaxQueue

Event == events < MaxEvents /\ events' = events + 1
Unasked == Calm /\ Event

(* Not by the tray: Restart=always, another tool, a crash, a session's end. *)
ListenerComesOrGoes ==
  /\ Unasked
  /\ Listener!Launch \/ Listener!Retire \/ Listener!Die
  /\ UnitChanged("wakeword")
  /\ news' = News(file' # file, "capture")
  /\ asked' = "none"
  /\ UNCHANGED <<handler, marker, mic, jobs, subscribed, requests, cacheVars,
                 shownVars>>

ListenerReports ==
  /\ Unasked
  /\ Listener!Announce \/ Listener!Report
  /\ news' = News(file' # file, "capture")
  /\ UNCHANGED <<handler, marker, mic, jobs, systemVars, cacheVars, shownVars, pastVars>>

ListenerHears ==
  /\ Listener!Hear
  /\ UNCHANGED <<handler, marker, mic, jobs, systemVars, news, cacheVars, shownVars,
                 events, pastVars>>

(* A killed handler leaves its marker; one that exits removes it. *)
HandlerComesOrGoes ==
  /\ Unasked
  /\ handler' = ~handler /\ marker' \in IF handler THEN {FALSE, marker} ELSE {marker}
  /\ UnitChanged("handler")
  /\ news' = News(marker' # marker, "ready")
  /\ asked' = "none"
  /\ UNCHANGED <<listener, file, heard, mic, jobs, subscribed, requests, cacheVars,
                 shownVars>>

(* A handler removes a marker it finds and makes it when it is warm. *)
HandlerMarks ==
  /\ Unasked
  /\ handler /\ marker' = ~marker
  /\ news' = News(TRUE, "ready")
  /\ UNCHANGED <<listener, file, heard, handler, mic, jobs, systemVars, cacheVars,
                 shownVars, pastVars>>

MicrophoneChanges ==
  /\ Unasked
  /\ mic' = ~mic /\ news' = News(TRUE, "audio")
  /\ UNCHANGED <<listener, file, heard, handler, marker, jobs, systemVars, cacheVars,
                 shownVars, pastVars>>

(* systemd runs a job after it has answered the call that made it. *)
RunJob(u) ==
  /\ jobs[u] # "none" /\ Calm
  /\ jobs' = [jobs EXCEPT ![u] = "none"]
  /\ LET done == Active(u) = (jobs[u] = "StartUnit")
     IN  \/ done /\ UNCHANGED <<listener, file, heard, handler, marker>>
         \/ /\ ~done /\ u = "wakeword"
            /\ IF jobs[u] = "StartUnit" THEN Listener!Launch
               ELSE Listener!Retire \/ Listener!Die
            /\ UNCHANGED <<handler, marker>>
         \/ /\ ~done /\ u = "handler"
            /\ handler' = ~handler
            /\ marker' \in IF handler THEN {FALSE, marker} ELSE {marker}
            /\ UNCHANGED <<listener, file, heard>>
  /\ UnitChanged(u)
  /\ news' = News(file' # file, "capture") \cup News(marker' # marker, "ready")
  /\ UNCHANGED <<mic, subscribed, requests, cacheVars, shownVars, events, asked>>

-----------------------------------------------------------------------------
(* systemd answers the calls. *)

Answer(ok, active) ==
  LET r == Head(requests)
  IN  /\ requests' = Tail(requests)
      /\ inbox' = IF alive
                  THEN Append(inbox, [call |-> r.call, unit |-> r.unit, ok |-> ok, active |-> active])
                  ELSE inbox

Serving(calls) == requests # <<>> /\ Head(requests).call \in calls

Loaded == {u \in Units : u \in Kept \/ Active(u)}

(* A unit that is not loaded is answered with an error, and so is a call   *)
(* that fails on its way: the tray takes the unit for inactive and does    *)
(* not ask again by itself, so if the unit is active the tray is misled.   *)
ServeQuery ==
  /\ Serving({"GetUnit", "Get"})
  /\ UNCHANGED <<unitVars, subscribed, news, cacheVars, shownVars, asked>>
  /\ \E u \in Units :
       /\ u = Head(requests).unit
       /\ \/ u \in Loaded /\ Answer(TRUE, Active(u)) /\ UNCHANGED <<events, misled>>
          \/ u \notin Loaded /\ Answer(FALSE, FALSE) /\ UNCHANGED <<events, misled>>
          \/ /\ Active(u) /\ Event /\ Answer(FALSE, FALSE)
             /\ misled' = (misled \/ ~WillAsk(u)')

ServeSubscribe ==
  /\ Serving({"Subscribe"})
  /\ \/ subscribed' = alive /\ Answer(TRUE, FALSE) /\ UNCHANGED events
     \/ Event /\ Answer(FALSE, FALSE) /\ UNCHANGED subscribed
  /\ UNCHANGED <<unitVars, news, cacheVars, shownVars, pastVars>>

(* The mode is "replace". *)
ServeCommand ==
  /\ Serving(Commands)
  /\ \/ /\ Answer(TRUE, FALSE)
        /\ jobs' = [jobs EXCEPT ![Head(requests).unit] = Head(requests).call]
        /\ UNCHANGED <<events, asked>>
     \/ Event /\ Answer(FALSE, FALSE) /\ asked' = "none" /\ UNCHANGED jobs
  /\ UNCHANGED <<listener, file, heard, handler, marker, mic, subscribed, news,
                 cacheVars, shownVars, misled>>

-----------------------------------------------------------------------------
(* The tray's slots and the callbacks of its calls. *)

Receiving(calls) == alive /\ inbox # <<>> /\ Head(inbox).call \in calls /\ inbox' = Tail(inbox)
Send(calls) == requests' = requests \o calls

SystemdStateChanged ==
  /\ Receiving({"signal"})
  /\ Send(UnitStates)
  /\ UNCHANGED <<unitVars, subscribed, news, cacheVars, shownVars, events, pastVars>>

SubscribeReplied ==
  /\ Receiving({"Subscribe"})
  /\ retry' = (retry \/ ~Head(inbox).ok)
  /\ UNCHANGED <<unitVars, subscribed, requests, news, alive, connected, firstRefresh,
                 cached, inFlight, shownVars, events, pastVars>>

UnitReplied ==
  /\ Receiving({"GetUnit"})
  /\ LET u == Head(inbox).unit
     IN  \/ Head(inbox).ok /\ Send(<<Ask("Get", u)>>) /\ UNCHANGED <<cached, shownVars>>
         \/ /\ ~Head(inbox).ok /\ UNCHANGED requests
            /\ cached' = [cached EXCEPT ![u] = FALSE] /\ RefreshState(cached')
  /\ UNCHANGED <<unitVars, subscribed, news, alive, connected, retry, firstRefresh,
                 inFlight, events, pastVars>>

ActiveStateReplied ==
  /\ Receiving({"Get"})
  /\ cached' = [cached EXCEPT ![Head(inbox).unit] = Head(inbox).ok /\ Head(inbox).active]
  /\ RefreshState(cached')
  /\ UNCHANGED <<unitVars, subscribed, requests, news, alive, connected, retry,
                 firstRefresh, inFlight, events, pastVars>>

(* The units a command still has to go through once u is done. *)
After(call, u) == SelectInSeq(Order[call], LAMBDA v : v = u)

(* Faulty variant: the command is over with its last reply, and nothing    *)
(* is asked: the signals will tell.                                        *)
CommandRepliedQuietly ==
  /\ Receiving(Commands)
  /\ LET r == Head(inbox)
         at == After(r.call, r.unit)
     IN  IF r.ok /\ at < Len(Order[r.call])
         THEN Send(<<Ask(r.call, Order[r.call][at + 1])>>) /\ UNCHANGED inFlight
         ELSE inFlight' = FALSE /\ UNCHANGED requests
  /\ UNCHANGED <<unitVars, subscribed, news, alive, connected, retry, firstRefresh,
                 cached, shownVars, events, pastVars>>

(* Faulty variant: off by one, the last unit is never reached. *)
CommandRepliedShort ==
  /\ Receiving(Commands)
  /\ LET r == Head(inbox)
         at == After(r.call, r.unit)
     IN  IF r.ok /\ at + 1 < Len(Order[r.call])
         THEN Send(<<Ask(r.call, Order[r.call][at + 1])>>) /\ UNCHANGED inFlight
         ELSE inFlight' = FALSE /\ Send(UnitStates)
  /\ UNCHANGED <<unitVars, subscribed, news, alive, connected, retry, firstRefresh,
                 cached, shownVars, events, pastVars>>

CommandReplied ==
  /\ Receiving(Commands)
  /\ LET r == Head(inbox)
         at == After(r.call, r.unit)
     IN  IF r.ok /\ at < Len(Order[r.call])
         THEN Send(<<Ask(r.call, Order[r.call][at + 1])>>) /\ UNCHANGED <<inFlight, misled>>
         ELSE inFlight' = FALSE /\ Send(UnitStates) /\ misled' = FALSE
  /\ UNCHANGED <<unitVars, subscribed, news, alive, connected, retry, firstRefresh,
                 cached, shownVars, events, asked>>

(* The directories and the source are watched on; the cache is as it was. *)
WatchedChanged(what) ==
  /\ alive /\ what \in news
  /\ news' = news \ {what}
  /\ RefreshState(cached)
  /\ UNCHANGED <<unitVars, systemVars, cacheVars, events, pastVars>>

FirstRefresh ==
  /\ alive /\ firstRefresh
  /\ firstRefresh' = FALSE
  /\ RefreshState(cached)
  /\ UNCHANGED <<unitVars, systemVars, news, alive, connected, retry, cached, inFlight,
                 events, pastVars>>

(* setupSystemdWatchers again: it does not ask for the units' states. *)
RetryFires ==
  /\ alive /\ retry
  /\ Send(<<Ask("Subscribe", "none")>>)
  /\ \/ connected' = TRUE /\ UNCHANGED events
     \/ ~connected /\ Event /\ UNCHANGED connected
  /\ retry' = ~connected'
  /\ UNCHANGED <<unitVars, subscribed, inbox, news, alive, firstRefresh, cached,
                 inFlight, shownVars, pastVars>>

AdvanceSpinner ==
  /\ alive /\ spinning
  /\ icon' = "yellow"
  /\ UNCHANGED <<unitVars, systemVars, news, cacheVars, spinning, onEnabled,
                 offEnabled, events, pastVars>>

-----------------------------------------------------------------------------
(* The menu. *)

Clicks == Calm /\ alive /\ Event

RunSystemdCommands(call) ==
  /\ SetSwitchingState
  /\ \/ inFlight /\ UNCHANGED <<inFlight, requests, asked>>
     \/ ~inFlight /\ inFlight' = TRUE /\ asked' = call
        /\ Send(<<Ask(call, Order[call][1])>>)

StartDaemon ==
  /\ Clicks /\ onEnabled
  /\ \/ ~mic /\ RefreshState(cached) /\ UNCHANGED <<inFlight, requests, asked>>
     \/ mic /\ RunSystemdCommands("StartUnit")
  /\ UNCHANGED <<unitVars, subscribed, inbox, news, alive, connected, retry,
                 firstRefresh, cached, misled>>

StopDaemon ==
  /\ Clicks /\ offEnabled
  /\ RunSystemdCommands("StopUnit")
  /\ UNCHANGED <<unitVars, subscribed, inbox, news, alive, connected, retry,
                 firstRefresh, cached, misled>>

(* The calls already sent are served; the rest of a command is not sent,   *)
(* and nobody is left to read the answers.                                 *)
Exit ==
  /\ Clicks
  /\ alive' = FALSE /\ subscribed' = FALSE
  /\ inbox' = <<>> /\ news' = {}
  /\ connected' = FALSE /\ retry' = FALSE /\ firstRefresh' = FALSE /\ inFlight' = FALSE
  /\ cached' = [u \in Units |-> FALSE]
  /\ icon' = "gray" /\ spinning' = FALSE /\ onEnabled' = FALSE /\ offEnabled' = FALSE
  /\ asked' = IF inFlight THEN "none" ELSE asked
  /\ misled' = TRUE
  /\ UNCHANGED <<unitVars, requests>>

-----------------------------------------------------------------------------
SystemStep ==
  ServeQuery \/ ServeSubscribe \/ ServeCommand \/ \E u \in Units : RunJob(u)

TrayStep ==
  \/ SystemdStateChanged \/ SubscribeReplied \/ UnitReplied \/ ActiveStateReplied
  \/ CommandReplied \/ FirstRefresh \/ RetryFires
  \/ \E what \in {"ready", "capture", "audio"} : WatchedChanged(what)

Next ==
  \/ ListenerComesOrGoes \/ ListenerReports \/ ListenerHears
  \/ HandlerComesOrGoes \/ HandlerMarks \/ MicrophoneChanges
  \/ SystemStep \/ TrayStep \/ AdvanceSpinner
  \/ StartDaemon \/ StopDaemon \/ Exit

(* systemd answers and runs its jobs, and the tray's event loop goes on.   *)
(* Nothing is asked of the user, of the units or of the spinner.           *)
Fairness == WF_vars(SystemStep) /\ WF_vars(TrayStep)

Spec == Init /\ [][Next]_vars /\ Fairness

-----------------------------------------------------------------------------
(* Properties. *)

(* The colour a user who sees everything would expect. *)
TrueIcon ==
  CASE ~mic \/ (listener # "down" /\ file = "unhealthy") -> "gray"
    [] mic /\ listener # "down" /\ file = "healthy" /\ handler /\ marker -> "green"
    [] mic /\ listener = "down" /\ ~handler -> "red"
    [] OTHER -> "yellow"

(* Once things stay as they are, the tray comes to show them, whatever it  *)
(* was doing: a command that failed half way, answers that were overtaken  *)
(* by signals, a first refresh before any answer.  It may stay wrong in    *)
(* two cases, until a signal or the end of a command makes it ask again:   *)
(* the last change of a unit came while systemd's signals did not reach    *)
(* the tray; or the last question about a unit that is active failed,      *)
(* which the tray takes for inactive and does not repeat.                  *)
TrayAgrees == <>[](misled \/ icon = TrueIcon)

(* Turn ON leaves both units running and Turn OFF neither, whatever jobs   *)
(* of earlier commands were pending, unless systemd refused, the tray was  *)
(* exited half way, or somebody else started or stopped a unit since.      *)
AskedIsDone ==
  <>[](asked # "none" => \A u \in Units : Active(u) = (asked = "StartUnit"))

CommandsIn(msgs) == {i \in DOMAIN msgs : msgs[i].call \in Commands}

(* Commands do not overlap: while one is in flight, exactly one of its     *)
(* calls is under way, and no other can be given from the menu.            *)
OneCommandAtATime ==
  alive =>
    /\ inFlight => icon = "yellow" /\ ~onEnabled /\ ~offEnabled
    /\ IF inFlight THEN \E i \in DOMAIN (requests \o inbox) : CommandsIn(requests \o inbox) = {i}
                   ELSE CommandsIn(requests \o inbox) = {}

=============================================================================
