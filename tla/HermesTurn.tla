------------------------------ MODULE HermesTurn ------------------------------
(***************************************************************************)
(* One request to the Hermes agent: ask_hermes_turn, run by the session    *)
(* thread and by the worker of a heavy delegation, at the same time.  In   *)
(* warm mode a turn runs on an agent that is cached for the process, in a  *)
(* thread that can be abandoned; in subprocess mode, and when the warm     *)
(* turn raises, it runs `hermes chat' in a process group of its own.       *)
(*                                                                         *)
(* The agent and its processes are external: they may finish, fail or hang *)
(* as they like.  Poll intervals, grace periods and the deadline are       *)
(* choices of when to act.  Both callers pass a cancel_check, so the paths *)
(* of a turn without one do not occur.  STOP is a cancel of both callers,  *)
(* and may be set before a turn starts.                                    *)
(***************************************************************************)
EXTENDS Naturals, FiniteSets

CONSTANT MaxTurns   \* bound on the turns asked

ASSUME TurnsAssumption == MaxTurns \in Nat \ {0}

Callers == {"session", "delegation"}
Turns == 1..MaxTurns
Agents == 1..(MaxTurns + 1)

VARIABLES
  config,      \* the settings that matter here
  asked,       \* turns asked so far
  cancel,      \* what _execution_cancel_requested returns to each caller
  pc,          \* where each caller is in ask_hermes_turn
  turn,        \* the turn each caller is in, 0 outside
  asker,       \* the caller that asked each turn
  history,     \* the turns in each caller's conversation history
  result,      \* what ask_hermes_turn returned, or has decided to return
  cache,       \* _HERMES_AGENT_CACHE: the agent under each key, 0 for none
  built,       \* agents built so far
  agent,       \* the agent a turn got, 0 for none
  talk,        \* the run_conversation of a turn
  interrupted, \* agents that were told to interrupt
  leader,      \* the `hermes chat' process of a turn
  child        \* whether a tool process of it is alive

callerVars == <<cancel, pc, turn, asker, history, result>>
agentVars  == <<cache, built, agent, talk, interrupted>>
groupVars  == <<leader, child>>
vars == <<config, asked, callerVars, agentVars, groupVars>>

Keys == Callers
Config == [warm : BOOLEAN, shared : BOOLEAN]
Alive == {"running", "blocked", "signalled"}

(* Types of the callers', the agents' and the processes' state. *)
TypeOK ==
  /\ config \in Config
  /\ asked \in 0..MaxTurns
  /\ cancel \in [Callers -> BOOLEAN]
  /\ pc \in [Callers -> {"idle", "lookup", "build", "evict", "keep", "start",
                         "wait", "grace", "spawn", "poll",
                         "terminate", "termwait"}]
  /\ turn \in [Callers -> 0..MaxTurns]
  /\ asker \in [Turns -> Callers \cup {"none"}]
  /\ history \in [Callers -> SUBSET Turns]
  /\ result \in [Turns -> {"none", "answer", "nothing", "cut", "garbled",
                           "apology", "cancelled"}]
  /\ cache \in [Keys -> Agents \cup {0}]
  /\ built \in 0..(MaxTurns + 1)
  /\ agent \in [Turns -> 0..built]
  /\ talk \in [Turns -> {"none", "running", "answered", "failed", "interrupted"}]
  /\ interrupted \subseteq 1..built
  /\ leader \in [Turns -> {"none", "ok", "failed", "gone"} \cup Alive]
  /\ child \in [Turns -> BOOLEAN]

(* The overrides of _heavy_agent_cfg, if any, give the delegation a key of *)
(* its own.                                                                *)
Key(c) == IF config.shared THEN "session" ELSE c

Init ==
  /\ config \in Config /\ (config.shared => config.warm)
  /\ asked = 0
  /\ cancel = [c \in Callers |-> FALSE]
  /\ pc = [c \in Callers |-> "idle"]
  /\ turn = [c \in Callers |-> 0]
  /\ asker = [t \in Turns |-> "none"]
  /\ history = [c \in Callers |-> {}]
  /\ result = [t \in Turns |-> "none"]
  /\ built \in (IF config.warm THEN {0, 1} ELSE {0})   \* prewarm_hermes
  /\ cache = [k \in Keys |-> IF k = "session" THEN built ELSE 0]
  /\ agent = [t \in Turns |-> 0]
  /\ talk = [t \in Turns |-> "none"]
  /\ interrupted = {}
  /\ leader = [t \in Turns |-> "none"]
  /\ child = [t \in Turns |-> FALSE]

At(c, phase) == pc[c] = phase
GoTo(c, phase) == pc' = [pc EXCEPT ![c] = phase]

Return(c, r) ==
  /\ GoTo(c, "idle")
  /\ turn' = [turn EXCEPT ![c] = 0]
  /\ result' = [result EXCEPT ![turn[c]] = r]

Remember(c) == history' = [history EXCEPT ![c] = @ \cup {turn[c]}]

(* Faulty variant: the cached agent stays. *)
KeepCache == UNCHANGED cache

(* _HERMES_AGENT_CACHE.clear() *)
ClearCache == cache' = [k \in Keys |-> 0]

(* ask_hermes_turn's except clause. *)
Raised(c) ==
  IF cancel[c]
    THEN Return(c, "cancelled")
    ELSE GoTo(c, "spawn") /\ UNCHANGED <<turn, result>>

-----------------------------------------------------------------------------
(* Asking, and the agent cache. *)

Ask(c) ==
  /\ At(c, "idle") /\ asked < MaxTurns
  /\ asked' = asked + 1
  /\ turn' = [turn EXCEPT ![c] = asked + 1]
  /\ asker' = [asker EXCEPT ![asked + 1] = c]
  /\ \E already \in BOOLEAN : cancel' = [cancel EXCEPT ![c] = already]
  /\ GoTo(c, IF config.warm THEN "lookup" ELSE "spawn")
  /\ UNCHANGED <<config, history, result, agentVars, groupVars>>

Lookup(c) ==
  /\ At(c, "lookup")
  /\ IF cache[Key(c)] # 0
       THEN agent' = [agent EXCEPT ![turn[c]] = cache[Key(c)]] /\ GoTo(c, "start")
       ELSE UNCHANGED agent /\ GoTo(c, "build")
  /\ UNCHANGED <<config, asked, cancel, turn, asker, history, result,
                 cache, built, talk, interrupted, groupVars>>

(* Faulty variant: goes on without an agent when none can be built. *)
BuildIgnoringErrors(c) ==
  /\ At(c, "build")
  /\ GoTo(c, "start")
  /\ UNCHANGED <<config, asked, cancel, turn, asker, history, result, agentVars, groupVars>>

(* Another caller may look up, build or clear while this one builds. *)
Build(c) ==
  /\ At(c, "build")
  /\ \/ /\ built' = built + 1
        /\ agent' = [agent EXCEPT ![turn[c]] = built + 1]
        /\ GoTo(c, "evict")
        /\ UNCHANGED <<turn, result>>
     \/ Raised(c) /\ UNCHANGED <<built, agent>>
  /\ UNCHANGED <<config, asked, cancel, asker, history, cache, talk, interrupted, groupVars>>

Evict(c) ==
  /\ At(c, "evict")
  /\ ClearCache
  /\ GoTo(c, "keep")
  /\ UNCHANGED <<config, asked, cancel, turn, asker, history, result,
                 built, agent, talk, interrupted, groupVars>>

Keep(c) ==
  /\ At(c, "keep")
  /\ cache' = [cache EXCEPT ![Key(c)] = agent[turn[c]]]
  /\ GoTo(c, "start")
  /\ UNCHANGED <<config, asked, cancel, turn, asker, history, result,
                 built, agent, talk, interrupted, groupVars>>

-----------------------------------------------------------------------------
(* _run_warm_hermes_agent_turn *)

StartTalk(c) ==
  /\ At(c, "start")
  /\ talk' = [talk EXCEPT ![turn[c]] = "running"]
  /\ GoTo(c, "wait")
  /\ UNCHANGED <<config, asked, cancel, turn, asker, history, result,
                 cache, built, agent, interrupted, groupVars>>

(* Faulty variant: turns to the subprocess, which can be cancelled. *)
InterruptBySubprocess(c) ==
  /\ At(c, "wait") /\ talk[turn[c]] = "running" /\ cancel[c]
  /\ GoTo(c, "spawn")
  /\ UNCHANGED <<config, asked, cancel, turn, asker, history, result, agentVars, groupVars>>

(* A poll that finds the turn unfinished and a cancel requested. *)
Interrupt(c) ==
  /\ At(c, "wait") /\ talk[turn[c]] = "running" /\ cancel[c]
  /\ interrupted' = interrupted \cup {agent[turn[c]]}
  /\ GoTo(c, "grace")
  /\ UNCHANGED <<config, asked, cancel, turn, asker, history, result,
                 cache, built, agent, talk, groupVars>>

(* Faulty variant: waits until the agent has finished. *)
GraceWithoutLimit(c) ==
  /\ At(c, "grace") /\ talk[turn[c]] # "running"
  /\ ClearCache
  /\ Return(c, "cancelled")
  /\ UNCHANGED <<config, asked, cancel, asker, history,
                 built, agent, talk, interrupted, groupVars>>

(* The agent finished or hermes_interrupt_wait_seconds passed: either way  *)
(* it is dropped, and its thread perhaps left behind.                      *)
Grace(c) ==
  /\ At(c, "grace")
  /\ ClearCache
  /\ Return(c, "cancelled")
  /\ UNCHANGED <<config, asked, cancel, asker, history,
                 built, agent, talk, interrupted, groupVars>>

TalkRaised(c) ==
  /\ At(c, "wait") /\ talk[turn[c]] = "failed"
  /\ Raised(c)
  /\ UNCHANGED <<config, asked, cancel, asker, history, agentVars, groupVars>>

CancelledAtEnd(c) ==
  /\ At(c, "wait") /\ talk[turn[c]] \in {"answered", "interrupted"}
  /\ cancel[c]
  /\ ClearCache
  /\ Return(c, "cancelled")
  /\ UNCHANGED <<config, asked, cancel, asker, history,
                 built, agent, talk, interrupted, groupVars>>

(* An interruption this caller did not ask for passes as an answer. *)
Answered(c) ==
  /\ At(c, "wait") /\ talk[turn[c]] \in {"answered", "interrupted"}
  /\ ~cancel[c]
  /\ Remember(c)
  /\ Return(c, IF talk[turn[c]] = "interrupted" THEN "cut" ELSE "answer")
  /\ UNCHANGED <<config, asked, cancel, asker, agentVars, groupVars>>

-----------------------------------------------------------------------------
(* _run_hermes_subprocess_turn *)

Spawn(c) ==
  /\ At(c, "spawn")
  /\ \/ /\ leader' = [leader EXCEPT ![turn[c]] = "running"]
        /\ GoTo(c, "poll")
        /\ UNCHANGED <<turn, result>>
     \/ Return(c, "apology") /\ UNCHANGED leader
  /\ UNCHANGED <<config, asked, cancel, asker, history, agentVars, child>>

Exited(c) == leader[turn[c]] \in {"ok", "failed", "gone"}

Reap(c) == leader' = [leader EXCEPT ![turn[c]] = "gone"]

(* Popen.communicate returns what the process printed, or raises after     *)
(* 0.2 seconds when a process it left behind still holds the pipe: then    *)
(* the pipe object itself is turned into the text of the answer.           *)
Collect(c) ==
  /\ At(c, "poll") /\ Exited(c)
  /\ \E text \in {"answer", "nothing", "garbled"} :
       /\ text = "garbled" => child[turn[c]]
       /\ IF leader[turn[c]] = "ok"
            THEN /\ Return(c, text)
                 /\ IF text = "nothing" THEN UNCHANGED history ELSE Remember(c)
            ELSE Return(c, "apology") /\ UNCHANGED history
  /\ Reap(c)
  /\ UNCHANGED <<config, asked, cancel, asker, agentVars, child>>

(* A poll that finds it running.  The cancel is looked at before the       *)
(* deadline; what the turn will return is settled here.                    *)
GiveUp(c, r) ==
  /\ At(c, "poll") /\ ~Exited(c)
  /\ result' = [result EXCEPT ![turn[c]] = r]
  /\ GoTo(c, "terminate")
  /\ UNCHANGED <<config, asked, cancel, turn, asker, history, agentVars, groupVars>>

PollCancelled(c) == cancel[c] /\ GiveUp(c, "cancelled")

(* Faulty variant: a turn without a deadline. *)
NoDeadline(c) == cancel[c] /\ GiveUp(c, "cancelled")

PollTimedOut(c) == ~cancel[c] /\ GiveUp(c, "apology")

-----------------------------------------------------------------------------
(* _terminate_hermes_process_group.  What the process printed is thrown    *)
(* away.                                                                   *)

Terminated(c) == Return(c, result[turn[c]])

(* The leader is gone by now: nothing is sent to its group. *)
AlreadyExited(c) ==
  /\ At(c, "terminate") /\ Exited(c)
  /\ Terminated(c) /\ Reap(c)
  /\ UNCHANGED <<config, asked, cancel, asker, history, agentVars, child>>

(* SIGTERM to the group; a process may ignore it. *)
Terminate(c) ==
  /\ At(c, "terminate") /\ ~Exited(c)
  /\ leader' = [leader EXCEPT ![turn[c]] = "signalled"]
  /\ child' \in {child, [child EXCEPT ![turn[c]] = FALSE]}
  /\ GoTo(c, "termwait")
  /\ UNCHANGED <<config, asked, cancel, turn, asker, history, result, agentVars>>

LeaderObeyed(c) ==
  /\ At(c, "termwait") /\ Exited(c)
  /\ Terminated(c)
  /\ UNCHANGED <<config, asked, cancel, asker, history, agentVars, groupVars>>

(* The grace period is over: SIGKILL to the group. *)
Kill(c) ==
  /\ At(c, "termwait") /\ ~Exited(c)
  /\ Reap(c)
  /\ child' = [child EXCEPT ![turn[c]] = FALSE]
  /\ Terminated(c)
  /\ UNCHANGED <<config, asked, cancel, asker, history, agentVars>>

-----------------------------------------------------------------------------
(* The agent, its processes, and who cancels. *)

(* An agent may notice an interruption, or never return. *)
Talk(t) ==
  /\ talk[t] = "running"
  /\ \E end \in {"answered", "failed", "interrupted"} :
       /\ end = "interrupted" => agent[t] \in interrupted
       /\ talk' = [talk EXCEPT ![t] = end]
  /\ UNCHANGED <<config, asked, callerVars, cache, built, agent, interrupted, groupVars>>

(* `hermes chat' starts a tool, exits, or fills its pipes, which nobody    *)
(* reads before it exits; a tool ends.                                     *)
Process(t) ==
  /\ \/ /\ leader[t] = "running" /\ ~child[t]
        /\ child' = [child EXCEPT ![t] = TRUE]
        /\ UNCHANGED leader
     \/ /\ leader[t] = "running"
        /\ \E end \in {"ok", "failed", "blocked"} : leader' = [leader EXCEPT ![t] = end]
        /\ UNCHANGED child
     \/ /\ leader[t] = "signalled"
        /\ leader' = [leader EXCEPT ![t] = "gone"]
        /\ UNCHANGED child
     \/ /\ child[t]
        /\ child' = [child EXCEPT ![t] = FALSE]
        /\ UNCHANGED leader
  /\ UNCHANGED <<config, asked, callerVars, agentVars>>

Cancel(c) ==
  /\ ~At(c, "idle") /\ ~cancel[c]
  /\ cancel' = [cancel EXCEPT ![c] = TRUE]
  /\ UNCHANGED <<config, asked, pc, turn, asker, history, result, agentVars, groupVars>>

-----------------------------------------------------------------------------
(* The steps of a caller's own thread. *)
Step(c) ==
  \/ Lookup(c) \/ Build(c) \/ Evict(c) \/ Keep(c)
  \/ StartTalk(c) \/ Interrupt(c) \/ Grace(c) \/ TalkRaised(c)
  \/ CancelledAtEnd(c) \/ Answered(c)
  \/ Spawn(c) \/ Collect(c) \/ PollCancelled(c) \/ PollTimedOut(c)
  \/ AlreadyExited(c) \/ Terminate(c) \/ LeaderObeyed(c) \/ Kill(c)

Next ==
  \/ \E c \in Callers : Ask(c) \/ Step(c) \/ Cancel(c)
  \/ \E t \in Turns : Talk(t) \/ Process(t)

(* Polls and waits are timed, so a caller goes on whatever the agent and   *)
(* its processes do; they owe nothing.                                     *)
Spec == Init /\ [][Next]_vars /\ \A c \in Callers : WF_vars(Step(c))

-----------------------------------------------------------------------------
(* An agent runs two conversations at once only if the callers share it,   *)
(* which they do as shipped, and then one of each: a cancelled turn may    *)
(* leave its conversation running, but the agent of such a turn is out of  *)
(* the cache before its caller asks again, and stays out.                  *)
AgentExclusive ==
  \A s, t \in Turns :
    (s # t /\ talk[s] = "running" /\ talk[t] = "running" /\ agent[s] = agent[t]) =>
      config.shared /\ asker[s] # asker[t]

(* A request is handed to `hermes chat' only after the agent has failed    *)
(* with it: it never runs in both at once, and never again after an answer *)
(* or a cancel.                                                            *)
NeverTwice == \A t \in Turns : leader[t] # "none" => talk[t] \in {"none", "failed"}

(* A cancelled turn returns, whatever the agent does. *)
CancelEndsTurn ==
  \A c \in Callers : (~At(c, "idle") /\ cancel[c]) ~> At(c, "idle")

(* A turn that runs as a subprocess returns even if nobody cancels it and  *)
(* its process never ends.                                                 *)
SubprocessEnds == \A c \in Callers : At(c, "poll") ~> At(c, "idle")

=============================================================================
