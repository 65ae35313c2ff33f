---------------------------- MODULE HermesTurnProofs ----------------------------
(***************************************************************************)
(* What holds of the session's and the delegation's requests to the agent  *)
(* for every number of turns: their types, that a request is never handed  *)
(* to `hermes chat' while the agent works on it or after it has answered,  *)
(* and that an agent runs two conversations only if the callers share it,  *)
(* and then one of each.                                                   *)
(***************************************************************************)
EXTENDS HermesTurn, TLAPS

(* The two callers are never in the same turn, and what has not been asked *)
(* has not started.                                                        *)
TurnsApart ==
  /\ \A c \in Callers : turn[c] <= asked /\ (turn[c] = 0 <=> pc[c] = "idle")
  /\ \A c, d \in Callers : (c # d /\ turn[c] = turn[d]) => turn[c] = 0
  /\ \A t \in Turns : t > asked => talk[t] = "none" /\ leader[t] = "none"

(* A turn builds one agent at most: those to come have room. *)
MayBuild(c) == IF pc[c] \in {"lookup", "build"} THEN 1 ELSE 0

BuiltBound ==
  /\ built + MayBuild("session") + MayBuild("delegation") <= asked + 1
  /\ \A k \in Keys : cache[k] <= built

(* Where a turn is says what has become of it: no conversation before      *)
(* `start', no process before it is spawned, and a process only when the   *)
(* conversation has never begun or has failed.                             *)
Holding(c) == pc[c] \in {"evict", "keep", "start", "wait", "grace"}

InPhase(c) ==
  /\ pc[c] \in {"lookup", "build", "evict", "keep", "start"} => talk[turn[c]] = "none"
  /\ (Holding(c) \/ pc[c] \in {"lookup", "build", "spawn"}) => leader[turn[c]] = "none"
  /\ pc[c] \in {"spawn", "poll", "terminate", "termwait"} => talk[turn[c]] \in {"none", "failed"}
  /\ Holding(c) => agent[turn[c]] # 0

PhasesHold ==
  /\ \A c \in Callers : InPhase(c)
  /\ \A t \in Turns : talk[t] = "running" => agent[t] # 0
  /\ NeverTwice

TurnInv == TypeOK /\ TurnsApart /\ BuiltBound /\ PhasesHold

(* Who has an agent: a caller the one in the cache under its key and the   *)
(* one its turn got, and a turn that was left behind the one it still runs *)
(* on.  The last part is what a cancelled turn could break, and with it    *)
(* AgentExclusive: it leaves its conversation running, so its agent must   *)
(* go out of the cache in the same step.                                   *)
Owns(c) == ({cache[c]} \cup (IF Holding(c) THEN {agent[turn[c]]} ELSE {})) \ {0}

LeftBehind == {t \in Turns : talk[t] = "running" /\ \A c \in Callers : turn[c] # t}

OwnersApart ==
  /\ \A c, d \in Callers : c # d => Owns(c) \cap Owns(d) = {}
  /\ \A t \in LeftBehind : \A c \in Callers : agent[t] \notin Owns(c)
  /\ \A s, t \in LeftBehind : s # t => agent[s] # agent[t]

(* What holds whether or not they share: an agent just built is nobody     *)
(* else's, so none that was left behind comes back into the cache, and a   *)
(* caller does not get one again on which a turn of its own still runs.    *)
Holds(c) == ({cache[Key(c)]} \cup (IF Holding(c) THEN {agent[turn[c]]} ELSE {})) \ {0}

Fresh(c) ==
  /\ \A t \in Turns : t # turn[c] => agent[t] # agent[turn[c]]
  /\ \A k \in Keys : cache[k] # agent[turn[c]]

ApartFromOwn ==
  /\ \A c \in Callers : pc[c] # "idle" => asker[turn[c]] = c
  /\ \A c \in Callers : pc[c] \in {"evict", "keep"} => Fresh(c)
  /\ \A t \in LeftBehind : \A c \in Callers : asker[t] = c => agent[t] \notin Holds(c)
  /\ \A s, t \in LeftBehind : (s # t /\ asker[s] = asker[t]) => agent[s] # agent[t]

OwnersInv == ApartFromOwn /\ (~config.shared => OwnersApart)

-----------------------------------------------------------------------------
(* Frames: what a caller's step leaves alone. *)

(* A caller that is not idle is in a turn that has been asked and that the *)
(* other one is not in.                                                    *)
LEMMA OwnTurn ==
  ASSUME TurnInv, NEW c \in Callers, pc[c] # "idle"
  PROVE  /\ turn[c] \in Turns /\ turn[c] <= asked
         /\ \A d \in Callers : d # c => turn[d] # turn[c]
  BY DEF TurnInv, TypeOK, TurnsApart, Turns

(* Where the thread of a caller is after it has made a step, or its turn   *)
(* has ended.                                                              *)
Phases == {"lookup", "build", "evict", "keep", "start", "wait", "grace",
           "spawn", "poll", "terminate", "termwait"}

Moved(c) ==
  /\ \/ /\ \E p \in Phases : pc' = [pc EXCEPT ![c] = p]
        /\ turn' = turn
     \/ /\ pc' = [pc EXCEPT ![c] = "idle"]
        /\ turn' = [turn EXCEPT ![c] = 0]
  /\ \/ UNCHANGED result
     \/ \E r \in {"answer", "nothing", "cut", "garbled", "apology", "cancelled", result[turn[c]]} :
          result' = [result EXCEPT ![turn[c]] = r]
  /\ history' \in {history, [history EXCEPT ![c] = @ \cup {turn[c]}]}
  /\ UNCHANGED <<config, asked, cancel, asker>>

LEMMA StepMoves ==
  ASSUME NEW c \in Callers, Step(c)
  PROVE  Moved(c) /\ pc[c] # "idle"
<1> USE DEF At, GoTo, Return, Raised, Remember, Moved, Phases
<1>1. CASE Lookup(c) \/ Build(c)
  BY <1>1 DEF Lookup, Build
<1>2. CASE Evict(c) \/ Keep(c) \/ StartTalk(c) \/ Interrupt(c)
  BY <1>2 DEF Evict, Keep, StartTalk, Interrupt
<1>3. CASE Grace(c) \/ TalkRaised(c) \/ CancelledAtEnd(c)
  BY <1>3 DEF Grace, TalkRaised, CancelledAtEnd
<1>4. CASE Answered(c)
  BY <1>4 DEF Answered
<1>5. CASE Spawn(c)
  BY <1>5 DEF Spawn
<1>6. CASE Collect(c)
  BY <1>6 DEF Collect
<1>7. CASE PollCancelled(c) \/ PollTimedOut(c)
  BY <1>7 DEF PollCancelled, PollTimedOut, GiveUp
<1>8. CASE AlreadyExited(c) \/ Terminate(c) \/ LeaderObeyed(c) \/ Kill(c)
  BY <1>8 DEF AlreadyExited, Terminate, LeaderObeyed, Kill, Terminated
<1> QED
  BY <1>1, <1>2, <1>3, <1>4, <1>5, <1>6, <1>7, <1>8 DEF Step

(* The agent, the conversation and the process of other turns are not      *)
(* touched.                                                                *)
LEMMA StepsOnOwnTurn ==
  ASSUME NEW c \in Callers, Step(c), TurnInv
  PROVE  \A t \in Turns : t # turn[c] =>
           talk'[t] = talk[t] /\ leader'[t] = leader[t] /\ agent'[t] = agent[t]
<1> USE DEF TurnInv, TypeOK, Reap, agentVars, groupVars
<1>1. CASE Lookup(c) \/ Build(c) \/ Evict(c) \/ Keep(c) \/ StartTalk(c) \/ Interrupt(c)
  BY <1>1 DEF Lookup, Build, Evict, Keep, StartTalk, Interrupt
<1>2. CASE Grace(c) \/ TalkRaised(c) \/ CancelledAtEnd(c) \/ Answered(c)
  BY <1>2 DEF Grace, TalkRaised, CancelledAtEnd, Answered
<1>3. CASE Spawn(c) \/ Collect(c) \/ PollCancelled(c) \/ PollTimedOut(c)
  BY <1>3 DEF Spawn, Collect, PollCancelled, PollTimedOut, GiveUp
<1>4. CASE AlreadyExited(c) \/ Terminate(c) \/ LeaderObeyed(c) \/ Kill(c)
  BY <1>4 DEF AlreadyExited, Terminate, LeaderObeyed, Kill
<1> QED
  BY <1>1, <1>2, <1>3, <1>4 DEF Step

-----------------------------------------------------------------------------
(* Types. *)

LEMMA InitTurns == Init => TurnInv /\ OwnersInv
<1> SUFFICES ASSUME Init PROVE TurnInv /\ OwnersInv
  OBVIOUS
<1> USE DEF Init, Callers, Keys
<1>1. TypeOK
  BY TurnsAssumption DEF TypeOK, Agents, Turns, Config
<1>2. TurnsApart
  BY DEF TurnsApart
<1>3. BuiltBound
  BY DEF BuiltBound, MayBuild
<1>4. PhasesHold
  BY DEF PhasesHold, InPhase, Holding, NeverTwice
<1>5. OwnersApart
  BY DEF OwnersApart, Owns, Holding, LeftBehind
<1>6. ApartFromOwn
  BY DEF ApartFromOwn, Holding, LeftBehind
<1> QED
  BY <1>1, <1>2, <1>3, <1>4, <1>5, <1>6 DEF TurnInv, OwnersInv

(* What Moved says of the callers' variables keeps their types. *)
LEMMA MovedTypes ==
  ASSUME TurnInv, NEW c \in Callers, Moved(c), pc[c] # "idle"
  PROVE  /\ config' \in Config /\ asked' \in 0..MaxTurns
         /\ cancel' \in [Callers -> BOOLEAN]
         /\ pc' \in [Callers -> Phases \cup {"idle"}]
         /\ turn' \in [Callers -> 0..MaxTurns]
         /\ asker' \in [Turns -> Callers \cup {"none"}]
         /\ history' \in [Callers -> SUBSET Turns]
         /\ result' \in [Turns -> {"none", "answer", "nothing", "cut", "garbled",
                                   "apology", "cancelled"}]
         /\ \A d \in Callers : d # c => pc'[d] = pc[d] /\ turn'[d] = turn[d]
         /\ \/ pc'[c] \in Phases /\ turn'[c] = turn[c]
            \/ pc'[c] = "idle" /\ turn'[c] = 0
<1>0. turn[c] \in Turns
  BY OwnTurn
<1>1. /\ pc' \in [Callers -> Phases \cup {"idle"}] /\ turn' \in [Callers -> 0..MaxTurns]
      /\ \A d \in Callers : d # c => pc'[d] = pc[d] /\ turn'[d] = turn[d]
      /\ \/ pc'[c] \in Phases /\ turn'[c] = turn[c]
         \/ pc'[c] = "idle" /\ turn'[c] = 0
  BY TurnsAssumption DEF Moved, TurnInv, TypeOK, Phases
<1>2. history' \in [Callers -> SUBSET Turns]
  BY <1>0 DEF Moved, TurnInv, TypeOK
<1>3. result' \in [Turns -> {"none", "answer", "nothing", "cut", "garbled", "apology", "cancelled"}]
  BY <1>0 DEF Moved, TurnInv, TypeOK
<1> QED
  BY <1>1, <1>2, <1>3 DEF Moved, TurnInv, TypeOK

(* The turn a caller asks next is one that nobody has touched. *)
LEMMA AskMoves ==
  ASSUME TurnInv, NEW c \in Callers, Ask(c)
  PROVE  /\ pc[c] = "idle" /\ asked' = asked + 1 /\ asked < MaxTurns
         /\ turn' = [turn EXCEPT ![c] = asked + 1]
         /\ asker' = [asker EXCEPT ![asked + 1] = c]
         /\ asked + 1 \in Turns
         /\ \/ config.warm /\ pc' = [pc EXCEPT ![c] = "lookup"]
            \/ ~config.warm /\ pc' = [pc EXCEPT ![c] = "spawn"]
         /\ talk[asked + 1] = "none" /\ leader[asked + 1] = "none"
         /\ cancel' \in [Callers -> BOOLEAN]
         /\ UNCHANGED <<config, history, result, cache, built, agent, talk, interrupted,
                        leader, child>>
<1>1. /\ pc[c] = "idle" /\ asked' = asked + 1 /\ asked < MaxTurns
      /\ turn' = [turn EXCEPT ![c] = asked + 1]
      /\ asker' = [asker EXCEPT ![asked + 1] = c]
      /\ pc' = [pc EXCEPT ![c] = IF config.warm THEN "lookup" ELSE "spawn"]
      /\ UNCHANGED <<config, history, result, cache, built, agent, talk, interrupted,
                     leader, child>>
  BY DEF Ask, At, GoTo, agentVars, groupVars
<1>2. cancel' \in [Callers -> BOOLEAN]
  BY DEF Ask, TurnInv, TypeOK
<1>3. asked + 1 \in Turns /\ asked + 1 > asked
  BY <1>1, TurnsAssumption DEF TurnInv, TypeOK, Turns
<1>4. talk[asked + 1] = "none" /\ leader[asked + 1] = "none"
  BY <1>3 DEF TurnInv, TurnsApart
<1> QED
  BY <1>1, <1>2, <1>3, <1>4

LEMMA CancelMoves ==
  ASSUME TurnInv, NEW c \in Callers, Cancel(c)
  PROVE  /\ cancel' \in [Callers -> BOOLEAN]
         /\ UNCHANGED <<config, asked, pc, turn, asker, history, result, cache, built, agent,
                        talk, interrupted, leader, child>>
  BY DEF Cancel, TurnInv, TypeOK, agentVars, groupVars

LEMMA TypeKept ==
  ASSUME TurnInv, [Next]_vars
  PROVE  TypeOK'
<1> USE DEF TypeOK
<1>1. ASSUME NEW c \in Callers, Ask(c) PROVE TypeOK'
  <2>1. pc' \in [Callers -> Phases \cup {"idle"}]
    BY <1>1, AskMoves DEF TurnInv, Phases
  <2>2. turn' \in [Callers -> 0..MaxTurns] /\ asked' \in 0..MaxTurns
    <3>1. asked + 1 \in 0..MaxTurns
      BY <1>1, AskMoves DEF TurnInv, Turns
    <3> QED
      BY <1>1, <3>1, AskMoves DEF TurnInv
  <2>3. asker' \in [Turns -> Callers \cup {"none"}]
    BY <1>1, AskMoves DEF TurnInv
  <2> QED
    BY <1>1, <2>1, <2>2, <2>3, AskMoves DEF TurnInv, Phases
<1>2. ASSUME NEW c \in Callers, Cancel(c) PROVE TypeOK'
  BY <1>2, CancelMoves DEF TurnInv
<1>3. ASSUME NEW t \in Turns, Talk(t) PROVE TypeOK'
  BY <1>3 DEF TurnInv, Talk, callerVars, groupVars
<1>4. ASSUME NEW t \in Turns, Process(t) PROVE TypeOK'
  <2>1. leader' \in [Turns -> {"none", "ok", "failed", "gone"} \cup Alive]
    BY <1>4 DEF TurnInv, Process, Alive
  <2>2. child' \in [Turns -> BOOLEAN]
    BY <1>4 DEF TurnInv, Process
  <2> QED
    BY <1>4, <2>1, <2>2 DEF TurnInv, Process, callerVars, agentVars
<1>5. ASSUME NEW c \in Callers, Step(c) PROVE TypeOK'
  <2> DEFINE AgentsOK == /\ cache' \in [Keys -> Agents \cup {0}] /\ built' \in 0..(MaxTurns + 1)
                         /\ agent' \in [Turns -> 0..built'] /\ interrupted' \subseteq 1..built'
             TalksOK == talk' \in [Turns -> {"none", "running", "answered", "failed", "interrupted"}]
             GroupsOK == /\ leader' \in [Turns -> {"none", "ok", "failed", "gone"} \cup Alive]
                         /\ child' \in [Turns -> BOOLEAN]
  <2>0. /\ Moved(c) /\ pc[c] # "idle" /\ turn[c] \in Turns /\ TypeOK
        /\ Key(c) \in Keys /\ cache[Key(c)] <= built
        /\ built \in Nat /\ MaxTurns \in Nat
        /\ \A t \in Turns : agent[t] \in 0..built
        /\ \A k \in Keys : cache[k] \in Nat
    <3>1. Moved(c) /\ pc[c] # "idle"
      BY <1>5, StepMoves
    <3>2. turn[c] \in Turns
      BY <3>1, OwnTurn
    <3>3. Key(c) \in Keys
      BY DEF Key, Keys, Callers
    <3> QED
      BY <3>1, <3>2, <3>3, TurnsAssumption DEF TurnInv, BuiltBound, Agents
  <2> SUFFICES AgentsOK /\ TalksOK /\ GroupsOK
    <3>1. pc' \in [Callers -> Phases \cup {"idle"}]
      BY <2>0, MovedTypes
    <3> QED
      BY <2>0, <3>1, MovedTypes DEF Phases
  <2>1. CASE Lookup(c)
    <3>1. cache[Key(c)] \in 0..built
      BY <2>0
    <3> QED
      BY <2>1, <2>0, <3>1 DEF Lookup, groupVars
  <2>2. CASE Build(c)
    <3>1. built + 1 \in 0..(MaxTurns + 1)
      BY <2>2, <2>0 DEF Build, At, TurnInv, BuiltBound, MayBuild, Callers
    <3>2. \/ built' = built + 1 /\ agent' = [agent EXCEPT ![turn[c]] = built + 1]
          \/ built' = built /\ agent' = agent
      BY <2>2 DEF Build
    <3>3. cache' = cache /\ interrupted' = interrupted /\ talk' = talk /\ UNCHANGED groupVars
      BY <2>2 DEF Build
    <3>4. AgentsOK
      BY <2>0, <3>1, <3>2, <3>3
    <3> QED
      BY <2>0, <3>3, <3>4 DEF groupVars
  <2>3. CASE Evict(c) \/ Keep(c)
    <3>1. cache' \in [Keys -> Agents \cup {0}]
      BY <2>0, <2>3 DEF Evict, Keep, ClearCache, Agents
    <3> QED
      BY <2>3, <2>0, <3>1 DEF Evict, Keep, groupVars
  <2>4. CASE StartTalk(c)
    BY <2>4, <2>0 DEF StartTalk, groupVars
  <2>5. CASE Interrupt(c)
    <3>1. agent[turn[c]] \in 1..built
      BY <2>5, <2>0 DEF Interrupt, At, TurnInv, PhasesHold, InPhase, Holding
    <3> QED
      BY <2>5, <2>0, <3>1 DEF Interrupt, groupVars
  <2>6. CASE Grace(c) \/ CancelledAtEnd(c)
    <3>1. cache' \in [Keys -> Agents \cup {0}]
      BY <2>6 DEF Grace, CancelledAtEnd, ClearCache
    <3> QED
      BY <2>6, <2>0, <3>1 DEF Grace, CancelledAtEnd, groupVars
  <2>7. CASE TalkRaised(c) \/ Answered(c)
    BY <2>7, <2>0 DEF TalkRaised, Answered, agentVars, groupVars
  <2>8. CASE Spawn(c) \/ Collect(c) \/ PollCancelled(c) \/ PollTimedOut(c)
    <3>1. UNCHANGED agentVars
      BY <2>8 DEF Spawn, Collect, PollCancelled, PollTimedOut, GiveUp
    <3>2. GroupsOK
      BY <2>0, <2>8 DEF Spawn, Collect, PollCancelled, PollTimedOut, GiveUp, Reap, groupVars, Alive
    <3> QED
      BY <2>0, <3>1, <3>2 DEF agentVars
  <2>9. CASE AlreadyExited(c) \/ Terminate(c) \/ LeaderObeyed(c) \/ Kill(c)
    <3>1. UNCHANGED agentVars
      BY <2>9 DEF AlreadyExited, Terminate, LeaderObeyed, Kill
    <3>2. /\ \/ leader' = leader
             \/ \E x \in {"gone", "signalled"} : leader' = [leader EXCEPT ![turn[c]] = x]
          /\ child' \in {child, [child EXCEPT ![turn[c]] = FALSE]}
      BY <2>9 DEF AlreadyExited, Terminate, LeaderObeyed, Kill, Reap, groupVars
    <3>3. leader' \in [Turns -> {"none", "ok", "failed", "gone"} \cup Alive]
      BY <2>0, <3>2 DEF Alive
    <3>4. child' \in [Turns -> BOOLEAN]
      <4>1. CASE child' = child
        BY <2>0, <4>1
      <4>2. CASE child' = [child EXCEPT ![turn[c]] = FALSE]
        BY <2>0, <4>2
      <4> QED
        BY <3>2, <4>1, <4>2
    <3> QED
      BY <2>0, <3>1, <3>3, <3>4 DEF agentVars
  <2> QED
    BY <1>5, <2>1, <2>2, <2>3, <2>4, <2>5, <2>6, <2>7, <2>8, <2>9 DEF Step
<1>6. CASE UNCHANGED vars
  BY <1>6 DEF vars, callerVars, agentVars, groupVars, TurnInv
<1> QED
  BY <1>1, <1>2, <1>3, <1>4, <1>5, <1>6 DEF Next

-----------------------------------------------------------------------------
(* Turns and phases. *)

(* The agent and its processes go on only in turns that were asked, and do *)
(* not move the callers.                                                   *)
LEMMA OutsideMoves ==
  ASSUME TurnInv, NEW t \in Turns, Talk(t) \/ Process(t)
  PROVE  /\ UNCHANGED <<config, asked, pc, turn, asker, cache, built, agent>>
         /\ \A u \in Turns : u # t => talk'[u] = talk[u] /\ leader'[u] = leader[u]
         /\ \/ /\ talk[t] = "running" /\ talk'[t] \in {"answered", "failed", "interrupted"}
               /\ leader' = leader
            \/ /\ talk' = talk
               /\ leader'[t] = leader[t] \/ leader[t] # "none"
<1>1. CASE Talk(t)
  BY <1>1 DEF Talk, callerVars, groupVars, TurnInv, TypeOK
<1>2. CASE Process(t)
  BY <1>2 DEF Process, callerVars, agentVars, TurnInv, TypeOK
<1> QED
  BY <1>1, <1>2

LEMMA TurnsApartKept ==
  ASSUME TurnInv, [Next]_vars
  PROVE  TurnsApart'
<1>0. /\ asked \in Nat /\ \A c \in Callers : turn[c] \in Nat
      /\ \A t \in Turns : t \in Nat
  BY DEF TurnInv, TypeOK, Turns
<1>1. ASSUME NEW c \in Callers, Ask(c) PROVE TurnsApart'
  <2>1. /\ \A d \in Callers : turn[d] <= asked /\ turn[d] < asked + 1
        /\ \A t \in Turns : t > asked + 1 => t > asked
    BY <1>0 DEF TurnInv, TurnsApart
  <2>2. /\ asked' = asked + 1 /\ asked + 1 # 0
        /\ turn' \in [Callers -> 0..MaxTurns] /\ turn'[c] = asked + 1 /\ pc'[c] # "idle"
        /\ \A d \in Callers : d # c => turn'[d] = turn[d] /\ pc'[d] = pc[d]
        /\ UNCHANGED <<talk, leader>>
    <3>1. /\ pc'[c] # "idle"
          /\ \A d \in Callers : d # c => pc'[d] = pc[d]
      BY <1>1, AskMoves DEF TurnInv, TypeOK
    <3>2. /\ turn' \in [Callers -> 0..MaxTurns] /\ turn'[c] = asked + 1
          /\ \A d \in Callers : d # c => turn'[d] = turn[d]
      BY <1>1, AskMoves, TypeKept DEF TurnInv, TypeOK, Next
    <3> QED
      BY <1>0, <1>1, <3>1, <3>2, AskMoves
  <2>3. \A d \in Callers : turn'[d] <= asked' /\ (turn'[d] = 0 <=> pc'[d] = "idle")
    BY <1>0, <2>1, <2>2 DEF TurnInv, TurnsApart
  <2>4. \A d, e \in Callers : (d # e /\ turn'[d] = turn'[e]) => turn'[d] = 0
    BY <1>0, <2>1, <2>2 DEF TurnInv, TurnsApart
  <2>5. \A t \in Turns : t > asked' => talk'[t] = "none" /\ leader'[t] = "none"
    BY <2>1, <2>2 DEF TurnInv, TurnsApart
  <2> QED
    BY <2>3, <2>4, <2>5 DEF TurnsApart
<1>2. ASSUME NEW c \in Callers, Step(c) PROVE TurnsApart'
  <2>1. Moved(c) /\ pc[c] # "idle"
    BY <1>2, StepMoves
  <2>2. turn[c] <= asked /\ turn[c] \in Turns
    BY <2>1, OwnTurn
  <2>3. /\ asked' = asked
        /\ \A d \in Callers : d # c => turn'[d] = turn[d] /\ pc'[d] = pc[d]
        /\ \/ turn'[c] = turn[c] /\ pc'[c] # "idle"
           \/ turn'[c] = 0 /\ pc'[c] = "idle"
    BY <2>1, MovedTypes DEF Moved, Phases
  <2>4. \A t \in Turns : t > asked => talk'[t] = talk[t] /\ leader'[t] = leader[t]
    BY <1>0, <1>2, <2>2, StepsOnOwnTurn
  <2>5. \A d \in Callers : turn'[d] <= asked' /\ (turn'[d] = 0 <=> pc'[d] = "idle")
    BY <1>0, <2>1, <2>2, <2>3 DEF TurnInv, TurnsApart
  <2>6. \A d, e \in Callers : (d # e /\ turn'[d] = turn'[e]) => turn'[d] = 0
    BY <2>3 DEF TurnInv, TurnsApart
  <2> QED
    BY <2>3, <2>4, <2>5, <2>6 DEF TurnsApart, TurnInv
<1>3. ASSUME NEW c \in Callers, Cancel(c) PROVE TurnsApart'
  BY <1>3, CancelMoves DEF TurnInv, TurnsApart
<1>4. ASSUME NEW t \in Turns, Talk(t) \/ Process(t) PROVE TurnsApart'
  <2>1. t > asked => talk'[t] = "none" /\ leader'[t] = "none"
    BY <1>4, OutsideMoves DEF TurnInv, TurnsApart
  <2>2. \A u \in Turns : u > asked' => talk'[u] = "none" /\ leader'[u] = "none"
    BY <1>4, <2>1, OutsideMoves DEF TurnInv, TurnsApart
  <2> QED
    BY <1>4, <2>2, OutsideMoves DEF TurnInv, TurnsApart
<1>5. CASE UNCHANGED vars
  BY <1>5 DEF vars, callerVars, agentVars, groupVars, TurnInv, TurnsApart
<1> QED
  BY <1>1, <1>2, <1>3, <1>4, <1>5 DEF Next

(* One agent a turn, and none in the cache that was not built. *)
LEMMA BuiltBoundKept ==
  ASSUME TurnInv, [Next]_vars
  PROVE  BuiltBound'
<1>0. /\ asked \in Nat /\ built \in Nat /\ \A k \in Keys : cache[k] \in Nat /\ cache[k] <= built
      /\ \A t \in Turns : agent[t] \in Nat /\ agent[t] <= built
      /\ \A c \in Callers : MayBuild(c) \in {0, 1}
  BY DEF TurnInv, TypeOK, Agents, BuiltBound, MayBuild
<1>9. built + MayBuild("session") + MayBuild("delegation") <= asked + 1
  BY DEF TurnInv, BuiltBound
<1>1. ASSUME NEW c \in Callers, Ask(c) PROVE BuiltBound'
  <2>1. /\ MayBuild(c) = 0 /\ MayBuild(c)' \in {0, 1}
        /\ \A d \in Callers : d # c => MayBuild(d)' = MayBuild(d)
    BY <1>1, AskMoves DEF MayBuild, TurnInv, TypeOK
  <2>2. asked' = asked + 1 /\ UNCHANGED <<cache, built>>
    BY <1>1, AskMoves
  <2> QED
    BY <1>0, <1>9, <2>1, <2>2 DEF BuiltBound, Callers
<1>2. ASSUME NEW c \in Callers, Step(c) PROVE BuiltBound'
  <2>1. Moved(c) /\ pc[c] # "idle"
    BY <1>2, StepMoves
  <2>2. \A d \in Callers : d # c => MayBuild(d)' = MayBuild(d)
    BY <2>1, MovedTypes DEF MayBuild
  <2>3. asked' = asked
    BY <2>1 DEF Moved
  <2>4. /\ turn[c] \in Turns /\ Key(c) \in Keys
    BY <2>1, OwnTurn DEF Key, Keys, Callers
  <2>5. \/ built' = built /\ MayBuild(c)' <= MayBuild(c) /\ MayBuild(c)' \in {0, 1}
        \/ built' = built + 1 /\ MayBuild(c) = 1 /\ MayBuild(c)' = 0
    <3> USE DEF MayBuild, TurnInv, TypeOK, At, GoTo, Return, Raised, agentVars
    <3>1. CASE Lookup(c)
      BY <3>1 DEF Lookup
    <3>2. CASE Build(c)
      BY <3>2 DEF Build
    <3>3. CASE Evict(c) \/ Keep(c) \/ StartTalk(c) \/ Interrupt(c)
      BY <3>3 DEF Evict, Keep, StartTalk, Interrupt
    <3>4. CASE Grace(c) \/ TalkRaised(c) \/ CancelledAtEnd(c) \/ Answered(c)
      BY <3>4 DEF Grace, TalkRaised, CancelledAtEnd, Answered
    <3>5. CASE Spawn(c) \/ Collect(c) \/ PollCancelled(c) \/ PollTimedOut(c)
      BY <3>5 DEF Spawn, Collect, PollCancelled, PollTimedOut, GiveUp
    <3>6. CASE AlreadyExited(c) \/ Terminate(c) \/ LeaderObeyed(c) \/ Kill(c)
      BY <3>6 DEF AlreadyExited, Terminate, LeaderObeyed, Kill, Terminated
    <3> QED
      BY <1>2, <3>1, <3>2, <3>3, <3>4, <3>5, <3>6 DEF Step
  <2>6. \A k \in Keys : cache'[k] \in {0, cache[k], agent[turn[c]]}
    <3> USE DEF TurnInv, TypeOK, ClearCache, agentVars
    <3>1. CASE Evict(c) \/ Keep(c) \/ Grace(c) \/ CancelledAtEnd(c)
      BY <2>4, <3>1 DEF Evict, Keep, Grace, CancelledAtEnd
    <3>2. CASE Lookup(c) \/ Build(c) \/ StartTalk(c) \/ Interrupt(c) \/ TalkRaised(c) \/ Answered(c)
      BY <3>2 DEF Lookup, Build, StartTalk, Interrupt, TalkRaised, Answered
    <3>3. CASE Spawn(c) \/ Collect(c) \/ PollCancelled(c) \/ PollTimedOut(c)
      BY <3>3 DEF Spawn, Collect, PollCancelled, PollTimedOut, GiveUp
    <3>4. CASE AlreadyExited(c) \/ Terminate(c) \/ LeaderObeyed(c) \/ Kill(c)
      BY <3>4 DEF AlreadyExited, Terminate, LeaderObeyed, Kill
    <3> QED
      BY <1>2, <3>1, <3>2, <3>3, <3>4 DEF Step
  <2>7. \A k \in Keys : cache'[k] <= built'
    BY <1>0, <2>4, <2>5, <2>6
  <2>8. built' + MayBuild("session")' + MayBuild("delegation")' <= asked' + 1
    <3>1. CASE c = "session"
      BY <1>0, <1>9, <2>2, <2>3, <2>5, <3>1 DEF Callers
    <3>2. CASE c = "delegation"
      BY <1>0, <1>9, <2>2, <2>3, <2>5, <3>2 DEF Callers
    <3> QED
      BY <3>1, <3>2 DEF Callers
  <2> QED
    BY <2>7, <2>8 DEF BuiltBound
<1>3. ASSUME NEW c \in Callers, Cancel(c) PROVE BuiltBound'
  BY <1>3, CancelMoves DEF TurnInv, BuiltBound, MayBuild
<1>4. ASSUME NEW t \in Turns, Talk(t) \/ Process(t) PROVE BuiltBound'
  BY <1>4, OutsideMoves DEF TurnInv, BuiltBound, MayBuild
<1>5. CASE UNCHANGED vars
  BY <1>5 DEF vars, callerVars, agentVars, TurnInv, BuiltBound, MayBuild
<1> QED
  BY <1>1, <1>2, <1>3, <1>4, <1>5 DEF Next, BuiltBound

(* What a step makes of the turn it is in. *)
LEMMA OwnPhaseKept ==
  ASSUME TurnInv, NEW c \in Callers, Step(c)
  PROVE  /\ InPhase(c)'
         /\ talk'[turn[c]] = "running" => agent'[turn[c]] # 0
         /\ leader'[turn[c]] # "none" => talk'[turn[c]] \in {"none", "failed"}
<1>0. /\ Moved(c) /\ pc[c] # "idle" /\ turn[c] \in Turns
      /\ pc'[c] # "idle" => turn'[c] = turn[c]
      /\ built + 1 # 0
  BY StepMoves, OwnTurn, MovedTypes DEF TurnInv, TypeOK
<1>1. /\ InPhase(c)
      /\ talk[turn[c]] = "running" => agent[turn[c]] # 0
      /\ leader[turn[c]] # "none" => talk[turn[c]] \in {"none", "failed"}
  BY <1>0 DEF TurnInv, PhasesHold, NeverTwice
<1> USE DEF InPhase, Holding, TurnInv, TypeOK, At, GoTo, Return, Raised
<1>2. CASE Lookup(c)
  BY <1>0, <1>1, <1>2 DEF Lookup, groupVars
<1>3. CASE Build(c)
  BY <1>0, <1>1, <1>3 DEF Build, groupVars
<1>4. CASE Evict(c) \/ Keep(c) \/ StartTalk(c) \/ Interrupt(c)
  BY <1>0, <1>1, <1>4 DEF Evict, Keep, StartTalk, Interrupt, groupVars
<1>5. CASE Grace(c) \/ CancelledAtEnd(c) \/ Answered(c)
  BY <1>0, <1>1, <1>5 DEF Grace, CancelledAtEnd, Answered, agentVars, groupVars
<1>6. CASE TalkRaised(c)
  BY <1>0, <1>1, <1>6 DEF TalkRaised, agentVars, groupVars
<1>7. CASE Spawn(c)
  BY <1>0, <1>1, <1>7 DEF Spawn, agentVars
<1>8. CASE Collect(c)
  BY <1>0, <1>1, <1>8 DEF Collect, Reap, agentVars
<1>9. CASE PollCancelled(c) \/ PollTimedOut(c)
  BY <1>0, <1>1, <1>9 DEF PollCancelled, PollTimedOut, GiveUp, agentVars, groupVars
<1>10. CASE AlreadyExited(c) \/ Terminate(c) \/ LeaderObeyed(c) \/ Kill(c)
  BY <1>0, <1>1, <1>10 DEF AlreadyExited, Terminate, LeaderObeyed, Kill, Terminated, Reap,
    agentVars, groupVars
<1> QED
  BY <1>2, <1>3, <1>4, <1>5, <1>6, <1>7, <1>8, <1>9, <1>10 DEF Step

LEMMA PhasesKept ==
  ASSUME TurnInv, [Next]_vars
  PROVE  PhasesHold'
<1>1. ASSUME NEW c \in Callers, Ask(c) PROVE PhasesHold'
  <2>1. InPhase(c)'
    BY <1>1, AskMoves DEF InPhase, Holding, TurnInv, TypeOK
  <2>2. ASSUME NEW d \in Callers, d # c PROVE InPhase(d)'
    BY <1>1, <2>2, AskMoves DEF InPhase, Holding, TurnInv, PhasesHold, TypeOK
  <2> QED
    BY <1>1, <2>1, <2>2, AskMoves DEF PhasesHold, NeverTwice, TurnInv
<1>2. ASSUME NEW c \in Callers, Step(c) PROVE PhasesHold'
  <2>1. Moved(c) /\ pc[c] # "idle"
    BY <1>2, StepMoves
  <2>2. turn[c] \in Turns /\ \A d \in Callers : d # c => turn[d] # turn[c]
    BY <2>1, OwnTurn
  <2>3. ASSUME NEW d \in Callers, d # c PROVE InPhase(d)'
    <3>1. pc'[d] = pc[d] /\ turn'[d] = turn[d] /\ InPhase(d)
      BY <2>1, <2>3, MovedTypes DEF TurnInv, PhasesHold
    <3>2. CASE pc[d] = "idle"
      BY <3>1, <3>2 DEF InPhase, Holding
    <3>3. CASE pc[d] # "idle"
      <4>1. turn[d] \in Turns /\ turn[d] # turn[c]
        BY <2>2, <2>3, <3>3, OwnTurn
      <4>2. /\ talk'[turn[d]] = talk[turn[d]] /\ leader'[turn[d]] = leader[turn[d]]
            /\ agent'[turn[d]] = agent[turn[d]]
        BY <1>2, <4>1, StepsOnOwnTurn
      <4> QED
        BY <3>1, <4>2 DEF InPhase, Holding
    <3> QED
      BY <3>2, <3>3
  <2>4. \A t \in Turns : /\ talk'[t] = "running" => agent'[t] # 0
                         /\ leader'[t] # "none" => talk'[t] \in {"none", "failed"}
    BY <1>2, <2>2, OwnPhaseKept, StepsOnOwnTurn DEF TurnInv, PhasesHold, NeverTwice
  <2> QED
    BY <1>2, <2>3, <2>4, OwnPhaseKept DEF PhasesHold, NeverTwice
<1>3. ASSUME NEW c \in Callers, Cancel(c) PROVE PhasesHold'
  BY <1>3, CancelMoves DEF TurnInv, PhasesHold, InPhase, Holding, NeverTwice
<1>4. ASSUME NEW t \in Turns, Talk(t) \/ Process(t) PROVE PhasesHold'
  <2>1. /\ UNCHANGED <<pc, turn, agent>>
        /\ \A u \in Turns : u # t => talk'[u] = talk[u] /\ leader'[u] = leader[u]
        /\ \/ /\ talk[t] = "running" /\ talk'[t] \in {"answered", "failed", "interrupted"}
              /\ leader' = leader
           \/ /\ talk' = talk
              /\ leader'[t] = leader[t] \/ leader[t] # "none"
    BY <1>4, OutsideMoves
  <2>2. ASSUME NEW c \in Callers PROVE InPhase(c)'
    <3>1. InPhase(c) /\ (pc[c] # "idle" => turn[c] \in Turns)
      BY OwnTurn DEF TurnInv, PhasesHold
    <3>2. CASE turn[c] = t
      BY <2>1, <3>1, <3>2 DEF InPhase, Holding
    <3>3. CASE turn[c] # t
      BY <2>1, <3>1, <3>3 DEF InPhase, Holding
    <3> QED
      BY <3>2, <3>3
  <2>3. \A u \in Turns : /\ talk'[u] = "running" => agent'[u] # 0
                         /\ leader'[u] # "none" => talk'[u] \in {"none", "failed"}
    BY <2>1 DEF TurnInv, PhasesHold, NeverTwice
  <2> QED
    BY <2>2, <2>3 DEF PhasesHold, NeverTwice
<1>5. CASE UNCHANGED vars
  BY <1>5 DEF vars, callerVars, agentVars, groupVars, TurnInv, PhasesHold, InPhase, Holding,
    NeverTwice
<1> QED
  BY <1>1, <1>2, <1>3, <1>4, <1>5 DEF Next

LEMMA TurnKept ==
  ASSUME TurnInv, [Next]_vars
  PROVE  TurnInv'
  BY TypeKept, TurnsApartKept, BuiltBoundKept, PhasesKept DEF TurnInv

-----------------------------------------------------------------------------
(* Who has an agent. *)

(* A step of a caller leaves the other's agents to it, keeps its own or    *)
(* gets a new one, and leaves a conversation running only when it leaves   *)
(* its caller without any agent.                                           *)
LEMMA StepOwns ==
  ASSUME TurnInv, ~config.shared, NEW c \in Callers, Step(c)
  PROVE  /\ \A d \in Callers : d # c => Owns(d)' \subseteq Owns(d)
         /\ Owns(c)' \subseteq Owns(c) \cup {built + 1}
         /\ \A t \in LeftBehind' : t # turn[c] => t \in LeftBehind /\ agent'[t] = agent[t]
         /\ turn[c] \in LeftBehind' =>
              Owns(c)' = {} /\ agent'[turn[c]] = agent[turn[c]] /\ agent[turn[c]] \in Owns(c)
<1>0. /\ Moved(c) /\ pc[c] # "idle" /\ turn[c] \in Turns
      /\ \A d \in Callers : d # c => turn[d] # turn[c]
  BY StepMoves, OwnTurn
<1>1. /\ \A d \in Callers : d # c => pc'[d] = pc[d] /\ turn'[d] = turn[d]
      /\ \/ pc'[c] # "idle" /\ turn'[c] = turn[c]
         \/ pc'[c] = "idle" /\ turn'[c] = 0
  BY <1>0, MovedTypes DEF Phases
<1>2. \A d \in Callers : d # c /\ Holding(d) => turn[d] \in Turns /\ turn[d] # turn[c]
  BY <1>0, OwnTurn DEF Holding
<1>3. \A t \in Turns : t # turn[c] => talk'[t] = talk[t] /\ agent'[t] = agent[t]
  BY StepsOnOwnTurn
<1>4. /\ \A k \in Keys : k # c => cache'[k] \in {0, cache[k]}
      /\ \/ cache'[c] \in {0, cache[c]}
         \/ Holding(c) /\ cache'[c] = agent[turn[c]]
      /\ Holding(c)' => \/ agent'[turn[c]] \in {cache[c], built + 1}
                        \/ Holding(c) /\ agent'[turn[c]] = agent[turn[c]]
      /\ \/ talk'[turn[c]] # "running" \/ pc'[c] # "idle"
         \/ /\ Holding(c) /\ agent'[turn[c]] = agent[turn[c]]
            /\ \A k \in Keys : cache'[k] = 0
  <2> USE DEF Holding, TurnInv, TypeOK, At, GoTo, Return, Raised, ClearCache, Key, Keys
  <2>1. /\ InPhase(c) /\ NeverTwice
    BY DEF PhasesHold
  <2>2. CASE Lookup(c)
    BY <1>0, <2>2 DEF Lookup
  <2>3. CASE Build(c)
    BY <1>0, <2>1, <2>3 DEF Build, InPhase
  <2>4. CASE Evict(c) \/ Keep(c) \/ StartTalk(c) \/ Interrupt(c)
    BY <1>0, <2>4 DEF Evict, Keep, StartTalk, Interrupt
  <2>5. CASE Grace(c) \/ CancelledAtEnd(c)
    BY <1>0, <2>5 DEF Grace, CancelledAtEnd
  <2>6. CASE TalkRaised(c) \/ Answered(c)
    BY <1>0, <2>6 DEF TalkRaised, Answered, agentVars
  <2>7. CASE Spawn(c) \/ Collect(c) \/ PollCancelled(c) \/ PollTimedOut(c)
    BY <1>0, <2>1, <2>7 DEF Spawn, Collect, PollCancelled, PollTimedOut, GiveUp, agentVars, InPhase
  <2>8. CASE AlreadyExited(c) \/ Terminate(c) \/ LeaderObeyed(c) \/ Kill(c)
    BY <1>0, <2>1, <2>8 DEF AlreadyExited, Terminate, LeaderObeyed, Kill, Terminated, agentVars,
      InPhase
  <2> QED
    BY <2>2, <2>3, <2>4, <2>5, <2>6, <2>7, <2>8 DEF Step
<1>5. \A d \in Callers : d # c => Owns(d)' \subseteq Owns(d)
  BY <1>1, <1>2, <1>3, <1>4 DEF Owns, Holding, Keys
<1>6. Owns(c)' \subseteq Owns(c) \cup {built + 1}
  BY <1>1, <1>4 DEF Owns, Holding, Keys
<1>7. \A t \in LeftBehind' : t # turn[c] => t \in LeftBehind /\ agent'[t] = agent[t]
  BY <1>1, <1>3 DEF LeftBehind
<1>8. ASSUME turn[c] \in LeftBehind'
      PROVE  Owns(c)' = {} /\ agent'[turn[c]] = agent[turn[c]] /\ agent[turn[c]] \in Owns(c)
  <2>1. talk'[turn[c]] = "running" /\ turn'[c] # turn[c]
    BY <1>8 DEF LeftBehind
  <2>2. /\ pc'[c] = "idle" /\ Holding(c) /\ agent'[turn[c]] = agent[turn[c]]
        /\ \A k \in Keys : cache'[k] = 0
    BY <1>1, <1>4, <2>1
  <2>3. agent[turn[c]] # 0
    BY <2>2 DEF TurnInv, PhasesHold, InPhase
  <2> QED
    BY <2>2, <2>3 DEF Owns, Holding, Keys
<1> QED
  BY <1>5, <1>6, <1>7, <1>8

LEMMA ConfigKept ==
  ASSUME [Next]_vars PROVE config' = config
<1>1. \A c \in Callers : Step(c) => config' = config
  BY StepMoves DEF Moved
<1> QED
  BY <1>1 DEF Next, Ask, Cancel, Talk, Process, vars

LEMMA OwnersApartKept ==
  ASSUME TurnInv, ~config.shared, OwnersApart, [Next]_vars
  PROVE  OwnersApart'
<1>1. ASSUME NEW c \in Callers, Ask(c) PROVE OwnersApart'
  <2>1. \A d \in Callers : Owns(d)' = Owns(d)
    <3>1. Owns(c)' = Owns(c)
      BY <1>1, AskMoves DEF Owns, Holding, TurnInv, TypeOK
    <3>2. ASSUME NEW d \in Callers, d # c PROVE Owns(d)' = Owns(d)
      BY <1>1, <3>2, AskMoves DEF Owns, Holding, TurnInv, TypeOK
    <3> QED
      BY <3>1, <3>2
  <2>2. /\ turn[c] = 0 /\ 0 \notin Turns /\ talk' = talk /\ agent' = agent
        /\ talk[asked + 1] = "none"
        /\ \A d \in Callers : d # c => turn'[d] = turn[d]
        /\ turn'[c] = asked + 1
    BY <1>1, AskMoves DEF TurnInv, TypeOK, TurnsApart, Turns
  <2>3. LeftBehind' \subseteq LeftBehind
    BY <2>2 DEF LeftBehind
  <2> QED
    BY <2>1, <2>2, <2>3 DEF OwnersApart
<1>2. ASSUME NEW c \in Callers, Step(c) PROVE OwnersApart'
  <2>1. /\ \A d \in Callers : d # c => Owns(d)' \subseteq Owns(d)
        /\ Owns(c)' \subseteq Owns(c) \cup {built + 1}
        /\ \A t \in LeftBehind' : t # turn[c] => t \in LeftBehind /\ agent'[t] = agent[t]
        /\ turn[c] \in LeftBehind' =>
             Owns(c)' = {} /\ agent'[turn[c]] = agent[turn[c]] /\ agent[turn[c]] \in Owns(c)
    BY <1>2, StepOwns
  <2>2. /\ \A d \in Callers : built + 1 \notin Owns(d)
        /\ \A t \in Turns : agent[t] # built + 1
    <3>1. built \in Nat /\ \A t \in Turns : agent[t] \in 0..built
      BY DEF TurnInv, TypeOK
    <3>2. \A d \in Callers : cache[d] \in Nat /\ cache[d] <= built
      BY DEF TurnInv, TypeOK, BuiltBound, Keys, Agents
    <3>3. \A d \in Callers : Holding(d) => turn[d] \in Turns
      BY OwnTurn DEF Holding
    <3> QED
      BY <3>1, <3>2, <3>3 DEF Owns
  <2>3. \A t \in LeftBehind : t \in Turns
    BY DEF LeftBehind
  <2>4. ASSUME NEW d \in Callers, NEW e \in Callers, d # e
        PROVE  Owns(d)' \cap Owns(e)' = {}
    <3>1. Owns(d) \cap Owns(e) = {}
      BY <2>4 DEF OwnersApart
    <3>2. CASE d # c /\ e # c
      BY <2>1, <3>1, <3>2
    <3>3. CASE d = c
      BY <2>1, <2>2, <2>4, <3>1, <3>3
    <3>4. CASE e = c
      BY <2>1, <2>2, <2>4, <3>1, <3>4
    <3> QED
      BY <3>2, <3>3, <3>4
  <2>5. ASSUME NEW t \in LeftBehind', NEW d \in Callers
        PROVE  agent'[t] \notin Owns(d)'
    <3>1. CASE t # turn[c]
      BY <2>1, <2>2, <2>3, <3>1 DEF OwnersApart
    <3>2. CASE t = turn[c]
      <4>1. d # c => agent[t] \notin Owns(d)
        BY <2>1, <3>2, <2>5 DEF OwnersApart
      <4> QED
        BY <2>1, <2>5, <3>2, <4>1
    <3> QED
      BY <3>1, <3>2
  <2>6. ASSUME NEW s \in LeftBehind', NEW t \in LeftBehind', s # t
        PROVE  agent'[s] # agent'[t]
    <3>1. CASE s # turn[c] /\ t # turn[c]
      BY <2>1, <2>6, <3>1 DEF OwnersApart
    <3>2. CASE s = turn[c]
      BY <2>1, <2>6, <3>2 DEF OwnersApart
    <3>3. CASE t = turn[c]
      BY <2>1, <2>6, <3>3 DEF OwnersApart
    <3> QED
      BY <3>1, <3>2, <3>3
  <2> QED
    BY <2>4, <2>5, <2>6 DEF OwnersApart
<1>3. ASSUME NEW c \in Callers, Cancel(c) PROVE OwnersApart'
  BY <1>3, CancelMoves DEF OwnersApart, Owns, Holding, LeftBehind
<1>4. ASSUME NEW t \in Turns, Talk(t) \/ Process(t) PROVE OwnersApart'
  <2>1. /\ UNCHANGED <<pc, turn, cache, agent>>
        /\ \A u \in Turns : talk'[u] = "running" => talk[u] = "running"
    BY <1>4, OutsideMoves
  <2>2. LeftBehind' \subseteq LeftBehind /\ \A d \in Callers : Owns(d)' = Owns(d)
    BY <2>1 DEF LeftBehind, Owns, Holding
  <2> QED
    BY <2>1, <2>2 DEF OwnersApart
<1>5. CASE UNCHANGED vars
  BY <1>5 DEF vars, callerVars, agentVars, OwnersApart, Owns, Holding, LeftBehind
<1> QED
  BY <1>1, <1>2, <1>3, <1>4, <1>5 DEF Next

(* What a caller's step does with agents, whoever shares them: it gets one *)
(* from the cache or a new one, puts only a new one into the cache, and    *)
(* leaves a conversation behind only with the cache cleared.               *)
LEMMA StepAgents ==
  ASSUME TurnInv, NEW c \in Callers, Step(c)
  PROVE  /\ \/ \A k \in Keys : cache'[k] \in {0, cache[k]}
            \/ /\ pc[c] = "keep" /\ \A t \in Turns : agent'[t] = agent[t]
               /\ \A k \in Keys : cache'[k] \in {cache[k], agent[turn[c]]}
         /\ pc'[c] \in {"evict", "keep"} =>
              \/ pc[c] = "build" /\ agent'[turn[c]] = built + 1 /\ cache' = cache
              \/ /\ pc[c] \in {"evict", "keep"} /\ agent' = agent
                 /\ \A k \in Keys : cache'[k] \in {0, cache[k]}
         /\ \/ agent'[turn[c]] = agent[turn[c]]
            \/ agent'[turn[c]] \in {cache[Key(c)], built + 1} /\ cache' = cache
         /\ Holding(c)' => \/ agent'[turn[c]] \in {cache[Key(c)], built + 1}
                           \/ Holding(c) /\ agent'[turn[c]] = agent[turn[c]]
         /\ pc[c] = "keep" => Holding(c)
         /\ talk'[turn[c]] = "running" /\ pc'[c] = "idle" =>
              /\ Holding(c) /\ agent'[turn[c]] = agent[turn[c]]
              /\ \A k \in Keys : cache'[k] = 0
<1>0. /\ turn[c] \in Turns /\ Key(c) \in Keys /\ InPhase(c) /\ NeverTwice
  BY StepMoves, OwnTurn DEF Key, Keys, Callers, TurnInv, PhasesHold
<1> USE <1>0 DEF Holding, TurnInv, TypeOK, At, GoTo, Return, Raised, ClearCache
<1>1. CASE Lookup(c)
  BY <1>1 DEF Lookup
<1>2. CASE Build(c)
  BY <1>2 DEF Build, InPhase
<1>3. CASE Evict(c)
  BY <1>3 DEF Evict
<1>4. CASE Keep(c)
  BY <1>4 DEF Keep
<1>5. CASE StartTalk(c) \/ Interrupt(c)
  BY <1>5 DEF StartTalk, Interrupt
<1>6. CASE Grace(c) \/ CancelledAtEnd(c)
  BY <1>6 DEF Grace, CancelledAtEnd
<1>7. CASE TalkRaised(c) \/ Answered(c)
  BY <1>7 DEF TalkRaised, Answered, agentVars
<1>8. CASE Spawn(c) \/ Collect(c) \/ PollCancelled(c) \/ PollTimedOut(c)
  BY <1>8 DEF Spawn, Collect, PollCancelled, PollTimedOut, GiveUp, agentVars, InPhase
<1>9. CASE AlreadyExited(c) \/ Terminate(c) \/ LeaderObeyed(c) \/ Kill(c)
  BY <1>9 DEF AlreadyExited, Terminate, LeaderObeyed, Kill, Terminated, agentVars, InPhase
<1> QED
  BY <1>1, <1>2, <1>3, <1>4, <1>5, <1>6, <1>7, <1>8, <1>9 DEF Step

LEMMA ApartFromOwnKept ==
  ASSUME TurnInv, ApartFromOwn, [Next]_vars
  PROVE  ApartFromOwn'
<1>0. \A c \in Callers : Key(c)' = Key(c)
  BY ConfigKept DEF Key
<1>1. ASSUME NEW c \in Callers, Ask(c) PROVE ApartFromOwn'
  <2>1. /\ pc[c] = "idle" /\ turn[c] = 0 /\ asked + 1 \in Turns /\ 0 \notin Turns
        /\ talk[asked + 1] = "none" /\ talk' = talk /\ agent' = agent /\ cache' = cache
        /\ asker' = [asker EXCEPT ![asked + 1] = c]
        /\ turn' = [turn EXCEPT ![c] = asked + 1]
        /\ pc'[c] \notin {"evict", "keep", "start", "wait", "grace"}
        /\ \A d \in Callers : d # c => pc'[d] = pc[d] /\ turn'[d] = turn[d]
    BY <1>1, AskMoves DEF TurnInv, TypeOK, TurnsApart, Turns
  <2>2. \A d \in Callers : pc[d] # "idle" => turn[d] # asked + 1
    BY OwnTurn DEF TurnInv, TypeOK
  <2>3. \A d \in Callers : Holds(d)' = Holds(d)
    BY <1>0, <2>1 DEF Holds, Holding
  <2>4. \A t \in LeftBehind' : t \in LeftBehind /\ asker'[t] = asker[t]
    BY <2>1 DEF LeftBehind, TurnInv, TypeOK
  <2>5. \A d \in Callers : pc'[d] # "idle" => asker'[turn'[d]] = d
    BY <2>1, <2>2 DEF ApartFromOwn, TurnInv, TypeOK
  <2>6. \A d \in Callers : pc'[d] \in {"evict", "keep"} => Fresh(d)'
    BY <2>1 DEF ApartFromOwn, Fresh
  <2> QED
    BY <2>1, <2>3, <2>4, <2>5, <2>6 DEF ApartFromOwn
<1>2. ASSUME NEW c \in Callers, Step(c) PROVE ApartFromOwn'
  <2>1. /\ Moved(c) /\ pc[c] # "idle" /\ turn[c] \in Turns /\ asker' = asker
        /\ \A d \in Callers : d # c => turn[d] # turn[c]
    BY <1>2, StepMoves, OwnTurn DEF Moved
  <2>2. /\ \A d \in Callers : d # c => pc'[d] = pc[d] /\ turn'[d] = turn[d]
        /\ \/ pc'[c] # "idle" /\ turn'[c] = turn[c]
           \/ pc'[c] = "idle" /\ turn'[c] = 0
    BY <2>1, MovedTypes DEF Phases
  <2>3. \A t \in Turns : t # turn[c] => talk'[t] = talk[t] /\ agent'[t] = agent[t]
    BY <1>2, StepsOnOwnTurn
  <2>4. /\ \A k \in Keys : cache[k] # built + 1
        /\ \A t \in Turns : agent[t] # built + 1
        /\ \A d \in Callers : Key(d) \in Keys
    <3>1. built \in Nat /\ \A t \in Turns : agent[t] \in 0..built
      BY DEF TurnInv, TypeOK
    <3>2. \A k \in Keys : cache[k] \in Nat /\ cache[k] <= built
      BY DEF TurnInv, TypeOK, BuiltBound, Agents
    <3> QED
      BY <3>1, <3>2 DEF Key, Keys, Callers
  <2>5. \A d \in Callers : pc'[d] # "idle" => asker'[turn'[d]] = d
    BY <2>1, <2>2 DEF ApartFromOwn
  <2>6. ASSUME NEW d \in Callers, pc'[d] \in {"evict", "keep"} PROVE Fresh(d)'
    <3>1. CASE d = c
      <4>1. turn'[c] = turn[c]
        BY <2>2, <2>6, <3>1
      <4>2. CASE pc[c] = "build" /\ agent'[turn[c]] = built + 1 /\ cache' = cache
        BY <2>3, <2>4, <3>1, <4>1, <4>2 DEF Fresh
      <4>3. CASE /\ pc[c] \in {"evict", "keep"} /\ agent' = agent
                 /\ \A k \in Keys : cache'[k] \in {0, cache[k]}
        <5>1. Fresh(c) /\ agent[turn[c]] # 0
          BY <4>3 DEF ApartFromOwn, TurnInv, PhasesHold, InPhase, Holding
        <5> QED
          BY <3>1, <4>1, <4>3, <5>1 DEF Fresh
      <4> QED
        BY <1>2, <2>6, <3>1, <4>2, <4>3, StepAgents
    <3>2. CASE d # c
      <4>1. pc[d] \in {"evict", "keep"} /\ turn'[d] = turn[d]
        BY <2>2, <2>6, <3>2
      <4>2. turn[d] \in Turns /\ turn[d] # turn[c] /\ Fresh(d) /\ agent[turn[d]] # 0
        BY <2>1, <3>2, <4>1, OwnTurn DEF ApartFromOwn, TurnInv, PhasesHold, InPhase, Holding
      <4>3. agent'[turn[d]] = agent[turn[d]]
        BY <2>3, <4>2
      <4>4. \A k \in Keys : cache'[k] # agent[turn[d]]
        BY <1>2, <2>1, <4>2, StepAgents DEF Fresh
      <4>5. agent'[turn[c]] # agent[turn[d]]
        BY <1>2, <2>1, <2>4, <4>2, StepAgents DEF Fresh
      <4> QED
        BY <2>3, <4>1, <4>2, <4>3, <4>4, <4>5 DEF Fresh
    <3> QED
      BY <3>1, <3>2
  <2>7. \A t \in LeftBehind' : t # turn[c] => t \in LeftBehind /\ agent'[t] = agent[t]
    BY <2>2, <2>3 DEF LeftBehind
  <2>8. ASSUME turn[c] \in LeftBehind'
        PROVE  /\ Holds(c)' = {} /\ agent'[turn[c]] = agent[turn[c]]
               /\ agent[turn[c]] \in Holds(c) /\ asker[turn[c]] = c
    <3>1. talk'[turn[c]] = "running" /\ pc'[c] = "idle"
      BY <2>2, <2>8 DEF LeftBehind
    <3>2. /\ Holding(c) /\ agent'[turn[c]] = agent[turn[c]] /\ \A k \in Keys : cache'[k] = 0
      BY <1>2, <3>1, StepAgents
    <3>3. agent[turn[c]] # 0
      BY <3>2 DEF TurnInv, PhasesHold, InPhase
    <3> QED
      BY <1>0, <2>1, <2>4, <3>1, <3>2, <3>3 DEF Holds, Holding, ApartFromOwn
  <2>9. ASSUME NEW t \in LeftBehind', NEW d \in Callers, asker'[t] = d
        PROVE  agent'[t] \notin Holds(d)'
    <3>1. CASE t = turn[c]
      <4>1. d = c
        BY <2>1, <2>8, <2>9, <3>1
      <4> QED
        BY <2>8, <2>9, <3>1, <4>1
    <3>2. CASE t # turn[c]
      <4>1. /\ t \in LeftBehind /\ t \in Turns /\ agent'[t] = agent[t] /\ asker[t] = d
            /\ agent[t] \notin Holds(d) /\ agent[t] # built + 1
        BY <2>1, <2>4, <2>7, <2>9, <3>2 DEF LeftBehind, ApartFromOwn
      <4>2. agent[t] # 0
        BY <4>1 DEF LeftBehind, TurnInv, PhasesHold
      <4>3. cache'[Key(d)] # agent[t]
        <5>1. cache[Key(d)] # agent[t]
          BY <4>1, <4>2 DEF Holds
        <5>2. pc[c] = "keep" => agent[turn[c]] # agent[t]
          BY <3>2, <4>1 DEF ApartFromOwn, Fresh
        <5> QED
          BY <1>2, <2>4, <4>2, <5>1, <5>2, StepAgents
      <4>4. CASE d = c
        <5>1. Holding(c)' => agent'[turn'[c]] # agent[t]
          BY <1>2, <2>2, <4>1, <4>2, <4>4, StepAgents DEF Holds, Holding
        <5> QED
          BY <1>0, <4>1, <4>3, <4>4, <5>1 DEF Holds
      <4>5. CASE d # c
        <5>1. Holding(d)' => /\ Holding(d) /\ turn'[d] = turn[d]
                             /\ agent'[turn[d]] = agent[turn[d]]
          BY <2>1, <2>2, <2>3, <4>5, OwnTurn DEF Holding
        <5> QED
          BY <1>0, <4>1, <4>2, <4>3, <5>1 DEF Holds
      <4> QED
        BY <4>4, <4>5
    <3> QED
      BY <3>1, <3>2
  <2>10. ASSUME NEW s \in LeftBehind', NEW t \in LeftBehind', s # t, asker'[s] = asker'[t]
         PROVE  agent'[s] # agent'[t]
    <3>1. CASE s # turn[c] /\ t # turn[c]
      BY <2>1, <2>7, <2>10, <3>1 DEF ApartFromOwn
    <3>2. CASE s = turn[c]
      BY <2>1, <2>7, <2>8, <2>10, <3>2 DEF ApartFromOwn
    <3>3. CASE t = turn[c]
      BY <2>1, <2>7, <2>8, <2>10, <3>3 DEF ApartFromOwn
    <3> QED
      BY <3>1, <3>2, <3>3
  <2> QED
    BY <2>5, <2>6, <2>9, <2>10 DEF ApartFromOwn
<1>3. ASSUME NEW c \in Callers, Cancel(c) PROVE ApartFromOwn'
  BY <1>3, CancelMoves DEF ApartFromOwn, Holds, Holding, Fresh, Key, LeftBehind
<1>4. ASSUME NEW t \in Turns, Talk(t) \/ Process(t) PROVE ApartFromOwn'
  <2>1. /\ UNCHANGED <<pc, turn, asker, cache, agent>>
        /\ \A u \in Turns : talk'[u] = "running" => talk[u] = "running"
    BY <1>4, OutsideMoves
  <2>2. LeftBehind' \subseteq LeftBehind /\ \A d \in Callers : Holds(d)' = Holds(d)
    BY <1>0, <2>1 DEF LeftBehind, Holds, Holding
  <2> QED
    BY <2>1, <2>2 DEF ApartFromOwn, Fresh
<1>5. CASE UNCHANGED vars
  BY <1>5 DEF vars, callerVars, agentVars, ApartFromOwn, Holds, Holding, Fresh, Key, LeftBehind
<1> QED
  BY <1>1, <1>2, <1>3, <1>4, <1>5 DEF Next

LEMMA OwnersKept ==
  ASSUME TurnInv, OwnersInv, [Next]_vars
  PROVE  OwnersInv'
  BY ConfigKept, ApartFromOwnKept, OwnersApartKept DEF OwnersInv

(* A running conversation is the one of a caller that holds its agent, or  *)
(* was left behind.                                                        *)
LEMMA RunningHeld ==
  ASSUME TurnInv, NEW t \in Turns, talk[t] = "running", t \notin LeftBehind
  PROVE  \E c \in Callers : /\ turn[c] = t /\ pc[c] # "idle" /\ Holding(c)
                            /\ agent[t] # 0
<1>1. PICK c \in Callers : turn[c] = t
  BY DEF LeftBehind
<1>2. agent[t] # 0 /\ leader[t] = "none" /\ InPhase(c)
  BY DEF TurnInv, PhasesHold, NeverTwice
<1>3. pc[c] # "idle"
  BY <1>1 DEF TurnInv, TurnsApart, Turns
<1>4. Holding(c)
  BY <1>1, <1>2, <1>3 DEF InPhase, Holding, TurnInv, TypeOK
<1> QED
  BY <1>1, <1>2, <1>3, <1>4

(* With a key for each caller nobody else has the agent of a running       *)
(* conversation.                                                           *)
LEMMA OwnKeysExclusive ==
  ASSUME TurnInv, OwnersApart, NEW s \in Turns, NEW t \in Turns, s # t,
         talk[s] = "running", talk[t] = "running"
  PROVE  agent[s] # agent[t]
<1>1. ASSUME NEW u \in Turns, talk[u] = "running", u \notin LeftBehind
      PROVE  \E c \in Callers : turn[c] = u /\ agent[u] \in Owns(c)
  BY <1>1, RunningHeld DEF Owns
<1>3. CASE s \in LeftBehind /\ t \in LeftBehind
  BY <1>3 DEF OwnersApart
<1>4. CASE s \in LeftBehind /\ t \notin LeftBehind
  BY <1>1, <1>4 DEF OwnersApart
<1>5. CASE s \notin LeftBehind /\ t \in LeftBehind
  BY <1>1, <1>5 DEF OwnersApart
<1>6. CASE s \notin LeftBehind /\ t \notin LeftBehind
  <2>1. PICK c \in Callers : turn[c] = s /\ agent[s] \in Owns(c)
    BY <1>1, <1>6
  <2>2. PICK d \in Callers : turn[d] = t /\ agent[t] \in Owns(d)
    BY <1>1, <1>6
  <2> QED
    BY <2>1, <2>2 DEF OwnersApart
<1> QED
  BY <1>3, <1>4, <1>5, <1>6

(* Shared or not, two turns of one caller never run on the same agent.     *)
LEMMA CallerExclusive ==
  ASSUME TurnInv, ApartFromOwn, NEW s \in Turns, NEW t \in Turns, s # t,
         talk[s] = "running", talk[t] = "running", asker[s] = asker[t]
  PROVE  agent[s] # agent[t]
<1>1. ASSUME NEW u \in Turns, talk[u] = "running", u \notin LeftBehind
      PROVE  \E c \in Callers : turn[c] = u /\ asker[u] = c /\ agent[u] \in Holds(c)
  BY <1>1, RunningHeld DEF Holds, ApartFromOwn
<1>3. CASE s \in LeftBehind /\ t \in LeftBehind
  BY <1>3 DEF ApartFromOwn
<1>4. CASE s \in LeftBehind /\ t \notin LeftBehind
  BY <1>1, <1>4 DEF ApartFromOwn
<1>5. CASE s \notin LeftBehind /\ t \in LeftBehind
  BY <1>1, <1>5 DEF ApartFromOwn
<1>6. CASE s \notin LeftBehind /\ t \notin LeftBehind
  BY <1>1, <1>6
<1> QED
  BY <1>3, <1>4, <1>5, <1>6

LEMMA ApartExclusive ==
  ASSUME TurnInv, OwnersInv
  PROVE  AgentExclusive
<1> SUFFICES ASSUME NEW s \in Turns, NEW t \in Turns, s # t,
                    talk[s] = "running", talk[t] = "running", agent[s] = agent[t]
             PROVE  config.shared /\ asker[s] # asker[t]
  BY DEF AgentExclusive
<1>1. config.shared
  BY OwnKeysExclusive DEF OwnersInv
<1>2. asker[s] # asker[t]
  BY CallerExclusive DEF OwnersInv
<1> QED
  BY <1>1, <1>2

-----------------------------------------------------------------------------
(* The theorems. *)

LEMMA TurnInvHolds == Spec => [](TurnInv /\ OwnersInv)
<1>1. TurnInv /\ OwnersInv /\ [Next]_vars => (TurnInv /\ OwnersInv)'
  BY TurnKept, OwnersKept
<1> QED
  BY <1>1, InitTurns, PTL DEF Spec

(* The state of callers, agents and processes keeps its types; one agent   *)
(* for each turn and the prewarmed one are enough.                         *)
THEOREM TurnTypeCorrect == Spec => []TypeOK
<1>1. TurnInv => TypeOK
  BY DEF TurnInv
<1> QED
  BY <1>1, TurnInvHolds, PTL

(* However many turns are asked, cancelled and abandoned, `hermes chat'    *)
(* gets a request only if the agent never began it or failed with it.      *)
THEOREM RequestsRunOnce == Spec => []NeverTwice
<1>1. TurnInv => NeverTwice
  BY DEF TurnInv, PhasesHold
<1> QED
  BY <1>1, TurnInvHolds, PTL

(* Shared or not, an agent never runs two conversations of one caller,     *)
(* also not one that a cancelled turn of long ago has left running; and    *)
(* with a key for each caller never two conversations at all.              *)
THEOREM AgentsExclusive == Spec => []AgentExclusive
  BY ApartExclusive, TurnInvHolds, PTL

=============================================================================
