--------------------------- MODULE HeavyDelegation ---------------------------
(***************************************************************************)
(* The process-wide HeavyDelegationManager of voice_routing: heavy Hermes  *)
(* turns that run on a background worker while the voice session goes on.  *)
(*                                                                         *)
(* A task is the manager's table entry together with its worker.  The      *)
(* table is split by status: `running' holds the entries whose status is   *)
(* "running", `finished' the "completed" and "error" entries in the order  *)
(* of completed_at, which is the order pop_completed returns them in.  A   *)
(* history is a sequence of exchanges: the request and what Hermes said to *)
(* it, the placeholder "working" or an "answer".  Response texts are left  *)
(* out: an error text is spoken like an answer.                            *)
(***************************************************************************)
EXTENDS Naturals, Sequences, FiniteSets

VARIABLES
  running,   \* entries whose status is "running"
  finished   \* entries that wait for pop_completed, oldest first

delegationVars == <<running, finished>>

Exchange == [req : Nat, said : {"working", "answer"}]

Remember(history, r, words) == Append(history, [req |-> r, said |-> words])

Task   == [req : Nat, history : Seq(Exchange), linked : BOOLEAN]
Result == [req : Nat, history : Seq(Exchange)]

DelegationTypeOK ==
  /\ running \in SUBSET Task
  /\ finished \in Seq(Result)

DelegationInit ==
  /\ running  = {}
  /\ finished = <<>>

-----------------------------------------------------------------------------

(* has_pending: some entry still runs. *)
HasPending == running # {}

(* Faulty variant: no look at the running entries. *)
AlwaysDispatches(enabled) == enabled

(* What dispatch refuses: delegation switched off, or an entry running.    *)
(* The rail may refuse as well; the caller decides that nondeterministically. *)
MayDispatch(enabled) == enabled /\ ~HasPending

(* Faulty variant: the caller's list itself is stored, which the caller    *)
(* then extends with the placeholder.                                      *)
DispatchAliased(r, history, linked) ==
  /\ running' = running \cup {[req |-> r, history |-> Remember(history, r, "working"),
                                linked |-> linked]}
  /\ UNCHANGED finished

(* dispatch stores a copy of the caller's history.  `linked' is FALSE when *)
(* the worker's id_ready.wait(5.0) expired before the id was published:    *)
(* the worker then has no id to report its result under.                   *)
Dispatch(r, history, linked) ==
  /\ running' = running \cup {[req |-> r, history |-> history, linked |-> linked]}
  /\ UNCHANGED finished

(* The worker's _complete or _fail.  A response that came from the agent   *)
(* is in the history it returns; an exception, or an error text of the     *)
(* subprocess path, leaves the history of the dispatch.                    *)
FinishDelegation ==
  \E t \in running :
    \E h \in {t.history, Remember(t.history, t.req, "answer")} :
      /\ t.linked
      /\ running'  = running \ {t}
      /\ finished' = Append(finished, [req |-> t.req, history |-> h])

(* Faulty variant: the entry stays in the table. *)
PeekCompleted ==
  /\ finished # <<>>
  /\ UNCHANGED <<running, finished>>

(* pop_completed: remove the oldest finished entry. *)
PopCompleted ==
  /\ finished # <<>>
  /\ finished' = Tail(finished)
  /\ UNCHANGED running

=============================================================================
