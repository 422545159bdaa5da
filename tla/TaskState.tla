------------------------------ MODULE TaskState -----------------------------
(***************************************************************************)
(* What the stored working state of a task promises its readers: it belongs *)
(* to one session, and changes by one whole event at a time.  A tool call   *)
(* becomes pending and stops being pending, a note is added, a decision is  *)
(* taken and may replace one in force; nothing else is lost or comes back.  *)
(* Module SessionJournal implements it.                                    *)
(***************************************************************************)
EXTENDS Naturals

CONSTANTS Sessions, Executions

VARIABLE state

NoState == [session |-> "none", pending |-> {}, notes |-> {}, decisions |-> {}, retired |-> {}]

TaskInit == state = NoState

(* A session of the task begins with its input.                             *)
BeginSession(s) == s # state.session /\ state' = [NoState EXCEPT !.session = s]

OpenCall(e) == e \notin state.pending /\ state' = [state EXCEPT !.pending = @ \cup {e}]

CloseCall(e) == e \in state.pending /\ state' = [state EXCEPT !.pending = @ \ {e}]

AddNote == \E n \in state'.notes \ state.notes : state' = [state EXCEPT !.notes = @ \cup {n}]

(* A decision replaces one that is in force, or none.                       *)
TakeDecision ==
    \E n \in state'.decisions, old \in {{}} \cup {{d} : d \in state.decisions} :
        state' = [state EXCEPT !.decisions = (@ \ old) \cup {n}, !.retired = @ \cup old]

TaskNext ==
    \/ \E s \in Sessions : BeginSession(s)
    \/ \E e \in Executions : OpenCall(e) \/ CloseCall(e)
    \/ AddNote \/ TakeDecision

TaskSpec == TaskInit /\ [][TaskNext]_state
=============================================================================
