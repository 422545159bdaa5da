------------------------------ MODULE ToolBatch -----------------------------
(***************************************************************************)
(* How one turn runs the tool calls of one model answer (harness-tools,    *)
(* runtime/turn_driver.rs), on top of ToolGate.  Calls are gated one at a  *)
(* time, in call order.  Calls that may run side by side are collected and *)
(* run together as a segment; a call that must run alone first waits for   *)
(* the segment before it and then runs to its receipt at once.             *)
(*                                                                         *)
(* Call i is execution i, asks for request batch[i] and is approved, if at *)
(* all, by approval i.  One host is alive throughout; its approvals have   *)
(* no expiry and it does not revoke them.                                  *)
(***************************************************************************)
EXTENDS ToolGate

CONSTANTS
    Batches,        \* the batches a model may ask for: requests in call order
    Alone,          \* the requests that must run alone (runs_alone)
    Questions       \* calls of ask_user

ASSUME BatchAssumption ==
    /\ \A b \in Batches :
          /\ b \in Seq(Requests) /\ \A i, j \in DOMAIN b : b[i] = b[j] => i = j
          /\ DOMAIN b \subseteq Executions
    /\ Approvals = Executions /\ Executions \subseteq Nat
    /\ Alone \subseteq Requests
    /\ Patches \subseteq Alone
    /\ Questions \subseteq Alone \ (Patches \cup TaskUpdates \cup ReadOnly)

VARIABLES
    batch,          \* the batch of this turn
    driver,         \* "gating", "segment" inside run_ready_slots, "done", "failed"
    position,       \* the call being gated
    returned        \* calls of the segment that ran, in completion order (JoinSet)

batchVars == <<toolVars, batch, driver, position, returned>>

Last == Len(batch)

RunsAlone(i) == batch[i] \in Alone

(* The calls with an intent and no settlement: the Ready slots, or the call *)
(* that runs alone.                                                         *)
Ready == {i \in Executions : call[i].phase \in {"begun", "ran"}}

BatchTypeOK ==
    /\ driver \in {"gating", "segment", "done", "failed"}
    /\ position \in 1..(Last + 1)
    /\ returned \in Seq(Executions)

BatchInit ==
    /\ ToolInit
    /\ batch \in Batches
    /\ driver = "gating"
    /\ position = 1
    /\ returned = <<>>

-----------------------------------------------------------------------------
(* The loop over the calls is at a call that was not looked at yet.         *)
AtFreshCall == driver = "gating" /\ position <= Last /\ prepared[batch[position]] = NotPrepared

(* A mutant: a call that must run alone does not wait for the segment.       *)
MayGateAtOnce == AtFreshCall

(* A call that must run alone is gated once the segment before it is done.  *)
MayGate == AtFreshCall /\ (RunsAlone(position) => Ready = {})

(* gate_action: prepare.                                                    *)
GatePrepare ==
    /\ MayGate /\ batch[position] \notin Questions
    /\ \E denial \in BOOLEAN : Prepare(batch[position], denial)
    /\ UNCHANGED <<batch, driver, position, returned>>

(* A slot that is answered without an execution: malformed arguments, a     *)
(* repeated failure, a learned rule, a question that the user answers now,  *)
(* or the user refused, let expire or cancelled the approval.               *)
GateSkip ==
    /\ driver = "gating" /\ position <= Last
    /\ AtFreshCall => MayGate
    /\ call[position].phase = "idle"
    /\ approval[position].state = "none"
    /\ position' = position + 1
    /\ UNCHANGED <<batch, toolVars, driver, returned>>

(* ask_user with nobody to answer now: the question is stored and the turn  *)
(* stops, with the calls after it not looked at.                            *)
AskUser ==
    /\ MayGate /\ batch[position] \in Questions
    /\ driver' = "done"
    /\ UNCHANGED <<batch, toolVars, position, returned>>

(* gate_action: a refusal with a receipt.                                   *)
GateDeny ==
    /\ driver = "gating" /\ position <= Last
    /\ RecordDenied(position, batch[position])
    /\ position' = position + 1
    /\ UNCHANGED <<batch, driver, returned>>

(* resolve_action_approval: allowed by the policy or granted by the user.   *)
GateApprove ==
    /\ driver = "gating" /\ position <= Last
    /\ call[position].phase = "idle"
    /\ Approve(position, batch[position])
    /\ UNCHANGED <<batch, driver, position, returned>>

(* gate_action: begin, up to its transaction.                               *)
GateBegin ==
    /\ driver = "gating" /\ position <= Last
    /\ Begin(position, batch[position], position)
    /\ UNCHANGED <<batch, driver, position, returned>>

(* The intent is durable: the call waits in its slot, or runs alone now.    *)
GateIntent ==
    /\ driver = "gating" /\ position <= Last
    /\ CommitToolIntent(position)
    /\ position' = IF RunsAlone(position) THEN position ELSE position + 1
    /\ UNCHANGED <<batch, driver, returned>>

(* A task update is finished by its transaction; a refused one is an error. *)
GateFinished ==
    /\ driver = "gating" /\ position <= Last
    /\ CommitToolTaskUpdate(position) \/ CommitRefused(position)
    /\ position' = position + 1
    /\ UNCHANGED <<batch, driver, returned>>

-----------------------------------------------------------------------------
(* run_begun of a call that runs alone, and complete_action right after it. *)
RunAlone ==
    /\ driver = "gating" /\ position <= Last
    /\ RunsAlone(position)
    /\ \E outcome \in Outcomes \ {"none"} : RunBegun(position, outcome)
    /\ UNCHANGED <<batch, driver, position, returned>>

CompleteAlone ==
    /\ driver = "gating" /\ position <= Last
    /\ RunsAlone(position)
    /\ FinishBegun(position) \/ FinishRefused(position)
    /\ position' = position + 1
    /\ UNCHANGED <<batch, driver, returned>>

(* A mutant: the last segment is not run.                                    *)
RunReadySlotsBetween ==
    /\ driver = "gating" /\ Ready # {}
    /\ AtFreshCall /\ RunsAlone(position)
    /\ driver' = "segment"
    /\ UNCHANGED <<batch, toolVars, position, returned>>

(* run_ready_slots is entered: before a call that runs alone and after the  *)
(* last call.                                                               *)
RunReadySlots ==
    /\ driver = "gating" /\ Ready # {}
    /\ position > Last \/ (AtFreshCall /\ RunsAlone(position))
    /\ driver' = "segment"
    /\ UNCHANGED <<batch, toolVars, position, returned>>

(* One task of the segment returns.                                         *)
SegmentReturns(i) ==
    /\ driver = "segment"
    /\ \E outcome \in Outcomes \ {"none"} : RunBegun(i, outcome)
    /\ returned' = Append(returned, i)
    /\ UNCHANGED <<batch, driver, position>>

(* join_next: the call that completed first is settled first.  The loop     *)
(* ends when every task was joined.                                         *)
SegmentCompletes ==
    /\ driver = "segment"
    /\ returned # <<>>
    /\ FinishBegun(Head(returned)) \/ FinishRefused(Head(returned))
    /\ returned' = Tail(returned)
    /\ driver' = IF Ready = {Head(returned)} THEN "gating" ELSE "segment"
    /\ UNCHANGED <<batch, position>>

(* A task of the segment panics: the turn ends with an error.               *)
SegmentPanics ==
    /\ driver = "segment"
    /\ \E i \in Ready : call[i].phase = "begun"
    /\ driver' = "failed"
    /\ UNCHANGED <<batch, toolVars, position, returned>>

BatchDone ==
    /\ driver = "gating" /\ position > Last /\ Ready = {}
    /\ driver' = "done"
    /\ UNCHANGED <<batch, toolVars, position, returned>>

(* A side effect: of the call that runs alone, of a call in the running     *)
(* segment, or a late one of a call that failed.                            *)
BatchEffect(i) ==
    /\ call[i].phase = "begun" => RunsAlone(i) \/ driver \in {"segment", "failed"}
    /\ TakeEffect(i)
    /\ UNCHANGED <<batch, driver, position, returned>>

BatchPolicyChange == ChangePolicy /\ UNCHANGED <<batch, driver, position, returned>>

DriverStep ==
    \/ GatePrepare \/ GateSkip \/ AskUser \/ GateDeny \/ GateApprove \/ GateBegin \/ GateIntent \/ GateFinished
    \/ RunAlone \/ CompleteAlone
    \/ RunReadySlots \/ SegmentCompletes \/ SegmentPanics \/ BatchDone
    \/ \E i \in Executions : SegmentReturns(i)

BatchNext == DriverStep \/ BatchPolicyChange \/ \E i \in Executions : BatchEffect(i)

(* The driver awaits one thing at a time, and each of them ends: an         *)
(* approval request and every tool call have a timeout.                     *)
BatchSpec == BatchInit /\ [][BatchNext]_batchVars /\ WF_batchVars(DriverStep)

-----------------------------------------------------------------------------
(* A call that must run alone runs after everything before it is settled    *)
(* and before anything after it has an intent: no other call of the batch   *)
(* is between its intent and its receipt (run_ready_slots before            *)
(* runs_alone).                                                             *)
AloneIsAlone ==
    \A i \in Executions :
        call[i].phase \in {"begun", "ran"} /\ RunsAlone(i) =>
            /\ Ready = {i}
            /\ \A j \in Executions : j > i => call[j].phase = "idle"

(* The batch ends, with every call answered: none is left in a slot, and    *)
(* nobody waits for a segment that never runs (run_ready_slots).            *)
BatchEnds == <>(driver = "failed" \/ (driver = "done" /\ Ready = {}))

(* A batch's calls keep to their order, whatever ran side by side           *)
(* (run_ready_slots, runs_alone).                                           *)
BatchInv == BatchTypeOK /\ AloneIsAlone
=============================================================================
