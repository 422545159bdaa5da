------------------------------ MODULE ToolGate ------------------------------
(***************************************************************************)
(* The side-effect boundary of harness-tools (runtime/service.rs) and the  *)
(* store transactions behind it (harness-store-sqlite, store/mod.rs).  A   *)
(* prepared request is approved, and each begin of it is one execution:    *)
(*                                                                         *)
(*    gate checks -> durable intent, which consumes the approval           *)
(*                -> side effect -> durable receipt                        *)
(*                                                                         *)
(* Begins of one request, also with one grant, may run side by side; a     *)
(* host may be replaced by another at any step, and what the old one still *)
(* does is fenced by host_epoch.  A transaction that the store refuses (a  *)
(* stale fence, a sequence another writer took, an approval that is no     *)
(* longer active, a failed write) rolls back, and the caller gives up.     *)
(***************************************************************************)
EXTENDS Integers, Sequences, FiniteSets

CONSTANTS
    Executions,     \* tool execution ids, one per begin
    Requests,       \* prepared requests: one invocation of one exact action
    Approvals,      \* approval ids
    ReadOnly,       \* requests that change nothing (is_read_only)
    Patches,        \* requests to apply a patch, whose post-state can be observed
    TaskUpdates,    \* requests to add a note to the task's projection
    Action,         \* the final action of each request
    NoRequest, NoApproval, NoExecution,
    TaskUpdate,     \* consumed_by of an approval that a task update consumed
    MaxGeneration,  \* bound on the hosts that open the store
    MaxRevision     \* bound on the policy revision

ASSUME ToolAssumption ==
    /\ ReadOnly \subseteq Requests
    /\ Patches \subseteq Requests \ ReadOnly
    /\ TaskUpdates \subseteq Requests \ (ReadOnly \cup Patches)
    /\ DOMAIN Action = Requests
    /\ NoRequest \notin Requests
    /\ NoApproval \notin Approvals
    /\ NoExecution \notin Executions
    /\ TaskUpdate \notin Executions \cup {NoExecution}
    /\ MaxGeneration \in Nat /\ MaxRevision \in Nat

(* Requests for the same action are of the same kind.                       *)
ASSUME ActionAssumption ==
    \A q, r \in Requests : Action[q] = Action[r] =>
        \A Kind \in {ReadOnly, Patches, TaskUpdates} : q \in Kind <=> r \in Kind

VARIABLES
    generation,     \* host_epoch.generation
    revision,       \* ToolPolicy::revision of the current host
    prepared,       \* the PreparedToolRequest a host holds in memory
    approval,       \* tool_approvals rows
    expired,        \* approvals whose expiry has passed
    call,           \* each execution as its host sees it
    intent,         \* tool_intents.status
    receipt,        \* receipts.outcome_state, "refused" for a settled Denied output
    took,           \* executions whose side effect has happened
    applied,        \* patches whose file holds exactly the replacement
    journal         \* the session's events, as far as tool calls write them

toolVars == <<generation, revision, prepared, approval, expired, call, intent, receipt,
              took, applied, journal>>

(* Requests for the same action, of the same or of another invocation.      *)
SameAction(r) == {q \in Requests : Action[q] = Action[r]}

NotPrepared == [host |-> 0, revision |-> 0, denial |-> FALSE]

NoGrant == [state |-> "none", request |-> NoRequest, revision |-> 0, host |-> 0, by |-> NoExecution]

NoCall == [phase |-> "idle", request |-> NoRequest, approval |-> NoApproval, host |-> 0,
           outcome |-> "none"]

Phases == {"idle", "gated", "begun", "ran", "closed"}

Outcomes == {"none", "ok", "conflict", "error"}

ApprovalRow ==
    [state: {"none", "active", "consumed", "revoked"}, request: Requests \cup {NoRequest},
     revision: Nat, host: Nat, by: Executions \cup {NoExecution, TaskUpdate}]

CallRecord ==
    [phase: Phases, request: Requests \cup {NoRequest}, approval: Approvals \cup {NoApproval},
     host: Nat, outcome: Outcomes]

ToolTypeOK ==
    /\ generation \in Nat
    /\ revision \in Nat
    /\ prepared \in [Requests -> [host: Nat, revision: Nat, denial: BOOLEAN]]
    /\ approval \in [Approvals -> ApprovalRow]
    /\ expired \in SUBSET Approvals
    /\ call \in [Executions -> CallRecord]
    /\ intent \in [Executions -> {"none", "recorded", "settled", "outcome_unknown"}]
    /\ receipt \in [Executions -> {"none", "denied", "settled", "refused", "outcome_unknown"}]
    /\ took \in SUBSET Executions
    /\ applied \in SUBSET Patches
    /\ journal \in Seq([kind: {"intent", "receipt", "denied", "task_update"}, of: Executions])

ToolInit ==
    /\ generation = 1
    /\ revision = 1
    /\ prepared = [r \in Requests |-> NotPrepared]
    /\ approval = [a \in Approvals |-> NoGrant]
    /\ expired = {}
    /\ call = [e \in Executions |-> NoCall]
    /\ intent = [e \in Executions |-> "none"]
    /\ receipt = [e \in Executions |-> "none"]
    /\ took = {}
    /\ applied = {}
    /\ journal = <<>>

-----------------------------------------------------------------------------
(* The environment: another host opens the store (acquire_fence), the       *)
(* user changes the mode or confirms a rule (ToolPolicyRules), the clock    *)
(* passes an expiry, someone else edits a patched file.  An outside edit    *)
(* that happens to write exactly a replacement is left out.                 *)

(* The new host starts from its configured policy.  The old one is not      *)
(* told: its executions keep their in-memory state and learn of it at their *)
(* next transaction, if they are still alive at all.                        *)
Takeover ==
    /\ generation < MaxGeneration
    /\ generation' = generation + 1
    /\ revision' = 1
    /\ UNCHANGED <<prepared, approval, expired, call, intent, receipt, took, applied, journal>>

ChangePolicy ==
    /\ revision < MaxRevision
    /\ revision' = revision + 1
    /\ UNCHANGED <<generation, prepared, approval, expired, call, intent, receipt, took, applied, journal>>

Expire(a) ==
    /\ approval[a].state # "none"
    /\ a \notin expired
    /\ expired' = expired \cup {a}
    /\ UNCHANGED <<generation, revision, prepared, approval, call, intent, receipt, took, applied, journal>>

EditOutside(r) ==
    /\ r \in applied
    /\ applied' = applied \ SameAction(r)
    /\ UNCHANGED <<generation, revision, prepared, approval, expired, call, intent, receipt, took, journal>>

-----------------------------------------------------------------------------
(* prepare: the request and the policy it was judged under are snapshotted; *)
(* denial is what the policy of that revision says of the action.           *)
Prepare(r, denial) ==
    /\ prepared[r] = NotPrepared
    /\ prepared' = [prepared EXCEPT ![r] =
                       [host |-> generation, revision |-> revision, denial |-> denial]]
    /\ UNCHANGED <<generation, revision, approval, expired, call, intent, receipt, took, applied, journal>>

(* approve_with_expiry and issue_tool_approval.                             *)
Approve(a, r) ==
    /\ prepared[r].host = generation
    /\ ~prepared[r].denial
    /\ prepared[r].revision = revision
    /\ approval[a].state = "none"
    /\ approval' = [approval EXCEPT ![a] =
                       [state |-> "active", request |-> r, revision |-> prepared[r].revision,
                        host |-> generation, by |-> NoExecution]]
    /\ UNCHANGED <<generation, revision, prepared, expired, call, intent, receipt, took, applied, journal>>

(* A mutant: a consumed approval can be revoked.                             *)
RevokeConsumed(a) ==
    /\ approval[a].state \in {"active", "consumed"}
    /\ approval' = [approval EXCEPT ![a].state = "revoked"]
    /\ UNCHANGED <<generation, revision, prepared, expired, call, intent, receipt, took, applied, journal>>

(* revoke_tool_approval: only an unused approval.                           *)
Revoke(a) ==
    /\ approval[a].state = "active"
    /\ approval' = [approval EXCEPT ![a].state = "revoked"]
    /\ UNCHANGED <<generation, revision, prepared, expired, call, intent, receipt, took, applied, journal>>

-----------------------------------------------------------------------------
(* approval_mismatch: the grant is one this host holds and binds this       *)
(* request under this policy.                                               *)
Binds(a, r) ==
    /\ approval[a].host = generation
    /\ approval[a].request = r
    /\ approval[a].revision = prepared[r].revision
    /\ a \notin expired

(* begin, when a check refuses the call: a changed policy, a policy denial, *)
(* strict isolation, a cancelled turn, no approval or one that does not     *)
(* bind, another workspace, a failed precondition, or a hook or guard       *)
(* before it.  Some of these are inputs, so a call may always be refused.   *)
(* A denied receipt is committed.                                           *)
RecordDenied(e, r) ==
    /\ call[e].phase = "idle"
    /\ prepared[r].host = generation
    /\ call' = [call EXCEPT ![e] = [phase |-> "closed", request |-> r, approval |-> NoApproval,
                                    host |-> generation, outcome |-> "none"]]
    /\ receipt' = [receipt EXCEPT ![e] = "denied"]
    /\ journal' = Append(journal, [kind |-> "denied", of |-> e])
    /\ UNCHANGED <<generation, revision, prepared, approval, expired, intent, took, applied>>

(* A mutant: the gate takes any grant of this host, whatever it binds.       *)
BeginUnbound(e, r, a) ==
    /\ call[e].phase = "idle"
    /\ prepared[r].host = generation
    /\ prepared[r].revision = revision
    /\ ~prepared[r].denial
    /\ approval[a].host = generation
    /\ call' = [call EXCEPT ![e] = [phase |-> "gated", request |-> r, approval |-> a,
                                    host |-> generation, outcome |-> "none"]]
    /\ UNCHANGED <<generation, revision, prepared, approval, expired, intent, receipt, took, applied, journal>>

(* begin, up to the transaction: every check passed.  The state of the      *)
(* approval is not looked at here.                                          *)
Begin(e, r, a) ==
    /\ call[e].phase = "idle"
    /\ prepared[r].host = generation
    /\ prepared[r].revision = revision
    /\ ~prepared[r].denial
    /\ Binds(a, r)
    /\ call' = [call EXCEPT ![e] = [phase |-> "gated", request |-> r, approval |-> a,
                                    host |-> generation, outcome |-> "none"]]
    /\ UNCHANGED <<generation, revision, prepared, approval, expired, intent, receipt, took, applied, journal>>

(* begin_write, assert_fence_in_tx: every transaction first finds its host  *)
(* to be the current one.                                                   *)
Fenced(e) == call[e].host = generation

(* A mutant: the state of the approval is not checked.                       *)
ConsumeAnyState(e, by) ==
    /\ approval[call[e].approval].state # "none"
    /\ call[e].approval \notin expired
    /\ approval' = [approval EXCEPT ![call[e].approval].state = "consumed",
                                    ![call[e].approval].by = by]

(* consume_tool_approval_inner: state, expiry, then the one-use update.  It  *)
(* compares the row with the grant, and validate_tool_intent_commit the     *)
(* grant with the action, not with the invocation: that is left to the gate.*)
ConsumeApproval(e, by) ==
    /\ approval[call[e].approval].state = "active"
    /\ call[e].approval \notin expired
    /\ Action[approval[call[e].approval].request] = Action[call[e].request]
    /\ approval' = [approval EXCEPT ![call[e].approval].state = "consumed",
                                    ![call[e].approval].by = by]

(* commit_tool_intent: the approval is consumed and the intent recorded in  *)
(* one transaction.                                                         *)
CommitToolIntent(e) ==
    /\ call[e].phase = "gated"
    /\ call[e].request \notin TaskUpdates
    /\ Fenced(e)
    /\ intent[e] = "none"
    /\ ConsumeApproval(e, e)
    /\ intent' = [intent EXCEPT ![e] = "recorded"]
    /\ call' = [call EXCEPT ![e].phase = "begun"]
    /\ journal' = Append(journal, [kind |-> "intent", of |-> e])
    /\ UNCHANGED <<generation, revision, prepared, expired, receipt, took, applied>>

(* execute_task_update, commit_tool_task_update: the note is a projection   *)
(* change under a consumed approval, with neither intent nor receipt.       *)
CommitToolTaskUpdate(e) ==
    /\ call[e].phase = "gated"
    /\ call[e].request \in TaskUpdates
    /\ Fenced(e)
    /\ ConsumeApproval(e, TaskUpdate)
    /\ call' = [call EXCEPT ![e].phase = "closed"]
    /\ journal' = Append(journal, [kind |-> "task_update", of |-> e])
    /\ UNCHANGED <<generation, revision, prepared, expired, intent, receipt, took, applied>>

(* Either transaction refused: the error goes to the caller.                *)
CommitRefused(e) ==
    /\ call[e].phase = "gated"
    /\ call' = [call EXCEPT ![e].phase = "closed"]
    /\ UNCHANGED <<generation, revision, prepared, approval, expired, intent, receipt, took, applied, journal>>

-----------------------------------------------------------------------------
(* The side effect of a call whose intent is durable.  It happens while the *)
(* call runs; a process or an external tool whose call failed, was          *)
(* cancelled or lost its host may also act later.                           *)
TakeEffect(e) ==
    /\ e \notin took
    /\ call[e].request \notin ReadOnly
    /\ \/ call[e].phase = "begun"
       \/ /\ call[e].phase \in {"ran", "closed"}
          /\ call[e].outcome = "error"
          /\ call[e].request \notin Patches
    /\ took' = took \cup {e}
    /\ applied' = applied \cup (SameAction(call[e].request) \cap Patches)
    /\ UNCHANGED <<generation, revision, prepared, approval, expired, call, intent, receipt, journal>>

(* run_begun returns: "ok" with an output, "conflict" when the write was    *)
(* refused because its state moved on, "error" for everything else.  Of a   *)
(* dispatcher outside the crate, that a conflict had no effect is assumed,  *)
(* here as in finish_begun.                                                 *)
RunBegun(e, outcome) ==
    /\ call[e].phase = "begun"
    /\ outcome = "ok" => call[e].request \in ReadOnly \/ e \in took
    /\ outcome = "conflict" => e \notin took
    /\ call' = [call EXCEPT ![e].phase = "ran", ![e].outcome = outcome]
    /\ UNCHANGED <<generation, revision, prepared, approval, expired, intent, receipt, took, applied, journal>>

(* A mutant: a failed write settles as a refusal, as a failed read does.     *)
ReceiptForErrorRefused(e) ==
    IF call[e].outcome = "ok" THEN "settled" ELSE "refused"

(* The receipt of a call that ran.  A failed read changed nothing and a     *)
(* conflict wrote nothing: both settle with the error as their output.      *)
ReceiptFor(e) ==
    CASE call[e].outcome = "ok" -> "settled"
      [] call[e].outcome = "conflict" -> "refused"
      [] call[e].request \in ReadOnly -> "refused"
      [] OTHER -> "outcome_unknown"

(* The status commit_tool_settlement gives the intent.                      *)
IntentStatusFor(r) == IF r = "outcome_unknown" THEN "outcome_unknown" ELSE "settled"

(* commit_tool_settlement: one immutable receipt for a recorded intent.     *)
Settle(e, r) ==
    /\ receipt[e] = "none"
    /\ intent[e] = "recorded"
    /\ receipt' = [receipt EXCEPT ![e] = r]
    /\ intent' = [intent EXCEPT ![e] = IntentStatusFor(r)]
    /\ journal' = Append(journal, [kind |-> "receipt", of |-> e])

(* finish_begun, settle.                                                    *)
FinishBegun(e) ==
    /\ call[e].phase = "ran"
    /\ Fenced(e)
    /\ Settle(e, ReceiptFor(e))
    /\ call' = [call EXCEPT ![e].phase = "closed"]
    /\ UNCHANGED <<generation, revision, prepared, approval, expired, took, applied>>

(* The settlement refused: the intent stays recorded.                       *)
FinishRefused(e) ==
    /\ call[e].phase = "ran"
    /\ call' = [call EXCEPT ![e].phase = "closed"]
    /\ UNCHANGED <<generation, revision, prepared, approval, expired, intent, receipt, took, applied, journal>>

(* reconcile_pending: a host that finds a recorded intent settles it from   *)
(* what it can observe and never dispatches.  Nothing keeps it from an      *)
(* intent whose call is still running.                                      *)
ReconcilePending(e) ==
    /\ Settle(e, IF call[e].request \in applied THEN "settled" ELSE "outcome_unknown")
    /\ UNCHANGED <<generation, revision, prepared, approval, expired, call, took, applied>>

ToolNext ==
    \/ Takeover
    \/ ChangePolicy
    \/ \E a \in Approvals : Expire(a) \/ Revoke(a)
    \/ \E r \in Requests : EditOutside(r)
    \/ \E r \in Requests, denial \in BOOLEAN : Prepare(r, denial)
    \/ \E a \in Approvals, r \in Requests : Approve(a, r)
    \/ \E e \in Executions, r \in Requests :
            RecordDenied(e, r) \/ \E a \in Approvals : Begin(e, r, a)
    \/ \E e \in Executions : \/ CommitToolIntent(e)
                             \/ CommitToolTaskUpdate(e)
                             \/ CommitRefused(e)
                             \/ TakeEffect(e)
                             \/ \E outcome \in Outcomes \ {"none"} : RunBegun(e, outcome)
                             \/ FinishBegun(e)
                             \/ FinishRefused(e)
                             \/ ReconcilePending(e)

ToolSpec == ToolInit /\ [][ToolNext]_toolVars

-----------------------------------------------------------------------------
(* A side effect only ever happens under an approval that was given for     *)
(* exactly this request, was not denied by the policy, and was consumed by  *)
(* this very execution: not by another begin with the same grant, not after *)
(* a revocation, and not again after a restart (begin, commit_tool_intent,  *)
(* consume_tool_approval_inner).                                            *)
SideEffectAuthorized ==
    \A e \in took :
        LET a == call[e].approval
        IN  /\ a \in Approvals
            /\ approval[a].state = "consumed"
            /\ approval[a].by = e
            /\ approval[a].request = call[e].request
            /\ ~prepared[call[e].request].denial

(* What a receipt claims is true of the world, whichever of the running     *)
(* call and a reconciling host wrote it and whatever happens afterwards: a  *)
(* settled effect has happened, a denied or refused one never does (settle, *)
(* record_denied, finish_begun, reconcile_pending).  A patch counts as      *)
(* applied when another execution of the same action wrote it.              *)
ReceiptTruthful ==
    \A e \in Executions :
        /\ receipt[e] = "settled" =>
              \/ call[e].request \in ReadOnly
              \/ e \in took
              \/ call[e].request \in Patches /\ \E d \in took : call[d].request \in SameAction(call[e].request)
        /\ receipt[e] \in {"denied", "refused"} => e \notin took

(* The journal of a session can always be folded by recovery, which refuses *)
(* a second intent or a second receipt of an execution and a settlement     *)
(* without its intent (harness-session fold_event): two events of one       *)
(* execution are its intent and then its receipt, and no receipt is alone.  *)
JournalReplays ==
    /\ \A i, j \in DOMAIN journal :
          i < j /\ journal[i].of = journal[j].of => journal[i].kind = "intent" /\ journal[j].kind = "receipt"
    /\ \A j \in DOMAIN journal :
          journal[j].kind = "receipt" => \E i \in 1..(j - 1) : journal[i] = [kind |-> "intent", of |-> journal[j].of]

(* An approval is used by at most one execution, whatever it was for: an    *)
(* action or a task note (consume_tool_approval_inner).                     *)
UsedApproval(e) == \E i \in DOMAIN journal : journal[i] \in
                        {[kind |-> "intent", of |-> e], [kind |-> "task_update", of |-> e]}

ApprovalUsedOnce ==
    \A d, e \in Executions :
        UsedApproval(d) /\ UsedApproval(e) /\ call[d].approval = call[e].approval => d = e

(* The records of the gate agree with each other, whichever hosts, begins   *)
(* and grants met (begin, consume_tool_approval_inner, fold_event).         *)
GateInv == ToolTypeOK /\ JournalReplays /\ ApprovalUsedOnce

(* A consumed or revoked approval, a settled intent and a receipt never     *)
(* change again (revoke_tool_approval, commit_tool_settlement).             *)
RecordsAreFinal ==
    [][/\ \A a \in Approvals :
            approval[a].state \in {"consumed", "revoked"} => approval'[a] = approval[a]
       /\ \A e \in Executions :
            /\ intent[e] \in {"settled", "outcome_unknown"} => intent'[e] = intent[e]
            /\ receipt[e] # "none" => receipt'[e] = receipt[e]]_toolVars

-----------------------------------------------------------------------------
(* The inductive invariant behind SideEffectAuthorized and ReceiptTruthful. *)

(* An approval names a prepared request that the policy did not deny.       *)
GrantsInv ==
    \A a \in Approvals :
        /\ approval[a].state = "none" => approval[a].request = NoRequest
        /\ approval[a].state # "none" =>
              /\ approval[a].request \in Requests
              /\ prepared[approval[a].request].host # 0
              /\ ~prepared[approval[a].request].denial

(* How far an execution is, against what the store holds of it.             *)
PhaseInv ==
    \A e \in Executions :
        /\ call[e].phase \in {"idle", "gated"} => intent[e] = "none" /\ receipt[e] = "none"
        /\ call[e].phase \in {"begun", "ran"} => intent[e] # "none"
        /\ call[e].phase \in {"idle", "gated", "begun"} => call[e].outcome = "none"
        /\ intent[e] = "none" => call[e].outcome = "none"
        /\ call[e].phase # "idle" => call[e].request \in Requests
        /\ call[e].phase = "gated" =>
              /\ call[e].approval \in Approvals
              /\ approval[call[e].approval].state # "none"
              /\ approval[call[e].approval].request = call[e].request

(* A durable intent holds its approval; an effect needs a durable intent.   *)
IntentInv ==
    /\ \A e \in Executions : intent[e] # "none" =>
          /\ call[e].approval \in Approvals
          /\ approval[call[e].approval].state = "consumed"
          /\ approval[call[e].approval].by = e
          /\ approval[call[e].approval].request = call[e].request
    /\ \A e \in took : intent[e] # "none" /\ call[e].request \notin ReadOnly

(* What was recorded of an outcome agrees with the effect.                  *)
OutcomeInv ==
    \A e \in Executions :
        /\ call[e].outcome = "ok" => call[e].request \in ReadOnly \/ e \in took
        /\ call[e].outcome = "conflict" => e \notin took
        /\ intent[e] = "none" => receipt[e] \in {"none", "denied"}
        /\ intent[e] # "none" => receipt[e] # "denied"
        /\ intent[e] = "recorded" => receipt[e] = "none"
        /\ receipt[e] = "refused" =>
              call[e].request \in ReadOnly \/ (call[e].phase = "closed" /\ call[e].outcome = "conflict")

(* A file holds a replacement because some execution wrote it.              *)
AppliedInv == \A r \in applied : \E d \in took : call[d].request \in SameAction(r)

ToolInv ==
    /\ ToolTypeOK /\ generation # 0
    /\ GrantsInv /\ PhaseInv /\ IntentInv /\ OutcomeInv /\ AppliedInv
    /\ ReceiptTruthful
=============================================================================
