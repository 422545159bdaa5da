----------------------------- MODULE ModelStep ------------------------------
(***************************************************************************)
(* The model steps of one run (run_inner in harness-runtime, lib.rs) and   *)
(* the store transactions they make (harness-store-sqlite, store/run.rs    *)
(* and store/mod.rs), on top of BudgetLedger.  One call of run_inner is    *)
(*                                                                         *)
(*   claim the run -> enqueue a command -> freeze the step, with the       *)
(*   reservation of its first attempt -> attempts -> settle                *)
(*                                                                         *)
(* and every arrow is a place where the host can be replaced by another,   *)
(* or the store can refuse.  A host that was replaced is not told: it goes *)
(* on until its next transaction, which is fenced.                         *)
(*                                                                         *)
(* The run charges the account RunBudget, which others charge too.  The    *)
(* i-th step and its n-th attempt reserve as the operation <<i, n>>.       *)
(***************************************************************************)
EXTENDS BudgetLedger, Sequences

CONSTANTS
    RunBudget,      \* the account of the run
    RunLimit,       \* its limit
    Bound,          \* what an attempt may use: prompt estimate and output reservation
    Usages,         \* what an attempt may turn out to use
    Elsewhere,      \* the operations of other runs on the account
    MaxAttempts,    \* config.max_attempts
    MaxCalls,       \* bound on the calls of run_inner
    MaxHosts        \* bound on the hosts that open the store

ASSUME StepAssumption ==
    /\ RunBudget \in Accounts
    /\ Usages \subseteq Tokens
    /\ RunLimit \in Tokens \ {0} /\ Bound \in Tokens \ {0}
    /\ MaxAttempts \in Nat \ {0} /\ MaxCalls \in Nat /\ MaxHosts \in Nat \ {0}
    /\ Operations = Elsewhere \cup ((1..MaxCalls) \X (1..MaxAttempts))
    /\ Elsewhere \cap ((1..MaxCalls) \X (1..MaxAttempts)) = {}

Hosts == 1..MaxHosts

VARIABLES
    generation,     \* host_epoch.generation
    run,            \* the runs row
    steps,          \* run_steps, by step_index
    commands,       \* runtime_commands
    worker,         \* each host's call of run_inner
    dispatched      \* the attempts that were sent to the provider

runVars == <<run, steps, commands>>
stepVars == <<budgetVars, generation, runVars, worker, dispatched>>

Terminal == {"completed", "failed", "canceled"}

NoWorker == [pc |-> "off", revision |-> 0, command |-> 0, step |-> 0, attempt |-> 0,
             reserved |-> 0, error |-> "none", result |-> FALSE]

WorkerRecord ==
    [pc: {"off", "idle", "claimed", "enqueued", "ready", "reserved", "waiting", "answered",
          "measured", "error", "backoff", "failing", "unstepped", "unfinished", "gone"},
     revision: Nat, command: 0..MaxCalls, step: 0..MaxCalls,
     attempt: 0..MaxAttempts, reserved: 0..MaxAttempts,
     error: {"none", "canceled", "retryable", "permanent"}, result: BOOLEAN]

StepTypeOK ==
    /\ BudgetTypeOK
    /\ generation \in Hosts
    /\ run \in [state: {"none", "running", "paused"} \cup Terminal, owner: 0..MaxHosts, revision: Nat]
    /\ steps \in Seq([state: {"frozen", "streamed", "failed", "canceled"}, command: 1..MaxCalls])
    /\ commands \in Seq([state: {"claimed", "completed", "pending", "canceled"},
                         owner: Hosts, attempts: 1..MaxAttempts])
    /\ worker \in [Hosts -> WorkerRecord]
    /\ dispatched \in SUBSET Operations

(* The account of the run is open before its first call.                    *)
AccountOpened ==
    /\ open = {RunBudget}
    /\ parent = [a \in Accounts |-> NoAccount]
    /\ limit = [a \in Accounts |-> IF a = RunBudget THEN RunLimit ELSE 0]
    /\ spent = [a \in Accounts |-> 0]
    /\ reservation = [o \in Operations |-> NoReservation]

RunInit ==
    /\ generation = 1
    /\ run = [state |-> "none", owner |-> 0, revision |-> 0]
    /\ steps = <<>> /\ commands = <<>> /\ dispatched = {}
    /\ worker = [h \in Hosts |-> IF h = 1 THEN [NoWorker EXCEPT !.pc = "idle"] ELSE NoWorker]

StepInit == AccountOpened /\ RunInit

At(h, pc) == worker[h].pc = pc

Go(h, pc) == worker' = [worker EXCEPT ![h].pc = pc]

(* begin_write and assert_fence_in_tx.                                      *)
Fenced(h) == generation = h

(* The operation whose reservation the host holds (attempt_reservation).    *)
Held(h) == <<worker[h].step, worker[h].reserved>>

-----------------------------------------------------------------------------
(* Another host opens the store (acquire_fence).                            *)
Takeover ==
    /\ generation < MaxHosts
    /\ generation' = generation + 1
    /\ worker' = [worker EXCEPT ![generation + 1].pc = "idle"]
    /\ UNCHANGED <<budgetVars, runVars, dispatched>>

(* Another run on the same account reserves, and settles.                   *)
OtherRun(o) ==
    /\ \/ Reserve(o, RunBudget, Bound)
       \/ \E used \in Usages : SettleMeasured(o, used)
    /\ UNCHANGED <<generation, runVars, worker, dispatched>>

-----------------------------------------------------------------------------
(* claim_run, start_run: the run of the input is opened, or found; an       *)
(* unfinished run of another host is taken over.                            *)
ClaimRun(h) ==
    /\ At(h, "idle") /\ Fenced(h) /\ Len(commands) < MaxCalls
    /\ run' = IF run.state = "none" THEN [state |-> "running", owner |-> h, revision |-> 1]
              ELSE IF run.state \in Terminal THEN run
              ELSE [run EXCEPT !.owner = h]
    /\ worker' = [worker EXCEPT ![h] = [NoWorker EXCEPT !.pc = "claimed", !.revision = run'.revision]]
    /\ UNCHANGED <<budgetVars, generation, steps, commands, dispatched>>

(* enqueue_claimed_runtime_command.                                         *)
EnqueueCommand(h) ==
    /\ At(h, "claimed") /\ Fenced(h)
    /\ commands' = Append(commands, [state |-> "claimed", owner |-> h, attempts |-> 1])
    /\ worker' = [worker EXCEPT ![h].pc = "enqueued", ![h].command = Len(commands) + 1]
    /\ UNCHANGED <<budgetVars, generation, run, steps, dispatched>>

(* A mutant: a step is frozen whatever the state of the run.                *)
FreezeStepOfAny(h) ==
    /\ At(h, "enqueued") /\ Fenced(h)
    /\ run.owner = h /\ run.revision = worker[h].revision
    /\ Reserve(<<Len(steps) + 1, 1>>, RunBudget, Bound)
    /\ steps' = Append(steps, [state |-> "frozen", command |-> worker[h].command])
    /\ run' = [run EXCEPT !.revision = @ + 1]
    /\ worker' = [worker EXCEPT ![h].pc = "ready", ![h].revision = @ + 1,
                                ![h].step = Len(steps) + 1, ![h].attempt = 1, ![h].reserved = 1]
    /\ UNCHANGED <<generation, commands, dispatched>>

(* freeze_step, freeze_run_step: the step, the reservation of its first     *)
(* attempt and the next revision of the run, in one transaction.            *)
FreezeStep(h) ==
    /\ At(h, "enqueued") /\ Fenced(h)
    /\ run.owner = h /\ run.state = "running" /\ run.revision = worker[h].revision
    /\ Reserve(<<Len(steps) + 1, 1>>, RunBudget, Bound)
    /\ steps' = Append(steps, [state |-> "frozen", command |-> worker[h].command])
    /\ run' = [run EXCEPT !.revision = @ + 1]
    /\ worker' = [worker EXCEPT ![h].pc = "ready", ![h].revision = @ + 1,
                                ![h].step = Len(steps) + 1, ![h].attempt = 1, ![h].reserved = 1]
    /\ UNCHANGED <<generation, commands, dispatched>>

-----------------------------------------------------------------------------
(* The attempt loop, cancelled before a dispatch.  The reservation held is  *)
(* released; after a retry it is the one of the attempt before, which is    *)
(* done already and stays as it is (release_budget_reservation).            *)
CancelBeforeDispatch(h) ==
    /\ At(h, "ready") /\ Fenced(h)
    /\ IF Done(reservation[Held(h)]) THEN UNCHANGED budgetVars ELSE Release(Held(h))
    /\ worker' = [worker EXCEPT ![h].pc = "failing", ![h].error = "canceled"]
    /\ UNCHANGED <<generation, runVars, dispatched>>

(* A retry reserves before it is sent.                                      *)
ReserveRetry(h) ==
    /\ At(h, "ready") /\ Fenced(h) /\ worker[h].attempt > 1
    /\ Reserve(<<worker[h].step, worker[h].attempt>>, RunBudget, Bound)
    /\ worker' = [worker EXCEPT ![h].pc = "reserved", ![h].reserved = worker[h].attempt]
    /\ UNCHANGED <<generation, runVars, dispatched>>

(* The attempt is sent to the provider: no transaction, so a host that was  *)
(* replaced sends it too.                                                   *)
Dispatch(h) ==
    /\ At(h, "reserved") \/ (At(h, "ready") /\ worker[h].attempt = 1)
    /\ dispatched' = dispatched \cup {<<worker[h].step, worker[h].attempt>>}
    /\ Go(h, "waiting")
    /\ UNCHANGED <<budgetVars, generation, runVars>>

(* The provider answers, or it fails, or the call is cancelled.             *)
ProviderReturns(h) ==
    /\ At(h, "waiting")
    /\ \/ Go(h, "answered")
       \/ \E error \in {"canceled", "retryable", "permanent"} :
              worker' = [worker EXCEPT ![h].pc = "error", ![h].error = error]
    /\ UNCHANGED <<budgetVars, generation, runVars, dispatched>>

(* settle_attempt: the measured usage, which may be above the bound.        *)
SettleAttempt(h) ==
    /\ At(h, "answered") /\ Fenced(h)
    /\ \E used \in Usages : SettleMeasured(Held(h), used)
    /\ Go(h, "measured")
    /\ UNCHANGED <<generation, runVars, dispatched>>

(* A mutant: a failed attempt costs nothing.                                *)
SettleFailedFree(h) ==
    /\ At(h, "error") /\ Fenced(h)
    /\ Release(Held(h))
    /\ Go(h, "failing")
    /\ UNCHANGED <<generation, runVars, dispatched>>

(* A mutant: a transient failure is sent again, as often as it happens.     *)
SettleFailedResend(h) ==
    /\ At(h, "error") /\ Fenced(h)
    /\ \/ SettleUnknown(Held(h)) /\ Go(h, "failing")
       \/ worker[h].error = "retryable" /\ UNCHANGED budgetVars /\ Go(h, "waiting")
    /\ UNCHANGED <<generation, runVars, dispatched>>

(* A failed attempt keeps its bound charged.  A transient failure with      *)
(* attempts left is retried, unless the provider says to wait too long.     *)
SettleFailed(h) ==
    /\ At(h, "error") /\ Fenced(h)
    /\ SettleUnknown(Held(h))
    /\ \/ Go(h, "failing")
       \/ /\ worker[h].error = "retryable" /\ worker[h].attempt < MaxAttempts
          /\ Go(h, "backoff")
    /\ UNCHANGED <<generation, runVars, dispatched>>

CancelDuringBackoff(h) ==
    /\ At(h, "backoff")
    /\ worker' = [worker EXCEPT ![h].pc = "failing", ![h].error = "canceled"]
    /\ UNCHANGED <<budgetVars, generation, runVars, dispatched>>

(* bump_runtime_command_attempt.                                            *)
BumpAttempt(h) ==
    /\ At(h, "backoff") /\ Fenced(h)
    /\ commands[worker[h].command].owner = h
    /\ commands[worker[h].command].attempts < MaxAttempts
    /\ commands' = [commands EXCEPT ![worker[h].command].attempts = @ + 1,
                                    ![worker[h].command].state = "claimed"]
    /\ worker' = [worker EXCEPT ![h].pc = "ready", ![h].attempt = @ + 1]
    /\ UNCHANGED <<budgetVars, generation, run, steps, dispatched>>

-----------------------------------------------------------------------------
(* complete_runtime_command_settling_step: the command and the step, in one *)
(* transaction.  The call returns with its result.                          *)
CompleteStep(h) ==
    /\ At(h, "measured") /\ Fenced(h)
    /\ commands[worker[h].command].owner = h
    /\ commands' = [commands EXCEPT ![worker[h].command].state = "completed"]
    /\ steps' = [steps EXCEPT ![worker[h].step].state = "streamed"]
    /\ worker' = [worker EXCEPT ![h].pc = "idle", ![h].result = TRUE]
    /\ UNCHANGED <<budgetVars, generation, run, dispatched>>

(* A call that failed writes three rows, and ignores when it cannot: the    *)
(* command, the step and the run.                                           *)
Failure(h) == IF worker[h].error = "canceled" THEN "canceled" ELSE "failed"

FailCommand(h) ==
    /\ At(h, "failing")
    /\ \/ /\ Fenced(h) /\ commands[worker[h].command].owner = h
          /\ commands' = [commands EXCEPT ![worker[h].command].state =
                             IF Failure(h) = "canceled" THEN "canceled" ELSE "pending"]
       \/ UNCHANGED commands
    /\ Go(h, "unstepped")
    /\ UNCHANGED <<budgetVars, generation, run, steps, dispatched>>

FailStep(h) ==
    /\ At(h, "unstepped")
    /\ \/ Fenced(h) /\ steps' = [steps EXCEPT ![worker[h].step].state = Failure(h)]
       \/ UNCHANGED steps
    /\ Go(h, "unfinished")
    /\ UNCHANGED <<budgetVars, generation, run, commands, dispatched>>

(* finish_run, for the run as this host last saw it.                        *)
FinishRun(h, state) ==
    /\ Fenced(h)
    /\ run.owner = h /\ run.revision = worker[h].revision
    /\ run' = [run EXCEPT !.state = state, !.revision = @ + 1]

FailRun(h) ==
    /\ At(h, "unfinished")
    /\ FinishRun(h, Failure(h)) \/ UNCHANGED run
    /\ worker' = [worker EXCEPT ![h] = [NoWorker EXCEPT !.pc = "idle"]]
    /\ UNCHANGED <<budgetVars, generation, steps, commands, dispatched>>

(* The driver ends the turn after a step, for the reason it stopped.  A     *)
(* turn that a bound stopped leaves its run running: no step.               *)
EndTurn(h) ==
    /\ At(h, "idle") /\ worker[h].result
    /\ \E state \in Terminal \cup {"paused"} : FinishRun(h, state)
    /\ worker' = [worker EXCEPT ![h].result = FALSE]
    /\ UNCHANGED <<budgetVars, generation, steps, commands, dispatched>>

(* A transaction of the call is refused (a stale fence, an owner or a       *)
(* revision that moved, an exhausted budget) or fails, or the host refuses  *)
(* to build the request: the call returns the error and leaves what it      *)
(* wrote.  Failing calls ignore it (FailCommand to FailRun).                *)
CallAborts(h) ==
    /\ worker[h].pc \in {"claimed", "enqueued", "ready", "answered", "measured", "error", "backoff"}
    /\ worker' = [worker EXCEPT ![h] = [NoWorker EXCEPT !.pc = IF Fenced(h) THEN "idle" ELSE "gone"]]
    /\ UNCHANGED <<budgetVars, generation, runVars, dispatched>>

-----------------------------------------------------------------------------
CallStep(h) ==
    \/ EnqueueCommand(h) \/ FreezeStep(h)
    \/ CancelBeforeDispatch(h) \/ ReserveRetry(h) \/ Dispatch(h) \/ ProviderReturns(h)
    \/ SettleAttempt(h) \/ SettleFailed(h) \/ CancelDuringBackoff(h) \/ BumpAttempt(h)
    \/ CompleteStep(h) \/ FailCommand(h) \/ FailStep(h) \/ FailRun(h) \/ CallAborts(h)

StepNext ==
    \/ Takeover
    \/ \E o \in Elsewhere : OtherRun(o)
    \/ \E h \in Hosts : ClaimRun(h) \/ CallStep(h) \/ EndTurn(h)

(* A host that lives runs its call: every await of it ends, the provider's  *)
(* streams by their timeouts.                                               *)
StepSpec == StepInit /\ [][StepNext]_stepVars /\ \A h \in Hosts : WF_stepVars(CallStep(h))

-----------------------------------------------------------------------------
(* What was sent to the provider is on the books: its step is durable, and  *)
(* its reservation was made and is never given back, whatever was retried,  *)
(* cancelled, taken over or refused afterwards (the attempt loop of         *)
(* run_inner, release_budget_reservation).                                  *)
DispatchIsCharged ==
    \A o \in dispatched :
        /\ o[1] \in DOMAIN steps
        /\ reservation[o].state \in {"reserved", "settled", "unknown"}

(* A step whose outcome is recorded holds nothing back: no attempt of it is *)
(* still reserved (run_inner settles or releases before it settles a step). *)
RecordedStepIsSettled ==
    \A i \in DOMAIN steps : steps[i].state # "frozen" =>
        \A n \in 1..MaxAttempts : reservation[<<i, n>>].state # "reserved"

(* A command is completed exactly when its step is streamed: there is no    *)
(* state, and so no crash, between the two                                  *)
(* (complete_runtime_command_settling_step).                                *)
CommandAndStepAgree ==
    \A c \in DOMAIN commands :
        commands[c].state = "completed" <=>
            \E i \in DOMAIN steps : steps[i].command = c /\ steps[i].state = "streamed"

(* A finished run is finished: no host, old or new, gives it another state  *)
(* or another step (the revision, owner and fence checks of freeze_run_step *)
(* and finish_run, which does not look at the state).                       *)
FinishedRunStays ==
    [][run.state \in Terminal => run'.state = run.state /\ Len(steps') = Len(steps)]_stepVars

(* A call of run_inner that was started returns, after at most MaxAttempts  *)
(* attempts.                                                                *)
CallReturns == \A h \in Hosts : [](At(h, "claimed") => <>(worker[h].pc \in {"idle", "gone"}))

(* The parts of a call's record that a state shows: the types, a charge for *)
(* every request that was sent, no reservation held behind a recorded step, *)
(* and the command and its step in agreement (run_inner).                   *)
StepInv == StepTypeOK /\ DispatchIsCharged /\ RecordedStepIsSettled /\ CommandAndStepAgree
=============================================================================
