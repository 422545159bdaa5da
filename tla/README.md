# A TLA+ model of Harness Agents

Harness Agents (`ha`) is a local coding-agent host written in Rust: eleven crates
under `crates/`, with SQLite as the durable authority.  This directory holds TLA+
modules of the parts that decide whether it is correct, the TLC runs that check them
on small instances, and TLAPS proofs of the results that matter most.  `PROJECT.json`
lists components, runs, mutants, findings, hazards and theorems, and maps every
definition to the lines it stands for.

Contents: [the system](#the-system), [the modules](#modules),
[the runs](#runs), [fairness](#fairness), [the finding](#finding),
[divergences met while modelling](#divergences-met-while-modelling),
[the screen's phase](#what-the-screens-phase-does-not-survive), [proofs](#proofs),
[not modelled](#not-modelled), [plan](#plan).

## The system

A user's message becomes one *turn*.  A turn is a loop: call the model, run the tool
calls of its answer, feed the results back, until the model answers in text or a bound
is met.  Everything that must survive the process is a row in SQLite, written in
transactions that first check that the host still owns the store.  Around the turn are
the terminal's controller, child agents with turns of their own, workers of a task
graph, extensions in processes of their own, and background passes over the memory.

| Part | State it keeps | Operations | What is hard | What makes it correct | Module |
|---|---|---|---|---|---|
| Budget ledger (`harness-runtime/control/budget.rs`, `store/run.rs`) | accounts in a forest, one reservation per operation | ensure, reserve, settle, release | many runs charge one parent; usage above the bound; repeated settlement | no account past its limit; books balance; a done reservation stays | `BudgetLedger` |
| Model step (`harness-runtime/lib.rs`, `store/run.rs`) | runs, steps, commands, what was sent | claim, freeze, dispatch, settle, retry, fail, finish | a host replaced between any two transactions; retries; ignored errors on the failure path | what was sent is charged; command and step agree; a finished run stays finished | `ModelStep` |
| Tool gate (`harness-tools/runtime/service.rs`, `store/mod.rs`) | requests, approvals, intents, receipts, journal | prepare, approve, revoke, begin, run, settle, deny, reconcile | begins side by side; policy change, revocation, takeover between check and use; unknown outcomes | effects are authorized; receipts are true | `ToolGate` |
| Tool batch (`turn_driver.rs`) | slots of the calls of one answer | gate, run a segment, run alone, ask | completion order; a write among lookups; a question in the middle | what must run alone does; every call is settled | `ToolBatch` |
| Turn loop and inbox (`turn_driver.rs`, `control/inbox.rs`, `service.rs`) | steps, held steering, `run_commands` rows, messages in flight | model answer, claims, queue, carry, stops | senders race the end of the turn; many ways to continue | a message is read once, in order, and none is lost; the turn ends | `TurnSteering` |
| Session journal (`harness-session`, `store/mod.rs`) | events, the stored working state, snapshots, the task's lease | admit, append, decide, note, snapshot, recover, take over | two writers of one projection; a recovery against a cache | the stored state is the fold of the journal; a recovery returns that fold | `SessionJournal`, `TaskState` |
| Durable questions (`human_input.rs`, `store/run.rs`) | question rows, what a pause carries | ask, answer, cancel, expire, crash | a late or second answer from another terminal; failed commits | the first answer in its time is the record | `Questions` |
| Controller of the terminal (`controller.rs`) | phase, panels, queues, the grant of a turn | submit, answer, stop, the service's events | events of one turn that arrive in another; approvals that expire on screen | no second turn beside a running one; nothing typed is lost or sent twice | `SessionScreen` |
| Scheduler (`harness-orchestrator/scheduler.rs`) | slots, reservations, live workers, an outcome channel | dispatch, run, settle, wait, cancel, drain | a waiting parent holds a slot; admission races shutdown | one worker per task; waits and drains end | `WorkerScheduler` |
| Task graphs (`contracts.rs`) | none | compile | cycles, depths, nested scopes | a compiled plan can be run side by side | `TaskPlan` |
| Child agents (`delegation.rs`) | children, backlogs, pending and waking messages | spawn, deliver, wait, settle, wake, stop | a message meets the end of a turn, the last look, the settlement | no accepted message is lost; a result is told once | `ChildAgents` |
| Kernel (`harness-kernel`) | plugin graph, scopes, leases, shutdown progress | validate, register, lease, call, drain, shutdown | a service lost under its calls; callers dropped between two awaits | release only when quiet; ordered, complete shutdown | `ServiceDrain`, `OrderedShutdown`, `ScopedRegistry`, `PluginGraph` |
| Extensions (`harness-extensions`) | pending calls, the writer's lock, slots, generations, registrations | call, cancel, answer, terminate; load, reload, unload, drain, lease | full pipes, late answers, shared identifiers; operations that overlap | own answers only; nothing pending after the end; one published process | `ExtensionTransport`, `ExtensionHost` |
| Background passes (`memory/sleep.rs`) | job files, claims, a lock per key | enqueue, coalesce, claim, finish, fail, take over | a process that hangs, dies between two files, comes back | work is kept until it is done; one pass at a time | `SleepQueue` |
| Writer fence (`store/mod.rs`) | `host_epoch` | acquire, assert | the old host goes on until its next transaction | no write of an old host | in `ToolGate`, `ModelStep`, `SessionJournal` |

How they interact.  The controller starts turns and steers them; the turn loop calls
`run_inner` for each model call, which reserves in the ledger; it drives the batch of
each answer through the gate, which asks the controller for approvals; between the two
it claims from the run's inbox, which the controller, the host and child agents fill.
Every commit goes through the journal and the fence.  `ModelStep` extends
`BudgetLedger` and `ToolBatch` extends `ToolGate`, so those pairs are checked composed;
`SessionScreen` and `ChildAgents` hold the turns they meet as coarse turns of their own.

## Modules

Every variable is a field, a table or a task of the code, every action one transaction,
one lock hold, or one stretch between two awaits; the comment over an action names the
function.  A property group (`StepInv`, `DrainSafe`, ...) is the conjunction of the named
properties above it in its module; the parts are what to read.

**BudgetLedger.**  `open`, `parent`, `limit`, `spent` are the columns of
`budget_accounts`; `reservation` is the row of each operation id.  `Chain(b)` is the set
of accounts the loop of `charge_chain` visits, a least closed set, so that no recursion is
needed.  Each operation is one transaction; one that returns an error changes nothing.

**ModelStep.**  `worker[h]` is host `h`'s call of `run_inner` with what it carries over its
awaits; `run`, `steps` and `commands` are the rows.  Between any two store calls `Takeover`
may give the store to the next host, after which the old one's transactions are refused
(`Fenced`), while `Dispatch`, which is no transaction, still happens.  `CallAborts` is every
`?`.  The failure path is three actions, each of which may be ignored, as `let _ =` does.

**ToolGate.**  One execution is one `begin`: `Begin` (checks), `CommitToolIntent`,
`TakeEffect` and `RunBegun`, `FinishBegun` (receipt).  `RecordDenied` is every refusal,
`ReconcilePending` the host that finds a recorded intent, possibly while the call still
runs.  Effects of processes and external tools may come after their call failed; effects
of patches may not.  A call that returns a conflict is taken to have had no effect, as
`finish_begun` takes it for every dispatcher (`tools/runtime/service.rs:1176`): an external tool
that answers `Conflict` after it wrote would have a receipt that is not true.

**ToolBatch.**  Call `i` is execution `i` with approval `i`; `batch` is the answer's list of
calls, chosen once.  `driver`, `position` and `returned` are the loop of `run_turn_inner` and
the `JoinSet` of `run_ready_slots`.

**TurnSteering.**  `pc` is where the turn is, `held` the steering claimed for the next call,
`seen` what the model was shown and when, `row` the `run_commands` rows.  A sender goes
through `Pick`, `Count`, `Insert`, `Uncount`; the end of the turn is `GiveUpInbox`,
`WaitForSenders`, `Carry`.  What models, hooks, judges, the clock and the cancel token say is
chosen freely.  Cancels are commands the inbox accepts and no part of the program queues at
this commit; the handler's paths for them are modelled.

**SessionJournal, TaskState.**  Each writer reads (the working state, then the sequence) and
then commits; sessions take the task over by admission; a recovery reads the journal in
steps, from nothing, a snapshot or a kept fold.  `FoldFrom` is `fold_event`.  `TaskState` is
the abstract task - one whole event at a time, no sequences, no stale reads - and
`ImplementsTaskState` is the refinement, with the projection's fields as the mapping.

**Questions.**  `row` is the table, `told` what each giver of an answer was told, `work` the
session's turn from the pause to the run that the answer starts, `panel` the screen.
Another terminal asks, answers and cancels through the command line.  Commits may fail and
the session may crash at every step.

**SessionScreen.**  `ui` is the controller's state, `events` the channel of service events,
`turns` the turns of the service (more than one only if the controller starts them), `child`
children in the background, `waiting` what the gate or the question host waits on.  Each
`OnX` is the whole handler of one event, with the queueing, finishing and delivery it calls.
The end of `run_turn` is in steps (`ending`): the loop is over and its question is announced, or
the error in its place (`LoopEnds`); the inbox closes; what was not read is carried, a message at
a time; the writer is released and the terminal event is sent.  Here everything unread is carried:
what the carry gives up on (its own wait of three seconds, the store's errors) is
`TurnSteering`'s and the exceptions of `CountedNotLost`.  A turn that cannot start breaks,
with the error alone or with the terminal event behind it.

**WorkerScheduler, TaskPlan.**  The steps of a dispatch between its awaits (reservation,
channel permit, slot, live map, backend, retirement, report), of a parent that waits and
gives its slot up, and of a host that sets the flag, cancels, closes the slots and drains.
`TaskPlan` is `compile` on a graph from `Graphs`: the checks in their order, the topological
sort call by call, the walk of the parents.  `Writable` is what `scope_violations` lets a scope
write, the reference `OneOwnerPerFile` compares `scopes_overlap` with.

**ChildAgents.**  `child[c]` holds the run's phase, the four places where a message waits
(backlog, pending, the turn's inbox, the text of a wake) and the notices owed to the parent;
`send` and `wait` are the senders' and the waiting calls' own steps; a waiting call that is
cancelled still counts as a waiter until its guard is dropped ("leaving").  `told` has the results
that reached the root or a caller, with the way each was told; `hidden` those that settled for a
caller that was leaving.  Every exit of a run is a step: stopped in the queue, failed before its
session is announced (`OpenFails`), a turn that failed, messages that could not be carried.
`unread` is what such a run had in hand.  The code reports a failure behind an earlier answer as
`Partial`; the notice is that of a failure, and the model has one outcome for both.

**ServiceDrain, OrderedShutdown, ScopedRegistry, PluginGraph.**  The four parts of the kernel,
which share no state; `PluginGraph` is `validate` with its `detect_cycle` call by call, without
its check of single contracts (a service has a name and a version).  In the first two, every
await is a point where the future may be dropped, for the drains and callers named by a constant.

**ExtensionTransport, ExtensionHost.**  The first is one process: registering a call, the
writer's lock, a pipe of `PipeFrames` frames, the reader, deadlines, cancels, dropped calls
and the kill; the plugin answers, stays silent or dies.  The second is the host's slot of
one plugin: each operation's steps between awaits, with leases checked and used meanwhile.
`overlapped` and `replaced` remember that operations overlapped, or that an active plugin
was loaded again.  The futures of the host's operations are polled to their end: a `load` that
is dropped between the registration of its capabilities and the publication is not modelled.

**SleepQueue.**  `jobs` are the job files of one key, `dueOrder` those whose time came,
`keyLock` the file lock, `pass[p]` the process's pass and the claim it believes it has.
`Lapse` ends a lease; `CrashInFailed` dies between the write of the joined job and the
removal of the newer; `MayHang` and `MayKeep` name the processes that may hang or fail to
remove a job.

**DepthFirst, Lists.**  Operators that several modules use: the depth-first visit that the plan
compiler and the plugin graph both make (`visit`; the open visits are the frames of its recursion,
each with the children its loop has not come to), and the loop that keeps some elements of a list
(the kernel's pushes, the controller's `retain`, the due jobs), as a recursive function.

`MC*` modules give the constants their values.  Four of them hold several parts that share
no state: a behaviour chooses its part, or the *scenario* of a part, in its first state and
keeps it.  A scenario is a bound and no more: it takes steps away (a later number of
messages, a fault that does not happen here) and adds none.  Every scenario's conjunct is in
the fairness conditions as well as in the next-state relation, so that a step the bound takes
away is not one that has to happen.  Each property is of one part, and the other part does not
move, so a run with two parts checks what two runs would.

## Runs

| Run | Bounds | Distinct states | What is checked |
|---|---|---|---|
| `model_step` | the ledger alone: 2 accounts, 2 operations, tokens 0..3; or 2 hosts, 2 calls of `run_inner` with 2 attempts on an account of 3 tokens that another run charges too | 144 thousand | `WithinLimit`, `LedgerBalanced`, `StepInv`, `FinishedRunStays`, `CallReturns` |
| `tool_gate` | 2 executions, 2 hosts; two invocations of one patch with 2 approvals, or with 2 policy revisions, or a read, a process and a note | 373 thousand | `GateInv`, `SideEffectAuthorized`, `ReceiptTruthful`, `RecordsAreFinal` |
| `tool_batch` | every order of three of a read, a lookup, a patch, a question, a note; and read, lookup, patch, question | 629 thousand | `BatchInv`, `BatchEnds` |
| `turn_steering` | 2 messages and a cancel, 3 model calls, claims of 2 and of 1, a sweep of 1 | 796 thousand | `TurnInv`, `CountedNotLost`, `TurnEnds` |
| `journal` | 2 sessions of one task, 2 writers, 2 hosts, 4 events, 2 snapshots, in three scenarios | 463 thousand | `RecoveredIsFold`, `JournalSafe`, `ImplementsTaskState` |
| `screen` | 4 lines and 3 approvals of the turn; or a child, a lookup, questions, 2 lines | 834 thousand | `OneTurnAtATime`, `ScreenSafe`, `QueuedIsSent` |
| `orchestrator` | 3 dispatches, 2 tasks, 1 slot, a queue and a channel of 1 and 2, a waiting parent, 2 drains; or every graph of 3 tasks over 4 identifiers by dependencies, by parents and depths, by scopes in seven spellings | 83 thousand | `SchedulerInv`, `PlanInv`, `ParentIsServed`, `DrainEnds` |
| `child_agents` | a child, its child, 4 messages, 1 worker slot, in five scenarios | 86 thousand | `ToldOnce`, `ChildSafe`, `EveryChildSettles`, `AcceptedIsRead` |
| `kernel` | 2 clients and 2 drains (1 droppable); 3 items in every phase and 2 droppable callers; 3 scopes and 3 registrations; 3 plugins over 3 services | 167 thousand | `RegistryInv`, `CompositionIsSound`, `DrainSafe`, `WaitsEnd`, `ShutdownIsOrdered` |
| `extensions` | 3 calls (2 of leases, 1 larger than the pipe), 2 places, a cancel, a plugin that may stop reading; 3 host operations, 2 leases, 2 capabilities | 270 thousand | `TransportInv`, `HostSafe`, `CallsEnd` |
| `store_queues` | 2 questions, 2 answers, 3 moments of the clock; 3 processes, 3 pieces of work, 2 attempts, 4 jobs and 4 claims | 115 thousand | `WorkIsKept`, `QuestionSafe`, `PassesAreOrderly` |
| `lost_steer` | as `turn_steering` | 3 thousand to the violation | `NoneLeftPending` is violated |

Each property is described where it is defined.  The groups, with the part that is
hardest to keep in front:

- `StepInv`: `DispatchIsCharged`, `RecordedStepIsSettled`, `CommandAndStepAgree`.
  `GateInv`: `JournalReplays`, `ApprovalUsedOnce`.  `BatchInv`: `AloneIsAlone`.
- `TurnInv`: `ReadOnceInOrder`, `DeliveredIsSeen`, `OneAtATime`.  `JournalSafe`:
  `ProjectionIsFold`, `JournalFolds`, `HandedOverByAdmission`.
- `ScreenSafe`: `Kept`, `AskKept`, `GrantWithinTurn`, `RunningHasATurn`.  `SchedulerInv`:
  `StreamIsCounted`, `OneWorkerPerTask`, `ShutdownReachesRunning`, `DrainedIsQuiet`.
  `PlanInv`: `CyclesRefused`, `DependenciesFirst`, `DepthsWithinGrants`, `OneOwnerPerFile`.
- `ChildSafe`: `AcceptedIsKept`, `InboxIsOfATurn`, `OneRunAtATime`.  `ToldOnce`:
  `ResultIsTold`, `AnnouncedOnce`.
- `DrainSafe`: `ReleasedWhenQuiet`, `ActiveIsUncertain`, `UncertainStays`, `ReleasedOnce`.
  `ShutdownIsOrdered`: `StoreIsFinal`, `EachStepOnce`, `NotClosedAgain`, `ToldOfAll`,
  with `EveryCallerIsTold` in `WaitsEnd`, beside `LossDrainEnds`.  `RegistryInv`: `ScopesAreTrees`,
  `LookupIsNearest`, `KeptUntilUndone`, `EachTokenOnce`.  `CompositionIsSound`: `AcceptedCanStart`, `CycleIsReal`,
  `ProvidersAreDistinct`.
- `TransportInv`: `NoneAfterDrain`, `AnswerIsOwn`, `UncertainHasCause`,
  `InflightIsBounded`.  `HostSafe`: `RegisteredIsOwned`, `PublishedIsRegistered`,
  `ValidIsPublished`, `GenerationsGrow`.  `CallsEnd`: `SentCallEnds`, `CallEnds`, `CancelEnds`.
- `QuestionSafe`: `TurnRunsOnStored`, `FirstAnswerWins`, `ToldIsStored`, `AnsweredInTime`.
  `PassesAreOrderly`: `OneRunsAtATime`, `WorkIsDone`, `GivesUpAtTheLimit`.

Why the bounds are enough.  Each is the smallest at which the case it is for happens: two
accounts are a chain with an ancestor; two executions and two approvals a grant used twice
or for another request; two hosts an old and a new writer; three calls of a batch a call
that runs alone with one before and one after; a sweep of one is a full sweep; four events
of a journal an intent, a receipt and another writer's event behind the input; one slot a
parent that blocks its child; two droppable callers a shutdown that changes hands; one
pipe place and one large frame a full pipe; two places of the transport a refused third
call; three processes a claim that is taken over while a third process asks.  What a bound
leaves out beyond repetition: more than two hosts in a row, graphs with a chain of four,
batches of five.  Every action of every module is taken in some passing run.

The systems may stop (a turn ends, a queue is used up), so deadlock is not checked; what
must go on is stated as liveness.

### Fairness

- `StepSpec`, `BatchSpec`, `TurnSpec`: weak fairness of the running call or loop, whose
  awaits (models, hooks, judges, tools, approvals, the wait for senders) have deadlines, and
  of each message that was picked up, whose task the executor runs.  Nobody has to send,
  open a store, change a policy or take an effect.
- `SchedulerSpec`, `ChildSpec`: strong fairness of workers and runs, which wait for a slot or
  a channel place that others take too; tokio's semaphore and channel serve waiters in
  order.  Backends end because a cancelled one returns and one that is not has a timeout.  A
  child is never made to fail: a run that waits for a slot gets one (`RunGoesOn`).
- `ScreenSpec`: the controller's loop takes its next event, a turn goes on to its end and through
  the steps of it, an approval that nobody answers expires.  The user is not fair.
- `DrainSpec`, `ShutdownSpec`: calls end, and drains and callers that are not dropped are
  polled.
- `TransportSpec`: strong fairness of who waits for the writer's lock (a fair mutex), weak of
  the host's tasks and timers; none of the plugin, which need not read, answer or exit.
- `SleepSpec`: each process's loop goes round, passes that do not hang end, leases lapse and
  backoffs pass.

## The finding

`lost_steer`: `queue_into_run` clones the active inbox, releases the lock, and counts the
message afterwards.  A turn that ends in between does not wait for it, and the row stays
pending in a run whose inbox nobody reads again, unless that same run is resumed.
`CountedNotLost` shows that counting under the lock would be enough.

## Divergences met while modelling

Places where the code at this commit does something else than a comment or a document says.
The models do what the code does, and the properties are stated beside it: each excepts the
case by name, in its definition or its run's scenario, so that what holds around it is
checked.

- **Receipts in completion order** (`turn_driver.rs`, `run_ready_slots`): comments speak of call
  order; results do reach the model in call order.
- **Carried messages are replayed** (`service.rs`, `applied_steering`): a message carried to the
  next turn is applied like a delivered one, so it is shown in the old turn's replay too.
- **An outcome after the drain** (`scheduler.rs:500`): "nothing is left behind in it", but a
  dispatch admitted before the shutdown may count and report after the drain.
  `DrainedIsQuiet` says what still holds.
- **Dots in scopes** (`contracts.rs:704`): `.` and `././src` overlap nothing but themselves, so
  two tasks may own one file.  `OneOwnerPerFile` excepts scopes that still begin with a dot when
  they are compared (`Dotted`).
- **What a child had in hand** (`delegation.rs:5690`, `:5958`, `:3015`): a run that is stopped in the
  queue, or fails before its session is announced (no launch, another worktree, no lease), leaves
  what it was woken for to be overwritten by the next wake; messages that cannot be claimed or
  applied when they are carried (`:5958`-`:5974`) stay in the inbox of a run that is over; and a turn that
  fails may have claimed what it did not show.  Their senders were told they are delivered.
  `AcceptedIsKept` and `AcceptedIsRead` except what is `unread`, message by message.
- **Results that are not told** (`ResultIsTold`): `wait` (`:1664`) says of a cancelled call that "the
  child keeps running and reports when it settles", but the call counts as a waiter until its
  guard is dropped, and a child that settles in between is not announced (`hidden`).  The notice
  (`:1285`) is left out "when the child already told its parent what it found", but `replied` is set
  before a delivery (`:1969`) that may be refused.  A child that was `Done` with a message come late
  is announced after the run for that message; when it is deleted before that, it is not.
- **Children otherwise** (`delegation.rs`): the parent may report before a nested child is announced
  (`:1645`); a finished child is woken although the guide says a message to it is refused.
- **Stale tool-service projection and marker clash** (`tools/runtime/service.rs:1652`, `:1671`): the
  service reads the working state, then the sequence, and does not compare them; a commit of
  a decision between the two reads is gone from the stored state.  Decisions have no caller
  outside tests, so the run's scenarios and the theorems' condition (`DecisionsApart`) keep
  decisions and tool calls apart, and `ProjectionIsFold` holds for each.  The markers of a task update and a decision are keyed
  by the sequence alone in a table of the whole store: the second session is refused
  (`"clash"` in `SessionJournal`).
- **A refused answer** (`service.rs:8784`): the session ignores the store's `Conflict`, `Expired`
  and `NotFound` and runs the turn on the answer; `TurnRunsOnStored` excepts questions another
  terminal settled.
- **A dropped drain** (`harness-kernel/lib.rs:573`): its successor calls the resource's shutdown
  again; `ReleasedOnce` allows one more for each.
- **Background passes** (`sleep.rs:481`, `:612`): a take-over does not hold the key's lock, so the
  process that hung, once it returns, lets a third claim the job that is running
  (`over` in `OneRunsAtATime`); coalescing into a lapsed claim clears it, so that job waits for
  the hung process (`Hangs` in `WorkIsDone`).
- **A stalled pipe** (`transport.rs:649`-`:652`): the write has no deadline and holds the writer's lock, so a
  plugin that stops reading blocks the calls and cancels behind a write that does not fit, and the
  reader's answers with them: there an ignored cancel does become the hung host that `cancel_call`
  rules out.  `CallsEnd` promises the end of what was written in every case (the deadline kills
  the process, without the lock), and of the rest unless a write stays blocked for ever
  (`WriteBlocked`).
- **`Acknowledged`** (`transport.rs:731`): a cancel is also acknowledged when the process died or
  the call's own deadline passed.
- **Identifiers of leases** (`host.rs:640`): two calls of a lease may have the same identifier; the
  guard of one may then terminate the plugin under the other (`SharedIdentifier`).
- **The host's slot** (`host.rs:228`, `:289`, `:379`): a refused load of an active extension overwrites its
  slot and orphans its registrations (`replaced`); overlapping loads take the same generation
  (`overlapped`), and a load beside an unload too, whose process is not yet stopped: a lease of
  that one then passes `is_valid` while another is published, though "after an unload or a reload
  the lease is refused" (`:325`); a call that begins after the drain's count is cut off and not reported.
- **The screen's phase**: next section.

### What the screen's phase does not survive

`AppPhase` says whether a run is active, and the controller believes it: a line typed in
`Ready` starts a turn, one typed in `Running` steers.  Six things set it wrongly, and
`Undisturbed` in `SessionScreen` names the sessions none of them has reached; `OneTurnAtATime`,
`RunningHasATurn`, `GrantWithinTurn` and `QueuedIsSent` are promised for those.

1. `run_turn` sends `QuestionRequired`, then carries messages and closes the store, and then
   sends `RunTerminal` (`service.rs:10745`).  An answer given in between starts the next turn,
   and the late event ends it on the screen.
2. Answering the approval of a background child in an idle session sets the phase to
   `Running` (`controller.rs:6526`) with no turn to end it; `a` there also opens the turn's
   grant with nothing to close it (`:6528`).
3. The end of a turn clears every waiting approval, whoever asked (`:6650`): a child's waits
   until it expires.
4. A list of sessions that cannot be read arrives as `RecoverableError`, which ends the turn
   that was started meanwhile (`:3490`).
5. When the durable question of a turn cannot be read, `run_turn` sends `RecoverableError`
   (`service.rs:10757`) and goes on: it carries messages, releases the store, refines, and sends
   `RunTerminal` at the end.  The controller ends the run and its grant at the first, so a line
   typed or queued then starts a second turn, which the late event ends on the screen.
6. A turn whose MCP setup, compaction, refine or session file action fails sends
   `RecoverableError` and `RunTerminal` (`service.rs:9276`, `:9350`, `:9445`, `:11321`): when a line
   waits or is typed between the two, the second ends the turn that the line started.

And after a turn that ended with a question, the queued line or a child's report is sent as the
user's answer (`:3395`, `:3415`).  `Kept` and `AskKept` hold in all of this: nothing typed is lost
or sent twice, and no panel closes while it is waited on but by the end of a turn.

## Proofs

For every value of the constants that satisfies the assumptions:

- `StepProofs`, the ledger: `BudgetSafe` (`[]WithinLimit`), `DoneReservationsStay` and
  `BooksAreBalanced` (`[]LedgerBalanced`).  `WithinLimit` is not inductive: opening an account
  sets its limit, which is safe because an account without a row was never charged
  (`UnopenedIsUncharged`).  The books are counted token by token: what was spent on an account
  is as many tokens as the reservations on it and below it hold (`TokensOf`), a set whose size
  each transaction changes by what it adds or gives back, so no sum has to be folded.
  Assumed: tokens are naturals, `NoAccount` is no account.
- `StepProofs`, the calls: `CallsKeepTheirRecord` (`[]StepInv`), `FinishedRunsStay`,
  `RunsStayWithinLimits` and `RunsKeepTheBooks`, for any hosts, calls and attempts.  That a call moves the ledger by the
  ledger's own actions (`LedgerStep`) brings in `BudgetInv`; `CountsInv` bounds the rows, so that
  the step a call freezes has an operation of its own; `CarriedInv` types what a call carries.
  `StepInv` needs two more facts.  Calls do not share: every step is of one command and
  every call has its own, whose step stays frozen until the call records its outcome (`OwnInv`).
  And a call has at most one reservation, of the attempt it is about to send or has sent and not
  settled (`AttemptInv`): so the only release is of a request that was not sent, and a
  step is recorded when nothing of it is reserved.  `FinishedInv` says that once a run is
  finished the host that owns the store has no step and no result to finish it with again.
  Assumed: `RunLimit` and `Bound` are positive, and the operations of other runs are not this run's.
- `TurnProofs`, the gate: `EffectsAreAuthorized`, `ReceiptsAreTruthful`, `FinalRecordsStay`.  `ToolInv` says
  what a grant names, how far an execution is against what the store holds of it, that a
  durable intent holds its consumed approval, that outcomes agree with effects
  (`OutcomeInv`, the heart of it: "refused" is only written for a read or a closed call that
  met a conflict, so no late effect can make it false), and who wrote an observed patch.
  Assumed: the kinds of requests are disjoint, and equal actions are of one kind.
  `GateSafe` (`[]GateInv`): `GateIInv` adds that an execution that was never gated is not in the
  journal, that an open intent is there, and that an approval in use is consumed by the
  execution that uses it; then a second intent, a receipt without one or a second use
  would have to come from a step whose check fails.
- `TurnProofs`, the batch: `BatchIsGated` (`BatchSpec => ToolSpec`) shows step by step that a batch
  drives the gate by the gate's own actions, so that everything proved of the gate is true of
  it; `BatchSafe` (`[]BatchInv`) that what must run alone does.  `BatchIInv` adds that nothing
  behind the driver's position was prepared (`OrderIsKept`), and that a call that runs alone is
  the one at the position, with no other in a slot (`AloneIsAtPosition`).  Assumed: executions
  are numbers, the positions of the calls.
- `TurnProofs`, the turn: `TurnSafe` (`[]TurnInv`) and `CountedIsRead` (`[]CountedNotLost`), for any messages,
  senders, model calls and bounds of the claims.  What carries them in `TurnIInv` is one picture:
  what is pending is the end of the queue, what was shown comes before what is held, and that
  before what the next claim takes (`PendingIsLast`, `HandedInOrder`).  A claim selects by
  position, so the lemmas about it say that the n-th of finitely many positions is one position
  and that they ascend.  `DeliveredIsHanded` ties the `delivered` mark to a text that is held or
  shown, `CountedIsKept` the count in flight to the row, through the wait and the sweep.
- `KernelProofs`, the scheduler: `SchedulerSafe` (`[]SchedulerInv`).  `SchedulerIInv` adds the equations the code
  relies on and states nowhere: free slots, workers that hold one and leases of waiting parents
  add up (`SlotsAreCounted`); the reserved tasks are those of the dispatches that hold one, each
  with one dispatch (`TasksAreOwned`); the live map lists the dispatches from the slot to the
  retirement (`LiveIsListed`); the channel holds sent outcomes once; and the flags outlast the drain that
  set them.  Assumed: dispatches and parents are finite sets.
- `ExtensionProofs`, the transport: `TransportSafe` (`[]TransportInv`).  `TransportIInv` says of each call which
  outcome it may have and why (`CallsAreSound`), that an identifier leads to a call that is
  registered and unanswered (`PendingIsOpen`), that what is in the pipes is of calls which have
  that identifier (`AnswersAreOfCalls`), and that only a fault or a shared identifier ends the
  process (`EndHasCause`).  Assumed: calls are finite, and no call is a number or `None`, which
  is how the host keeps its own identifiers apart from those of leases.
- `ExtensionProofs`, the host: `HostIsSafe` (`HostSafe`, with the action property `GenerationsGrow`).
  `HostInv` says that a process has one owner, an operation or the slot (`OneHasIt`), that what is
  about to be published is the one thing registered (`InsertedIsRegistered`), that a load is
  newer than what was ever active, by the slot or by what is remembered (`NewerThanActive`), and
  what the slot holds before a load (`LoadsFindNothing`).  `PublishedIsRegistered` is proved for
  operations that overlap.  `ValidIsPublished` could not be: TLC then found two processes of
  one generation (Divergences), and the property now says when it holds.
  Assumed: there is a capability, and `NoProcess` is no number.
- `ChildProofs`: `ChildrenAreSafe` (`ChildSafe`, with the action property `OneRunAtATime`) and
  `ResultsAreToldOnce` (`[]ToldOnce`), for any children, nested to any depth.  `ChildIInv` says that
  a child's state, run and turn agree (`RunIsOfState`), that an inbox in use is of a turn that has
  not been carried over (`SentToATurn`), that a notice is of a run the child has had and of its
  last one only when that is settled and nobody waited for it (`NoticesAreOfPast`), and
  `SettledIsTold`, which follows a result from the settlement through the notice owed to what
  its parent can read.  A notice and the call that waited never tell the same run
  (`NoticesAreOfPast`, `CallsAreOfPast`); a child that counts as having replied has sent a message,
  which may have been refused (`RepliesWereSent`); and what only an answer leaves behind is not
  there before the first run is over (`FirstIsLast`).  The steps are of four shapes (`OwnStep`,
  `MailStep`, `StillStep`, `Begins`), and each shape keeps its part of the invariant once and for
  all: mail, for one, is only ever added, or moved to `unread`.  Assumed: no message is a notice.
- `StoreQueueProofs`, questions: `QuestionsAreSafe`, from `AnswersAreKept`, `LateIsRefused`, `FirstAnswerIsKept` and
  `TurnsRunOnWhatIsStored`.  `StoredInv` is what the table says; `CarryInv` follows the text a turn
  carries from its pause through the answer to its run, and says of each place that the store
  holds it already, may still take it, or another terminal has settled the question.
  `SettledStays` is why the last of these is never taken back.
- `StoreQueueProofs`, background passes: `NothingIsLost` (`[]WorkIsKept`).  `SleepInv` adds that numbers are fresh (`Numbered`)
  and that a claim that still is the job's knows all the work of the job (`ClaimKnowsWork`):
  what was coalesced meanwhile has voided the claim, so the pass cannot remove it.
  `PassesRunOneByOne` (`[](OneRunsAtATime /\ GivesUpAtTheLimit)`): a pass that took nothing over
  holds the key's lock and a job whose claim stands and is its own (`HoldsItsKey`), so nobody else
  may claim, void, forget or remove it; `ClaimsAreApart` keeps a late end from meeting it.  The
  theorem also states that the due order lists jobs only (`QueueInv`).
- `KernelProofs`, the drain: `DrainsAreSafe`, from `QuietRelease`, `UncertainIsReported`, `FirstLossStays` and
  `OneRelease`.  `DrainInv` says that the counter is the number of clients in a call and the set
  holds the calls (`Counted`, `Listed`), so that a zero read after the loss is final.  For
  `OneRelease` the cell has at most one initialiser, and a released one was reached once.
  Assumed: clients and drains are finite sets.
- `KernelProofs`, the registry: `RegistryIsScoped` (`[]RegistryInv`).  That no scope is above itself is
  not inductive as it is stated; a rank that falls from a scope to its parent is (`Ranked`).
  `Lookup` is a recursive function, so what it computes is proved by induction on the steps of its
  walk (`Walked`): every scope it passes without a registration is one less of those above, so after
  a step for each scope it has found the nearest or there is none.  The library's induction rules
  take an operator and cannot be used; `NumbersByStep` (`ListProofs`) is induction over a
  set of numbers, from the well-founded order of the numbers.  Assumed: scopes are finite, and `Nothing` is no scope and no token.
- `KernelProofs`, the shutdown: `ShutdownKeepsItsOrder` (`ShutdownIsOrdered`, with the action property
  `NotClosedAgain`).  `ShutdownInv` adds that only the caller that holds the cell closes (`OneCloses`),
  that what it awaits agrees with what was recorded of the item the loops come to
  (`AwaitsInOrder`), which exists whatever the phases are (`CurrentIsFirst`), and that the report
  has a line for each step taken, so that it is complete when the loops are through.
  Assumed: there is an item, and a caller is neither `Nobody` nor "set".
- `KernelProofs`, the plugin graph: `CompositionsAreSound` (`[]CompositionIsSound`), for any number of
  plugins, scopes and contracts.  `GraphInv` carries the walk's invariant `VisitInv` from `ListProofs`: a
  node is left after everything it leads to was left, an open visit was called from the one
  below it, and what a loop has passed was seen.  So the order in which plugins are left is an
  order in which they can be started, and a call of a node that is being visited closes a loop,
  in which no order exists: the least number of a plugin in it would have to be above another.
  The edges are those of the pushes (`KeepAt`), each of which is shown to be a need and each need
  one of them.  Assumed: what the constants offer are contracts and what they require are lists.
- `KernelProofs`, the plan: `PlansAreSound` (`[]PlanInv`), for any graphs, grants, scopes and files.
  `PlanIInv` has the same `VisitInv` for the dependencies.  The walk of the parents is cut off after
  as many steps as there are tasks; that it then goes round is a pigeonhole argument over the
  tasks it met, and where it ends, the depth it counted is the number of tasks above
  (`TasksAbove`, a least closed set).  For the scopes, two that do not overlap once normalised
  have no file in common, since a file below both would make one a prefix of the other.
  Assumed: no task is called `NoParent`, graphs, scopes and files are lists, no scope is the
  empty list, bounds and grants are naturals.
- `ListProofs` holds what the others share, since the library's rules of induction cannot be used:
  induction over numbers (`NumbersByStep`), what ends of lists are, what a keeping loop returns
  (`KeepAtKeeps`), the depth-first walk (`VisitsStart`, `VisitsGoOn`, `VisitsEnd`), and counting the
  elements of a kind in a list that grows, shrinks or is joined to another (`CountIn`).
- `SessionProofs`, the journals: `RecoveriesAreFolds` (`[]RecoveredIsFold`) and `JournalsFold`
  (`[]JournalFolds`, with the action property `HandedOverByAdmission`), for any sessions, writers,
  hosts and events.  The fold is a recursive function: that it exists, what its next step is,
  that it goes on from a part (`FoldsGoOn`) and does not see later events (`FoldsStay`) are
  lemmas by induction on the events.  `JournalInv` says that what a writer read is of a session
  that has begun and names only calls of its journal (`StatesAreSound`), that who may still
  commit writes for the session that holds the task (`TaskIsHeld`), and that there is room for
  every commit.  `RecoveryInv` says of the seed, the kept fold and every snapshot which events
  they cover.  Assumed: writers are finitely many, and "none" is no session.
- `SessionProofs`, the working state: `JournalIsSafe` (`JournalSafe`, so also `[]ProjectionIsFold`)
  and `JournalImplementsTaskState`, the refinement, commit by commit.  `ProjectionInv` gives the
  two reasons for which a stale read does no harm: the session service commits only what follows
  its read (`SessionReadsStand`), and the tool service, which does not compare, writes alone and
  finds the content it read still stored (`ToolReadsStand`).  The second reason fails when a
  decision is recorded beside a tool call (Divergences), hence the condition `[]DecisionsApart`;
  `JournalOfTheProgram` shows that it is met where nobody records decisions, as outside
  tests, or no tool is called.
- `SessionProofs`, the controller: `TurnsComeOneByOne` (`[]OneTurnAtATime`, with `RunningHasATurn`
  and `GrantWithinTurn`), for any children, requests, lines and lookups.  The controller's phase is
  a copy of what the service does, so the invariant ties the two together through the channel:
  in an undisturbed session a run is active exactly while one turn runs or its end is the last
  event on its way (`OneIsRunning`), and a free session has no turn and an empty channel
  (`Calm`).  Through the steps of a turn's end the turn is still there and waits on nothing of the
  screen's (`EndInv`), so a turn that does not say early that it broke has its end before it; one
  that does, the fifth and sixth case above, is remembered (`ending.early`), and the property does
  not speak of that session.  Since it speaks of undisturbed sessions, half of the proof is that a
  disturbance stays (`DisturbanceStays`): a child's question keeps its count wherever it goes, and
  a question leaves the screen only by an answer that is sent or by a child's.  Assumed: the
  root is no child.
- `SessionProofs`, the screen: `ScreenIsSafe` (`ScreenSafe`, with `Kept` and the action property `AskKept`),
  in every session, disturbed or not.  `Kept` says that each text is somewhere; the
  inductive `OneCopy` counts it: in the queues, the inbox, what was sent and the events on their
  way, list by list, there are as many copies of a text as were made of it, which is one or none.
  Each handler of an event takes a text from one list and puts it on another, so its lemma
  (`...Keeps`) compares two sums.  For `AskKept`, `ExpiredAreOver` says that a request was counted when it
  was asked, so its number does not come again, and that nobody waits on a request whose expiry
  is on its way.  Assumed: children are finitely many, the bounds are naturals.

Only model-checked: liveness under fairness, which needs `ENABLED`, out of the prover's reach.
These are `CallReturns`, `BatchEnds`, `TurnEnds`, `QueuedIsSent`, `ParentIsServed`, `DrainEnds`, `EveryChildSettles`,
`AcceptedIsRead`, `WaitsEnd`, `CallsEnd`, and `WorkIsDone` in `PassesAreOrderly`, whose other parts are proved.  Every
safety invariant and every action property of the passing runs is stated by a theorem.

Every property has a mutant in `PROJECT.json`: a plausible bug of the mapped code under which
TLC finds the property violated.  The mutants are the operators marked "A mutant" in the
modules; no specification uses them.

## Not modelled

Components whose status is `partly` say in `PROJECT.json` what they leave out.  In the large:

- **Data.**  What a model, a goal judge or a memory pass says; prompts, ranking, lint, diffs;
  policy patterns and command parsing; configuration, schemas, serialization.  They are inputs of
  the control that is modelled.  Most of the repository's lines are of this kind, or tests in
  the same files: `delegation.rs`, `controller.rs`, `service.rs`, `memory/*.rs` have thousands of
  lines each of which a model would only repeat.
- **I/O.**  Tool adapters, execution backends and their probes, provider wire formats, the
  terminal's drawing, framing of RPC, ACP and of extensions, git in worktrees and in their
  integration, backups and copies.
- **Control that is left.**  The orchestrator's coordinator and integration; retention pins,
  backups and garbage collection of the store; conversation forks, rollback, compaction;
  slash commands, goals, heartbeats and parking in the controller; the MCP client; trust
  grants and the catalog of extensions; the kernel's resource set of a mount; a child's reset,
  its verification child and a `collect` with a deadline, which returns what there is; read-only
  queries everywhere.

## Plan

1. Retention pins against collection in the store (`maintenance`), as a module of its own.
2. The coordinator's revisions and the integration of worktrees against a moving base.
3. `TurnSteering` composed with `ModelStep`, so that a host that is replaced meets a turn that
   carries messages.
