---------------------------- MODULE TurnSteering ----------------------------
(***************************************************************************)
(* The loop of one turn (run_turn_inner in harness-tools,                  *)
(* runtime/turn_driver.rs) and the messages the user and other agents send *)
(* into it while it runs: queue_into_run and carry_unread_messages in      *)
(* harness-cli (host/application/service.rs), the run_commands table in    *)
(* harness-store-sqlite (store/run.rs).                                    *)
(*                                                                         *)
(* A message is picked up by the host, counted in flight, and inserted as  *)
(* a pending row by a task of its own.  The turn claims rows between its   *)
(* model calls.  When the turn ends it gives up its inbox, waits for what  *)
(* is in flight, and hands what nobody claimed to the next turn.  The next *)
(* turn also reads a replay of this one.                                   *)
(*                                                                         *)
(* What the model answers, what hooks, judges and the goal evaluator say,  *)
(* the clock, the cancel token and the tool budget are chosen freely.      *)
(***************************************************************************)
EXTENDS Integers, Sequences, FiniteSets

CONSTANTS
    Messages,           \* the commands sent while the turn runs: texts and cancels
    Cancels,            \* the cancels among them (RunCommandKind::Cancel)
    MaxSteps,           \* limits.max_steps: model calls of the turn
    MaxContinuations,   \* goal.max_continuations
    MaxNoProgress,      \* goal.max_no_progress
    AllBatch,           \* rows of one claim with steering_mode = all (8)
    CarryLimit          \* rows claimed when the turn ends (64)

ASSUME TurnAssumption ==
    /\ Cancels \subseteq Messages
    /\ MaxSteps \in Nat \ {0}
    /\ MaxContinuations \in Nat /\ MaxNoProgress \in Nat
    /\ AllBatch \in Nat \ {0} /\ CarryLimit \in Nat

VARIABLES
    pc,             \* where the turn is
    stop,           \* TurnStop, "none" while the loop runs
    goal,           \* whether the turn has a goal
    allAtOnce,      \* steer_all_at_once
    steps,          \* model calls so far
    continuations, noProgress, warned,
    held,           \* steering claimed for the next model call
    seen,           \* what was put in front of the model, and for which call
    active,         \* active_inbox is this turn's
    sender,         \* each message on its way
    onTime,         \* messages counted while the inbox was this turn's
    queue,          \* run_commands of the run, by rowid
    row,            \* run_commands.state, "delivered" and "carried" both Applied
    carried,        \* messages handed to the next turn, in order
    sweep           \* how the search for unread messages went

loopVars == <<stop, goal, allAtOnce, steps, continuations, noProgress, warned>>
inboxVars == <<queue, row>>
endVars == <<active, carried, sweep>>
sendVars == <<sender, onTime>>
turnVars == <<pc, loopVars, held, seen, endVars, sendVars, inboxVars>>

Stops == {"Final", "Unverified", "NeedsInput", "ExternalWait", "NoProgress", "GoalLimit",
          "BudgetExhausted", "StepLimit", "ToolLimit", "Deadline", "Canceled",
          "LoopDetected", "HookStopped", "Error"}

TurnTypeOK ==
    /\ pc \in {"model", "final", "hook", "tools", "batch", "late", "results",
               "canceling", "stopped", "waiting", "sweeping", "ended"}
    /\ stop \in Stops \cup {"none"}
    /\ goal \in BOOLEAN /\ allAtOnce \in BOOLEAN /\ warned \in BOOLEAN /\ active \in BOOLEAN
    /\ steps \in 1..MaxSteps
    /\ continuations \in 0..MaxContinuations
    /\ noProgress \in 0..(MaxNoProgress + 1)
    /\ held \in Seq(Messages)
    /\ seen \in Seq([step: 1..MaxSteps, message: Messages])
    /\ sender \in [Messages -> {"idle", "picked", "counted", "inserted", "done", "failed"}]
    /\ onTime \in SUBSET Messages
    /\ queue \in Seq(Messages)
    /\ row \in [Messages -> {"none", "pending", "claimed", "delivered", "carried"}]
    /\ carried \in Seq(Messages)
    /\ sweep \in {"none", "waited", "timeout", "failed"}

TurnInit ==
    /\ pc = "model" /\ stop = "none"
    /\ goal \in BOOLEAN /\ allAtOnce \in BOOLEAN
    /\ steps = 1 /\ continuations = 0 /\ noProgress = 0 /\ warned = FALSE
    /\ held = <<>> /\ seen = <<>>
    /\ active = TRUE /\ carried = <<>> /\ sweep = "none"
    /\ sender = [m \in Messages |-> "idle"] /\ onTime = {}
    /\ queue = <<>> /\ row = [m \in Messages |-> "none"]

-----------------------------------------------------------------------------
(* queue_into_run.  The active inbox is cloned under its lock; the message   *)
(* is counted after the lock is released; a task of its own inserts the row. *)

InFlight == {m \in Messages : sender[m] \in {"counted", "inserted"}}

Pick(m) ==
    /\ sender[m] = "idle" /\ active /\ m \notin Cancels
    /\ sender' = [sender EXCEPT ![m] = "picked"]
    /\ UNCHANGED <<pc, loopVars, held, seen, endVars, onTime, inboxVars>>

Count(m) ==
    /\ sender[m] = "picked"
    /\ sender' = [sender EXCEPT ![m] = "counted"]
    /\ onTime' = IF active THEN onTime \cup {m} ELSE onTime
    /\ UNCHANGED <<pc, loopVars, held, seen, endVars, inboxVars>>

(* enqueue_run_command.                                                      *)
Insert(m) ==
    /\ sender[m] = "counted"
    /\ sender' = [sender EXCEPT ![m] = "inserted"]
    /\ queue' = Append(queue, m)
    /\ row' = [row EXCEPT ![m] = "pending"]
    /\ UNCHANGED <<pc, loopVars, held, seen, endVars, onTime>>

Uncount(m) ==
    /\ sender[m] = "inserted"
    /\ sender' = [sender EXCEPT ![m] = "done"]
    /\ UNCHANGED <<pc, loopVars, held, seen, endVars, onTime, inboxVars>>

(* RunInbox::cancel: a cancel is inserted at once, while the run is active.  *)
Cancel(m) ==
    /\ sender[m] = "idle" /\ active /\ m \in Cancels
    /\ sender' = [sender EXCEPT ![m] = "done"]
    /\ queue' = Append(queue, m)
    /\ row' = [row EXCEPT ![m] = "pending"]
    /\ UNCHANGED <<pc, loopVars, held, seen, endVars, onTime>>

(* No run within two seconds, or the store refused: the user is told.        *)
NotQueued(m) ==
    /\ sender[m] = "counted"
    /\ sender' = [sender EXCEPT ![m] = "failed"]
    /\ UNCHANGED <<pc, loopVars, held, seen, endVars, onTime, inboxVars>>

-----------------------------------------------------------------------------
Prefix(s, n) == SubSeq(s, 1, IF Len(s) < n THEN Len(s) ELSE n)

(* What s has at the positions S, in the order of s: at n, what has n of     *)
(* them up to its own.                                                      *)
Nth(S, n) == CHOOSE i \in S : Cardinality({j \in S : j <= i}) = n
Selected(s, S) == [n \in 1..Cardinality(S) |-> s[Nth(S, n)]]

(* claim_run_commands: the oldest pending rows of the run, at most limit.    *)
Claim(limit) == Prefix(Selected(queue, {i \in DOMAIN queue : row[queue[i]] = "pending"}), limit)

(* The rows of commands are Applied, with the detail state.                  *)
Apply(commands, state) ==
    row' = [m \in Messages |->
              IF \E i \in DOMAIN commands : commands[i] = m THEN state ELSE row[m]]

StepBatch == IF allAtOnce THEN AllBatch ELSE 1

Texts(commands) == Selected(commands, {i \in DOMAIN commands : commands[i] \notin Cancels})

(* A cancel is among what this step claims.                                  *)
CancelClaimed == LET claim == Claim(StepBatch) IN \E i \in DOMAIN claim : claim[i] \in Cancels

(* claim_inbox: what is claimed is applied before it reaches the model.      *)
ClaimInbox ==
    /\ Apply(Claim(StepBatch), "delivered")
    /\ UNCHANGED queue

Stop(reason) ==
    /\ pc' = "stopped" /\ stop' = reason
    /\ UNCHANGED <<goal, allAtOnce, steps, continuations, noProgress, warned>>

(* The next call is made with messages at the end of the transcript.        *)
NextCall(messages) ==
    /\ pc' = "model"
    /\ steps' = steps + 1
    /\ seen' = seen \o [i \in DOMAIN messages |-> [step |-> steps + 1, message |-> messages[i]]]
    /\ held' = <<>>

-----------------------------------------------------------------------------
(* The model answers with text or with tool calls, the stream ends without   *)
(* a terminal marker, or the call fails.                                     *)
ModelAnswers ==
    /\ pc = "model"
    /\ \/ pc' \in {"final", "tools"} /\ UNCHANGED loopVars
       \/ Stop("Unverified") \/ Stop("Error")
    /\ UNCHANGED <<held, seen, endVars, sendVars, inboxVars>>

(* The goal evaluator ends the turn.                                         *)
GoalStops ==
    /\ pc = "final" /\ goal
    /\ \E reason \in {"Final", "Unverified", "NeedsInput", "ExternalWait", "Error"} : Stop(reason)
    /\ UNCHANGED <<held, seen, endVars, sendVars, inboxVars>>

(* The goal needs work: a bound stops the turn or the model is sent back.    *)
(* The first evaluation has no earlier signature to repeat.                  *)
GoalNeedsWork(progressed) ==
    /\ pc = "final" /\ goal
    /\ continuations = 0 => progressed
    /\ noProgress' = IF progressed THEN 0 ELSE noProgress + 1
    /\ \/ /\ \/ stop' = "NoProgress" /\ noProgress' > MaxNoProgress
             \/ stop' = "GoalLimit" /\ noProgress' <= MaxNoProgress
                  /\ continuations >= MaxContinuations
             \/ stop' = "BudgetExhausted" /\ noProgress' <= MaxNoProgress
                  /\ continuations < MaxContinuations
             \/ stop' = "StepLimit" /\ noProgress' <= MaxNoProgress
                  /\ continuations < MaxContinuations /\ steps >= MaxSteps
          /\ pc' = "stopped"
          /\ UNCHANGED <<steps, continuations, held, seen>>
       \/ /\ noProgress' <= MaxNoProgress
          /\ continuations < MaxContinuations
          /\ steps < MaxSteps
          /\ continuations' = continuations + 1
          /\ NextCall(<<>>)
          /\ UNCHANGED stop
    /\ UNCHANGED <<goal, allAtOnce, warned, endVars, sendVars, inboxVars>>

(* A mutant: the inbox is read with no step left.                            *)
FinalNoStepLeftClaims ==
    /\ pc = "final" /\ ~goal /\ steps >= MaxSteps
    /\ Stop("Final")
    /\ ClaimInbox
    /\ UNCHANGED <<held, seen, endVars, sendVars>>

(* A text answer with no step left: the inbox is not read.                   *)
FinalNoStepLeft ==
    /\ pc = "final" /\ ~goal /\ steps >= MaxSteps
    /\ Stop("Final")
    /\ UNCHANGED <<held, seen, endVars, sendVars, inboxVars>>

(* A text answer: what arrived meanwhile continues the turn.                 *)
FinalClaim ==
    /\ pc = "final" /\ ~goal /\ steps < MaxSteps /\ ~CancelClaimed
    /\ ClaimInbox
    /\ IF Claim(StepBatch) = <<>>
       THEN pc' = "hook" /\ UNCHANGED <<steps, seen, held>>
       ELSE NextCall(Claim(StepBatch))
    /\ UNCHANGED <<stop, goal, allAtOnce, continuations, noProgress, warned, endVars, sendVars>>

(* A claim before the tools, or of a text answer, that meets a cancel.       *)
ClaimCancels ==
    /\ \/ pc = "final" /\ ~goal
       \/ pc = "tools"
    /\ steps < MaxSteps /\ CancelClaimed
    /\ ClaimInbox
    /\ Stop("Canceled")
    /\ UNCHANGED <<held, seen, endVars, sendVars>>

(* A mutant: a blocked stop is not a step.                                   *)
SentBackFreely ==
    /\ pc = "hook"
    /\ pc' = "model"
    /\ UNCHANGED <<loopVars, held, seen, endVars, sendVars, inboxVars>>

(* A stop hook, the completion check, the verify reminder or the             *)
(* self-evaluation sends the model back.                                     *)
SentBack ==
    /\ pc = "hook"
    /\ NextCall(<<>>)
    /\ UNCHANGED <<stop, goal, allAtOnce, continuations, noProgress, warned, endVars, sendVars, inboxVars>>

FinalStop ==
    /\ pc = "hook"
    /\ Stop("Final") \/ Stop("Canceled")
    /\ UNCHANGED <<held, seen, endVars, sendVars, inboxVars>>

-----------------------------------------------------------------------------
(* The answer has tool calls: the bounds, before anything runs.              *)
ToolsStop ==
    /\ pc = "tools"
    /\ \/ Stop("Canceled") \/ Stop("Deadline")
       \/ steps >= MaxSteps /\ Stop("StepLimit")
       \/ steps < MaxSteps /\ Stop("ToolLimit")
    /\ UNCHANGED <<held, seen, endVars, sendVars, inboxVars>>

(* What arrived while the model answered is claimed before the tools run.   *)
EarlyClaim ==
    /\ pc = "tools" /\ steps < MaxSteps /\ ~CancelClaimed
    /\ ClaimInbox
    /\ held' = Claim(StepBatch)
    /\ pc' = "batch"
    /\ UNCHANGED <<loopVars, seen, endVars, sendVars>>

(* The same call again: a warning, and at the second repeat the end.        *)
LoopDetected ==
    /\ pc = "batch" /\ warned
    /\ Stop("LoopDetected")
    /\ UNCHANGED <<held, seen, endVars, sendVars, inboxVars>>

(* ask_user with nobody to answer now, or a task of the batch panics.        *)
BatchStops ==
    /\ pc = "batch"
    /\ Stop("NeedsInput") \/ Stop("Error")
    /\ UNCHANGED <<held, seen, endVars, sendVars, inboxVars>>

(* The tool calls of the answer run (ToolBatch).                             *)
RunBatch(repeated) ==
    /\ pc = "batch"
    /\ repeated => ~warned
    /\ warned' = (warned \/ repeated)
    /\ pc' = "late"
    /\ UNCHANGED <<stop, goal, allAtOnce, steps, continuations, noProgress, held, seen,
                   endVars, sendVars, inboxVars>>

(* What was sent while the tools ran; in one-at-a-time a step that already   *)
(* took a message takes no other.                                            *)
LateClaim ==
    /\ pc = "late"
    /\ IF held = <<>> \/ allAtOnce
       THEN /\ ClaimInbox
            /\ held' = held \o Texts(Claim(StepBatch))
            /\ pc' = IF CancelClaimed THEN "canceling" ELSE "results"
       ELSE pc' = "results" /\ UNCHANGED <<held, inboxVars>>
    /\ UNCHANGED <<loopVars, seen, endVars, sendVars>>

(* A tool hook ends the turn; if none does a cancel ends it.                 *)
LateCancel ==
    /\ pc = "canceling"
    /\ Stop("HookStopped") \/ Stop("Canceled")
    /\ UNCHANGED <<held, seen, endVars, sendVars, inboxVars>>

(* A tool hook ends the turn, or the deadline passed.                        *)
ResultsStop ==
    /\ pc = "results"
    /\ \/ Stop("HookStopped")
       \/ /\ pc' = "stopped" /\ stop' = "Deadline" /\ steps' = steps + 1
          /\ UNCHANGED <<goal, allAtOnce, continuations, noProgress, warned>>
    /\ UNCHANGED <<held, seen, endVars, sendVars, inboxVars>>

ResultsToModel ==
    /\ pc = "results"
    /\ NextCall(held)
    /\ UNCHANGED <<stop, goal, allAtOnce, continuations, noProgress, warned, endVars, sendVars, inboxVars>>

(* claim_inbox fails: the claim itself, or the update that applies row       *)
(* n + 1 after n rows were applied.  The turn ends with the error.           *)
ClaimFails ==
    /\ \/ pc = "final" /\ ~goal /\ steps < MaxSteps
       \/ pc = "tools" /\ steps < MaxSteps
       \/ pc = "late" /\ (held = <<>> \/ allAtOnce)
    /\ \/ UNCHANGED row
       \/ LET commands == Claim(StepBatch) IN
          \E n \in 0..(Len(commands) - 1) :
              row' = [m \in Messages |->
                        IF \E i \in 1..n : commands[i] = m THEN "delivered"
                        ELSE IF \E i \in (n + 1)..Len(commands) : commands[i] = m THEN "claimed"
                        ELSE row[m]]
    /\ Stop("Error")
    /\ UNCHANGED <<queue, held, seen, endVars, sendVars>>

-----------------------------------------------------------------------------
(* The turn gives up its inbox: nobody picks it up any more.                 *)
GiveUpInbox ==
    /\ pc = "stopped"
    /\ active' = FALSE
    /\ pc' = "waiting"
    /\ UNCHANGED <<loopVars, held, seen, carried, sweep, sendVars, inboxVars>>

(* A mutant: the turn does not wait for what is on its way.                  *)
SweepAtOnce ==
    /\ pc = "waiting"
    /\ sweep' = "waited"
    /\ pc' = "sweeping"
    /\ UNCHANGED <<loopVars, held, seen, active, carried, sendVars, inboxVars>>

(* carry_unread_messages: the wait, for at most three seconds.               *)
WaitForSenders ==
    /\ pc = "waiting"
    /\ sweep' = IF InFlight = {} THEN "waited" ELSE "timeout"
    /\ pc' = "sweeping"
    /\ UNCHANGED <<loopVars, held, seen, active, carried, sendVars, inboxVars>>

(* The texts nobody claimed are applied and handed to the next turn; a       *)
(* cancel is claimed and left so.                                            *)
Carry ==
    /\ pc = "sweeping"
    /\ LET claim == Claim(CarryLimit) IN
         /\ row' = [m \in Messages |->
                      IF \A i \in DOMAIN claim : claim[i] # m THEN row[m]
                      ELSE IF m \in Cancels THEN "claimed" ELSE "carried"]
         /\ carried' = carried \o Texts(claim)
    /\ pc' = "ended"
    /\ UNCHANGED <<loopVars, held, seen, active, sweep, sendVars, queue>>

(* The run or its commands cannot be read.                                   *)
CarryFails ==
    /\ pc = "sweeping"
    /\ sweep' = "failed"
    /\ pc' = "ended"
    /\ UNCHANGED <<loopVars, held, seen, active, carried, sendVars, inboxVars>>

(* applied_steering: the texts turn_steps puts back into the history that    *)
(* the next turn reads, where they were read or, if no step read them, last. *)
AppliedSteering == {m \in Messages \ Cancels : row[m] \in {"delivered", "carried"}}

-----------------------------------------------------------------------------
LoopStep ==
    \/ ModelAnswers \/ GoalStops \/ (\E progressed \in BOOLEAN : GoalNeedsWork(progressed))
    \/ FinalNoStepLeft \/ FinalClaim \/ ClaimCancels \/ SentBack \/ FinalStop
    \/ ToolsStop \/ EarlyClaim \/ LoopDetected \/ BatchStops
    \/ (\E repeated \in BOOLEAN : RunBatch(repeated))
    \/ LateClaim \/ LateCancel \/ ResultsStop \/ ResultsToModel \/ ClaimFails
    \/ GiveUpInbox \/ WaitForSenders \/ Carry \/ CarryFails

SendStep(m) == Count(m) \/ Insert(m) \/ Uncount(m) \/ NotQueued(m)

TurnNext == LoopStep \/ \E m \in Messages : Pick(m) \/ Cancel(m) \/ SendStep(m)

(* Every await of the loop ends: model calls, hooks, judges and tools have   *)
(* timeouts, and the wait for senders a deadline.  A message that was picked *)
(* up is inserted or refused by a task the executor runs.  Nobody has to     *)
(* send anything.                                                            *)
TurnSpec ==
    /\ TurnInit /\ [][TurnNext]_turnVars
    /\ WF_turnVars(LoopStep)
    /\ \A m \in Messages : WF_turnVars(SendStep(m))

-----------------------------------------------------------------------------
Ended == pc = "ended"

SeenMessages == {seen[i].message : i \in DOMAIN seen}

Position(m) == CHOOSE i \in DOMAIN queue : queue[i] = m

(* What is handed to this turn's steps and then to the next turn.            *)
Reading == [i \in DOMAIN seen |-> seen[i].message] \o carried

(* No message is handed over twice, to a step of this turn or as a new       *)
(* message to the next one, and they are handed over in the order of their   *)
(* rows, across the claims before, between and after the tool calls and at   *)
(* the end (claim_run_commands: state = 'pending' ORDER BY rowid).           *)
ReadOnceInOrder ==
    \A i, j \in DOMAIN Reading : i < j => Position(Reading[i]) < Position(Reading[j])

(* In one-at-a-time a model call is handed at most one message, though the   *)
(* inbox is read before and after the tools (run_turn_inner).                *)
OneAtATime ==
    ~allAtOnce => \A i, j \in DOMAIN seen : seen[i].step = seen[j].step => i = j

Delivered == {m \in Messages \ Cancels : row[m] = "delivered"}

(* The turn stopped where a claimed text may not have been shown.            *)
DroppingStop ==
    \/ stop \in {"LoopDetected", "HookStopped", "Deadline", "NeedsInput", "Error"}
    \/ stop = "Canceled" /\ \E m \in Cancels : row[m] = "delivered"

(* A turn that ends with an answer, by its goal, by the cancel token or by a *)
(* bound on its steps has shown the model everything it marked as delivered; *)
(* what it did not show is still pending when it ends (the step check before *)
(* claim_inbox).                                                             *)
DeliveredIsSeen == stop # "none" /\ ~DroppingStop => Delivered \subseteq SeenMessages

(* The turn ended after it waited for every sender, and its sweep had room   *)
(* for all it found.                                                         *)
SweptAll ==
    /\ Ended /\ sweep = "waited"
    /\ Cardinality({m \in Messages : row[m] = "carried" \/ (m \in Cancels /\ row[m] = "claimed")})
          < CarryLimit

(* A message that was counted before the turn gave up its inbox is read: the *)
(* turn that ended handed it to the model or to the next turn, or leaves it  *)
(* to the replay.  Excepted are an insert that failed, a wait that timed     *)
(* out, a store that failed, and a sweep that found CarryLimit messages      *)
(* (carry_unread_messages, claim_inbox, applied_steering).                   *)
CountedNotLost ==
    SweptAll =>
        \A m \in onTime : \/ m \in AppliedSteering
                          \/ sender[m] = "failed"
                          \/ stop = "Error" /\ row[m] = "claimed"

(* A message that lands after the last step of the turn, or is still on its  *)
(* way when the turn ends, goes to the next turn: none stays pending (the    *)
(* comment in queue_into_run, and test q03 of service.rs).                   *)
NoneLeftPending ==
    SweptAll =>
        \A m \in Messages : row[m] # "pending"

(* Whatever the model, the hooks, the judges and the goal evaluator answer,  *)
(* the turn ends: each way of sending the model back counts as a step, and   *)
(* the end of the turn does not wait for ever (run_turn_inner,               *)
(* carry_unread_messages).                                                   *)
TurnEnds == <>Ended

(* A message is handed over once, in order and one at a time where that is  *)
(* asked for, and what is marked as delivered was shown (claim_inbox).      *)
TurnInv == TurnTypeOK /\ ReadOnceInOrder /\ OneAtATime /\ DeliveredIsSeen
=============================================================================
