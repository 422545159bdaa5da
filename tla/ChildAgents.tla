----------------------------- MODULE ChildAgents ----------------------------
(***************************************************************************)
(* The child agents of a session (harness-cli, host/coordination/          *)
(* delegation.rs): a child's runs and turns, the routing of messages to a  *)
(* child that is starting, in a turn, between turns or finished, the       *)
(* settlement that announces its result, and the parent that waits.        *)
(*                                                                         *)
(* A step is what happens under one hold of the registry's lock.  A child  *)
(* is a task of the worker scheduler (module WorkerScheduler), a turn is   *)
(* module TurnSteering's; here a turn is its inbox and how it ends.  The   *)
(* root agent reads every event it is sent.                                *)
(***************************************************************************)
EXTENDS Integers, FiniteSets

CONSTANTS
    Children,           \* the children that may be spawned
    Root,               \* the session's own agent
    ParentOf,           \* who spawns each of them
    Messages,           \* agent messages
    From, To,           \* sender and addressed child of each
    MaxWorkers,         \* [agents] max_workers, 0 for no limit
    Stoppable,          \* the children somebody may stop or delete
    Interrupted         \* whether a wait for a child may be cancelled

ASSUME ChildAssumption ==
    /\ Root \notin Children
    /\ ParentOf \in [Children -> Children \cup {Root}]
    /\ From \in [Messages -> Children \cup {Root}] /\ To \in [Messages -> Children]
    /\ Messages \cap (Children \X Nat) = {}
    /\ MaxWorkers \in Nat /\ Stoppable \subseteq Children /\ Interrupted \in BOOLEAN

VARIABLES
    child,              \* the record of each child, with where its run is
    send,               \* where each message is
    wait,               \* the caller that waits for each child, if any
    told,               \* results that reached the root or a caller, with how
    hidden,             \* results kept from the parent for a caller that had stopped waiting
    unread              \* what a child that failed or was stopped had taken and will not read

childVars == <<child, send, wait, told, hidden, unread>>

NoChild == [state |-> "none", gen |-> 0, token |-> FALSE, deleted |-> FALSE, replied |-> FALSE,
            announced |-> FALSE, session |-> FALSE, inTurn |-> FALSE, backlog |-> {}, pending |-> {},
            inbox |-> {}, wake |-> {}, read |-> {}, run |-> "none", end |-> "none", sweep |-> FALSE, owed |-> {}, rewake |-> FALSE]

(* What an agent can read: a message, or the notice of one child's run.     *)
Notices == Children \X Nat
Items == Messages \cup Notices

(* How a result is told: by the notice of it, by a message of the child, by *)
(* the call that waited for it, or by one made when it was there already.   *)
Ways == {"notice", "reply", "call", "late"}

ChildTypeOK ==
    /\ \A c \in Children :
        /\ child[c].state \in {"none", "running", "done", "failed", "cancelled"}
        /\ child[c].gen \in Nat
        /\ {child[c].token, child[c].deleted, child[c].replied, child[c].announced,
            child[c].session, child[c].inTurn, child[c].sweep, child[c].rewake} \subseteq BOOLEAN
        /\ \A f \in {"backlog", "pending", "inbox", "wake", "read", "owed"} : child[c][f] \subseteq Items
        /\ child[c].run \in {"none", "queued", "opening", "opened", "turn", "stopped", "closing",
                             "carried", "quiet", "reported"}
        /\ child[c].end \in {"none", "answer", "failed", "unknown"}
    /\ send \in [Messages -> {"idle", "route", "wake", "inbox", "accepted", "refused"}]
    /\ wait \in [Children -> {"none", "waiting", "late", "leaving"}]
    /\ told \subseteq Children \X Nat \X Ways /\ hidden \subseteq Notices /\ unread \subseteq Items

ChildInit ==
    /\ child = [c \in Children |-> NoChild]
    /\ send = [m \in Messages |-> "idle"]
    /\ wait = [c \in Children |-> "none"]
    /\ told = {} /\ hidden = {} /\ unread = {}

Settled(c) == child[c].state \in {"done", "failed", "cancelled"}
OfRoot(c) == ParentOf[c] = Root
ChildrenOf(p) == {c \in Children : ParentOf[c] = p}
Descendants(c) ==
    {d \in Children : \A S \in SUBSET Children :
        ChildrenOf(c) \subseteq S /\ (\A x \in S : ChildrenOf(x) \subseteq S) => d \in S}
Depth(c) == 1 + Cardinality({d \in Children : c \in Descendants(d)})

(* The agent is inside a turn, where its tools start and call children.     *)
Acting(p) == p \in Children => child[p].run = "turn"

-----------------------------------------------------------------------------
(* start: the record and the dispatch.  The scheduler of each depth has no  *)
(* bound (level_scheduler).                                                 *)
Start(c) ==
    /\ child[c].state = "none" /\ Acting(ParentOf[c])
    /\ child' = [child EXCEPT ![c].state = "running", ![c].gen = 1, ![c].run = "queued"]
    /\ UNCHANGED <<send, wait, told, hidden, unread>>

(* The root's children that hold a worker slot.                             *)
RunningWorkers == {c \in ChildrenOf(Root) : child[c].run \notin {"none", "queued", "reported"}}

(* A mutant: every child needs one of the slots.                            *)
AnySlotFree(c) ==
    MaxWorkers = 0 \/ Cardinality({d \in Children : child[d].run \notin {"none", "queued", "reported"}}) < MaxWorkers

SlotFree(c) == ~OfRoot(c) \/ MaxWorkers = 0 \/ Cardinality(RunningWorkers) < MaxWorkers

TakeSlot(c) ==
    /\ child[c].run = "queued" /\ SlotFree(c) /\ ~child[c].token
    /\ child' = [child EXCEPT ![c].run = "opening"]
    /\ UNCHANGED <<send, wait, told, hidden, unread>>

StoppedInQueue(c) ==
    /\ child[c].run = "queued" /\ child[c].token
    /\ child' = [child EXCEPT ![c].run = "reported", ![c].end = "unknown", ![c].wake = {}]
    /\ unread' = unread \cup child[c].wake
    /\ UNCHANGED <<send, wait, told, hidden>>

(* The run fails before its session is announced: the child has no launch   *)
(* or its worktree is not the granted one, or the store gives no lease.     *)
(* The backlog stays; what it was woken for is replaced by the next wake.   *)
OpenFails(c) ==
    /\ child[c].run \in {"queued", "opening"}
    /\ child' = [child EXCEPT ![c].run = "reported", ![c].end = "failed", ![c].wake = {}]
    /\ unread' = unread \cup child[c].wake
    /\ UNCHANGED <<send, wait, told, hidden>>

(* A mutant: the backlog is read before the session is announced, and what  *)
(* is sent in between stays there.                                          *)
OpenForgetsBacklog(c) ==
    /\ child[c].run = "opening"
    /\ child' = [child EXCEPT ![c].run = "opened", ![c].session = TRUE, ![c].backlog = {}, ![c].wake = {},
                              ![c].read = @ \cup child[c].wake]
    /\ UNCHANGED <<send, wait, told, hidden, unread>>

(* The session is announced and the backlog taken under one hold of the     *)
(* lock; the wake message is taken after it, and nothing looks at it in     *)
(* between.  The first prompt is the wake message, or the task, and the     *)
(* backlog.                                                                 *)
Open(c) ==
    /\ child[c].run = "opening"
    /\ child' = [child EXCEPT ![c].run = "opened", ![c].session = TRUE, ![c].backlog = {}, ![c].wake = {},
                              ![c].read = @ \cup child[c].backlog \cup child[c].wake]
    /\ UNCHANGED <<send, wait, told, hidden, unread>>

BeginTurn(c) ==
    /\ child[c].run = "opened"
    /\ child' = [child EXCEPT ![c].run = "turn", ![c].inTurn = TRUE, ![c].end = "none"]
    /\ UNCHANGED <<send, wait, told, hidden, unread>>

(* The turn claims what is in its inbox (module TurnSteering).              *)
ReadInbox(c) ==
    /\ child[c].run = "turn" /\ child[c].inbox # {}
    /\ child' = [child EXCEPT ![c].read = @ \cup child[c].inbox, ![c].inbox = {}]
    /\ UNCHANGED <<send, wait, told, hidden, unread>>

(* The turn ends, with an answer or not, once no tool of it runs: a message *)
(* being sent, a child being waited for.  A failed turn may have claimed    *)
(* messages it did not show the model (module TurnSteering).                *)
TurnStops(c) ==
    /\ child[c].run = "turn"
    /\ \A m \in Messages : From[m] = c => send[m] \notin {"route", "wake", "inbox"}
    /\ \A d \in ChildrenOf(c) : wait[d] = "none"
    /\ \E how \in {"answer", "failed"}, lost \in SUBSET child[c].inbox :
         /\ how = "answer" => lost = {}
         /\ child' = [child EXCEPT ![c].run = "stopped", ![c].end = how, ![c].inbox = @ \ lost]
         /\ unread' = unread \cup lost
    /\ UNCHANGED <<send, wait, told, hidden>>

LeaveTurn(c) ==
    /\ child[c].run = "stopped"
    /\ child' = [child EXCEPT ![c].run = "closing", ![c].inTurn = FALSE]
    /\ UNCHANGED <<send, wait, told, hidden, unread>>

InFlight(c) == {m \in Messages : To[m] = c /\ send[m] = "inbox"}

(* What the turn did not claim goes to the next one, after the last send    *)
(* that selected its inbox.  When a row cannot be claimed or applied, it    *)
(* and those after it stay in the old run's inbox, and the child has        *)
(* failed; so it has when the task's lease cannot be released after that.   *)
Carry(c) ==
    /\ child[c].run = "closing" /\ InFlight(c) = {}
    /\ \E moved \in SUBSET child[c].inbox, failed \in BOOLEAN :
         /\ moved # child[c].inbox => failed
         /\ child' = [child EXCEPT ![c].run = "carried", ![c].pending = @ \cup moved, ![c].inbox = {},
                                   ![c].end = IF failed THEN "failed" ELSE @]
         /\ unread' = unread \cup (child[c].inbox \ moved)
    /\ UNCHANGED <<send, wait, told, hidden>>

(* A failed turn, or a stopped child, is reported; an answered one looks    *)
(* for something more to read.  A failure after an earlier answer is        *)
(* reported with that answer; its notice is the same.                       *)
AfterTurn(c) ==
    /\ child[c].run = "carried"
    /\ child' = [child EXCEPT
         ![c].run = IF child[c].end = "failed" \/ child[c].token THEN "reported" ELSE "quiet",
         ![c].end = IF child[c].end = "failed" THEN "failed" ELSE IF child[c].token THEN "unknown" ELSE @]
    /\ UNCHANGED <<send, wait, told, hidden, unread>>

HasRunning(c) == \E d \in ChildrenOf(c) : child[d].state = "running"

(* quiet: something to read opens another turn, in a new session.           *)
ReadPending(c) ==
    /\ child[c].run = "quiet" /\ child[c].pending # {}
    /\ child' = [child EXCEPT ![c].run = "opened", ![c].read = @ \cup child[c].pending, ![c].pending = {}]
    /\ UNCHANGED <<send, wait, told, hidden, unread>>

(* quiet: nothing to read and no child running, or stopped while it waits.  *)
Report(c) ==
    /\ child[c].run = "quiet" /\ child[c].pending = {}
    /\ ~HasRunning(c) \/ child[c].token
    /\ child' = [child EXCEPT ![c].run = "reported", ![c].end = IF child[c].token THEN "unknown" ELSE "answer"]
    /\ UNCHANGED <<send, wait, told, hidden, unread>>

-----------------------------------------------------------------------------
(* The pump of one depth settles one child at a time.                       *)
Settling(c) == child[c].sweep \/ child[c].owed # {} \/ child[c].rewake
PumpFree(c) == \A d \in Children : Depth(d) = Depth(c) => ~Settling(d)

FinalState(c) ==
    IF child[c].token THEN "cancelled" ELSE IF child[c].end = "answer" THEN "done" ELSE "failed"

(* A mutant: what arrived after the last look is left to a later message.   *)
NeverRewake(c) == FALSE

(* A message arrived after the child's last look: it runs again first.      *)
Rewake(c) == ~child[c].deleted /\ FinalState(c) = "done" /\ child[c].pending # {}

(* A mutant: only a child that answered is announced.                       *)
NoticeOfAnswers(c) ==
    ~Rewake(c) /\ wait[c] = "none" /\ FinalState(c) = "done" /\ ~child[c].announced /\ ~child[c].replied

Notice(c) ==
    /\ ~Rewake(c) /\ wait[c] = "none"
    /\ FinalState(c) = "done" => ~child[c].announced /\ ~child[c].replied

(* settle, under the lock: the state, and whether there is a notice; the    *)
(* root's is sent there and then.                                           *)
Settle(c) ==
    /\ child[c].run = "reported" /\ PumpFree(c)
    /\ child' = [child EXCEPT
         ![c].state = FinalState(c), ![c].run = "none", ![c].sweep = TRUE, ![c].rewake = Rewake(c),
         ![c].owed = IF Notice(c) /\ ~OfRoot(c) THEN {<<c, child[c].gen>>} ELSE {},
         ![c].announced = @ \/ (FinalState(c) = "done" /\ ~Rewake(c))]
    /\ told' = IF Notice(c) /\ OfRoot(c) THEN told \cup {<<c, child[c].gen, "notice">>} ELSE told
    /\ hidden' = IF wait[c] = "leaving" THEN hidden \cup {<<c, child[c].gen>>} ELSE hidden
    /\ UNCHANGED <<send, wait, unread>>

CancelAll(rec, S) == [d \in Children |-> IF d \in S /\ rec[d].state = "running" THEN [rec[d] EXCEPT !.token = TRUE] ELSE rec[d]]

(* settle, after the lock: its descendants are stopped.                     *)
CancelDescendants(c) ==
    /\ child[c].sweep
    /\ child' = CancelAll([child EXCEPT ![c].sweep = FALSE], Descendants(c))
    /\ UNCHANGED <<send, wait, told, hidden, unread>>

(* Then a nested child's notice goes to its parent.                         *)
TellParent(c) ==
    /\ ~child[c].sweep /\ child[c].owed # {}
    /\ child' = [child EXCEPT ![ParentOf[c]].pending = @ \cup child[c].owed, ![c].owed = {}]
    /\ UNCHANGED <<send, wait, told, hidden, unread>>

Woken(c, texts) ==
    [child[c] EXCEPT !.state = "running", !.gen = @ + 1, !.token = FALSE, !.replied = FALSE,
                     !.wake = child[c].pending \cup texts, !.pending = {}, !.run = "queued", !.end = "none"]

(* Or the child is woken for what arrived late, unless somebody else woke   *)
(* it meanwhile, and took that along.                                       *)
WakePending(c) ==
    /\ ~child[c].sweep /\ child[c].rewake
    /\ child' = [child EXCEPT ![c] =
         [(IF Settled(c) /\ ~child[c].deleted /\ child[c].pending # {} THEN Woken(c, {}) ELSE child[c])
            EXCEPT !.rewake = FALSE]]
    /\ UNCHANGED <<send, wait, told, hidden, unread>>

-----------------------------------------------------------------------------
(* A message to a child: the sender is in a turn.  What a child sends its   *)
(* parent counts as its reply.                                              *)
SendMessage(m) ==
    /\ send[m] = "idle" /\ Acting(From[m]) /\ child[To[m]].state # "none"
    /\ send' = [send EXCEPT ![m] = "route"]
    /\ child' = IF From[m] # Root /\ To[m] = ParentOf[From[m]]
                  THEN [child EXCEPT ![From[m]].replied = TRUE] ELSE child
    /\ UNCHANGED <<wait, told, hidden, unread>>

(* A child of the root answers it with a message.                           *)
ReplyToRoot(c) ==
    /\ OfRoot(c) /\ child[c].run = "turn" /\ ~child[c].replied
    /\ child' = [child EXCEPT ![c].replied = TRUE]
    /\ told' = told \cup {<<c, child[c].gen, "reply">>}
    /\ UNCHANGED <<send, wait, hidden, unread>>

(* deliver_to_child: the route, under the lock.                             *)
RouteMessage(m) ==
    LET c == To[m] IN
    /\ send[m] = "route"
    /\ \/ child[c].deleted /\ send' = [send EXCEPT ![m] = "refused"] /\ UNCHANGED child
       \/ ~child[c].deleted /\ Settled(c) /\ send' = [send EXCEPT ![m] = "wake"] /\ UNCHANGED child
       \/ /\ ~child[c].deleted /\ ~Settled(c) /\ ~child[c].session
          /\ send' = [send EXCEPT ![m] = "accepted"]
          /\ child' = [child EXCEPT ![c].backlog = @ \cup {m}]
       \/ /\ ~child[c].deleted /\ ~Settled(c) /\ child[c].session /\ ~child[c].inTurn
          /\ send' = [send EXCEPT ![m] = "accepted"]
          /\ child' = [child EXCEPT ![c].pending = @ \cup {m}]
       \/ /\ ~child[c].deleted /\ ~Settled(c) /\ child[c].session /\ child[c].inTurn
          /\ send' = [send EXCEPT ![m] = "inbox"] /\ UNCHANGED child
    /\ UNCHANGED <<wait, told, hidden, unread>>

(* The row of the run's inbox is written, or the send fails: no run within  *)
(* two seconds, or the sender's turn is over.                               *)
Enqueue(m) ==
    /\ send[m] = "inbox"
    /\ \/ send' = [send EXCEPT ![m] = "accepted"] /\ child' = [child EXCEPT ![To[m]].inbox = @ \cup {m}]
       \/ send' = [send EXCEPT ![m] = "refused"] /\ UNCHANGED child
    /\ UNCHANGED <<wait, told, hidden, unread>>

(* wake_messages: the child is looked at again; one that runs by now gets   *)
(* the message on its other routes.                                         *)
WakeChild(m) ==
    LET c == To[m] IN
    /\ send[m] = "wake"
    /\ send' = [send EXCEPT ![m] = IF child[c].deleted THEN "refused" ELSE IF Settled(c) THEN "accepted" ELSE "route"]
    /\ child' = IF Settled(c) /\ ~child[c].deleted THEN [child EXCEPT ![c] = Woken(c, {m})] ELSE child
    /\ UNCHANGED <<wait, told, hidden, unread>>

-----------------------------------------------------------------------------
(* wait: a `delegate` or `collect` call waits for the child's result, which *)
(* may be there already.                                                    *)
BeginWait(c) ==
    /\ child[c].state # "none" /\ wait[c] = "none" /\ Acting(ParentOf[c])
    /\ child[c].gen = 1 /\ \A how \in {"call", "late"} : <<c, 1, how>> \notin told
    /\ wait' = [wait EXCEPT ![c] = IF Settled(c) THEN "late" ELSE "waiting"]
    /\ UNCHANGED <<child, send, told, hidden, unread>>

WaitReturns(c) ==
    /\ wait[c] \in {"waiting", "late"} /\ Settled(c)
    /\ wait' = [wait EXCEPT ![c] = "none"]
    /\ told' = told \cup {<<c, child[c].gen, IF wait[c] = "waiting" THEN "call" ELSE "late">>}
    /\ UNCHANGED <<child, send, hidden, unread>>

(* The turn that waits is cancelled: the call returns an error, and then    *)
(* stops counting as a waiter.  The child may have settled already, for     *)
(* the caller that waited; a result found at the first look is returned.    *)
WaitCancelled(c) ==
    /\ wait[c] = "waiting" \/ (wait[c] = "late" /\ ~Settled(c))
    /\ (OfRoot(c) => Interrupted) /\ (~OfRoot(c) => child[ParentOf[c]].token)
    /\ wait' = [wait EXCEPT ![c] = "leaving"]
    /\ hidden' = IF Settled(c) THEN hidden \cup {<<c, child[c].gen>>} ELSE hidden
    /\ UNCHANGED <<child, send, told, unread>>

LeaveWait(c) ==
    /\ wait[c] = "leaving"
    /\ wait' = [wait EXCEPT ![c] = "none"]
    /\ UNCHANGED <<child, send, told, hidden, unread>>

(* stop: the child and its descendants are cancelled.                       *)
Stop(c) ==
    /\ c \in Stoppable /\ child[c].state = "running" /\ ~child[c].deleted
    /\ child' = CancelAll(child, {c} \cup Descendants(c))
    /\ UNCHANGED <<send, wait, told, hidden, unread>>

Delete(c) ==
    /\ c \in Stoppable /\ child[c].state # "none" /\ ~child[c].deleted
    /\ child' = CancelAll([child EXCEPT ![c].deleted = TRUE], {c} \cup Descendants(c))
    /\ UNCHANGED <<send, wait, told, hidden, unread>>

-----------------------------------------------------------------------------
RunGoesOn(c) ==
    \/ TakeSlot(c) \/ StoppedInQueue(c) \/ Open(c) \/ BeginTurn(c) \/ ReadInbox(c) \/ TurnStops(c)
    \/ LeaveTurn(c) \/ Carry(c) \/ AfterTurn(c) \/ ReadPending(c) \/ Report(c)
    \/ Settle(c) \/ CancelDescendants(c) \/ TellParent(c) \/ WakePending(c)

RunStep(c) == RunGoesOn(c) \/ OpenFails(c)

WaitStep(c) == WaitReturns(c) \/ LeaveWait(c) \/ (~OfRoot(c) /\ WaitCancelled(c))

DeliverStep(m) == RouteMessage(m) \/ Enqueue(m) \/ WakeChild(m)

ChildNext ==
    \/ \E c \in Children :
         \/ Start(c) \/ RunStep(c) \/ ReplyToRoot(c) \/ BeginWait(c) \/ WaitStep(c) \/ WaitCancelled(c)
         \/ Stop(c) \/ Delete(c)
    \/ \E m \in Messages : SendMessage(m) \/ DeliverStep(m)

(* The runtime's tasks run, a turn ends (module TurnSteering, TurnEnds),    *)
(* and slots go round.  A run that waits for a slot does not fail for that. *)
(* Nobody has to spawn, send, wait, stop or delete.                         *)
ChildSpec ==
    /\ ChildInit /\ [][ChildNext]_childVars
    /\ \A c \in Children : SF_childVars(RunGoesOn(c)) /\ WF_childVars(WaitStep(c))
    /\ \A m \in Messages : WF_childVars(DeliverStep(m))

-----------------------------------------------------------------------------
(* Where an accepted message can still be, short of having been read.       *)
Held(c) == child[c].backlog \cup child[c].pending \cup child[c].inbox \cup child[c].wake

(* A message the sender was told is queued or delivered is read, or waits   *)
(* where the child's next turn or next run takes it from, whatever the      *)
(* child did meanwhile (deliver_to_child, settle, wake_messages).  What a   *)
(* run that failed or was stopped had taken, or could not carry, is lost    *)
(* with it (unread).                                                        *)
AcceptedIsKept ==
    \A m \in Messages : send[m] = "accepted" => m \in child[To[m]].read \cup Held(To[m]) \cup unread

(* Only a run that is under way has an inbox a message may be written to:   *)
(* no message is left in the inbox of a turn that has been carried over.    *)
InboxIsOfATurn ==
    \A c \in Children : child[c].inbox # {} => child[c].run \in {"turn", "stopped", "closing"}

(* A child runs once at a time: the sender that wakes it and the settlement *)
(* that wakes it for what came late never both dispatch it.                 *)
OneRunAtATime ==
    [][\A c \in Children : child'[c].gen # child[c].gen => child[c].run = "none"]_childVars

(* Where the agent that spawned c has what it was given of it.              *)
OfParent(c) == IF OfRoot(c) THEN {} ELSE child[ParentOf[c]].read \cup Held(ParentOf[c]) \cup unread

(* The notice of run n of c was sent, to the root or to c's parent.         *)
Noticed(c, n) == <<c, n, "notice">> \in told \/ <<c, n>> \in child[c].owed \cup OfParent(c)

(* A result is told once: a caller that waits for it since before the child *)
(* settled is not also sent the notice of that run, neither while it waits  *)
(* nor after it has the result (settle, waiters).                           *)
AnnouncedOnce ==
    \A c \in Children :
        /\ wait[c] = "waiting" => ~Noticed(c, child[c].gen)
        /\ \A n \in 1 .. child[c].gen : <<c, n, "call">> \in told => ~Noticed(c, n)

(* What c sent the agent that spawned it, by where that has gone.           *)
Replies(c, where) == {m \in Messages : From[m] = c /\ To[m] = ParentOf[c] /\ send[m] = where}

(* Nobody waits, nothing is under way, and the child's first run is over:   *)
(* its parent has the result, by the notice, by a message of the child that *)
(* was accepted, or by the call that waited.  Three results are not told:   *)
(* one that settled for a call which was just being cancelled; one of a     *)
(* child whose own message to its parent was refused, which counts as its   *)
(* reply all the same (to_parent); and one that was to be told after a      *)
(* message that had come late, of a child deleted before that (settle).     *)
ResultIsTold ==
    \A c \in Children :
        (Settled(c) /\ child[c].gen = 1 /\ wait[c] = "none" /\ ~Settling(c)) =>
            \/ \E how \in Ways : <<c, 1, how>> \in told
            \/ ({<<c, 1>>} \cup Replies(c, "accepted")) \cap OfParent(c) # {}
            \/ <<c, 1>> \in hidden \/ Replies(c, "refused") # {}
            \/ child[c].deleted /\ child[c].state = "done" /\ ~child[c].announced

(* Every child settles: also with one worker slot, a child that waits for   *)
(* its own children and is never given a message.                           *)
EveryChildSettles == \A c \in Children : child[c].state = "running" ~> Settled(c)

(* An accepted message is read, unless the child failed, was stopped or was *)
(* deleted before it came to it, or with the message in hand (unread).      *)
AcceptedIsRead ==
    \A m \in Messages : send[m] = "accepted" ~>
        \/ m \in child[To[m]].read \cup unread
        \/ child[To[m]].state \in {"failed", "cancelled"} \/ child[To[m]].deleted

(* Whatever a child, its parent and the senders do at that moment: a        *)
(* message is kept where a turn finds it, and one run is under way          *)
(* (deliver_to_child, settle, wake_messages).                               *)
ChildSafe == [](ChildTypeOK /\ AcceptedIsKept /\ InboxIsOfATurn) /\ OneRunAtATime

(* A parent is told the result of a child, and not twice (settle, waiters). *)
ToldOnce == ResultIsTold /\ AnnouncedOnce
=============================================================================
