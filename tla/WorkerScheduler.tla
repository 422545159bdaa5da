-------------------------- MODULE WorkerScheduler ---------------------------
(***************************************************************************)
(* The worker scheduler of harness-orchestrator                            *)
(* (coordination/scheduler.rs): compute permits, the reservation of a task *)
(* by its dispatch, the channel of outcomes, waiting parents, and cancel   *)
(* and drain at shutdown.                                                  *)
(*                                                                         *)
(* A dispatch is a call of `dispatch` and the task it spawns; several run  *)
(* at once, on several threads, beside parents that wait for outcomes and  *)
(* the host that drains.  A step is what one of them does between two      *)
(* accesses to shared state.  The worker backend is the environment: it    *)
(* returns some outcome, some time.                                        *)
(***************************************************************************)
EXTENDS Integers, Sequences, FiniteSets

CONSTANTS
    Tasks,              \* task ids
    Dispatches,         \* calls of dispatch
    TaskOf,             \* the task each of them is for
    Parents,            \* callers of acquire_lease, await_next_releasing and next_settled
    Slots,              \* max_concurrent_workers
    Queue,              \* max_queued_workers
    MaxRequests,        \* budget.max_model_requests
    Capacity,           \* capacity of the outcome channel
    MaxDrains           \* bound on the calls of drain_descendants (shutdown, then join)

ASSUME SchedulerAssumption ==
    /\ TaskOf \in [Dispatches -> Tasks] /\ IsFiniteSet(Dispatches) /\ IsFiniteSet(Parents)
    /\ Slots \in Nat \ {0} /\ Queue \in Nat /\ MaxRequests \in Nat
    /\ Capacity \in Nat \ {0} /\ MaxDrains \in Nat

VARIABLES
    permits,            \* free permits of the semaphore
    closed,             \* the semaphore is closed
    shuttingDown,       \* shutting_down
    reserved,           \* task ids of dispatches that have not settled
    live,               \* dispatches in the live map
    cancelled,          \* dispatches whose token is cancelled
    requests,           \* requests charged to the budget
    outstanding,        \* the counter of outcomes not yet taken
    channel,            \* outcomes that were sent and not received
    lock,               \* who holds the receiver
    worker,             \* where each dispatch is
    parent,             \* where each parent is
    host,               \* where the host is in drain_descendants
    drains              \* how often it started one

schedulerVars == <<permits, closed, shuttingDown, reserved, live, cancelled, requests,
                   outstanding, channel, lock, worker, parent, host, drains>>

SchedulerTypeOK ==
    /\ permits \in 0..Slots
    /\ closed \in BOOLEAN /\ shuttingDown \in BOOLEAN
    /\ reserved \in SUBSET Tasks
    /\ live \in SUBSET Dispatches /\ cancelled \in SUBSET Dispatches
    /\ requests \in 0..MaxRequests
    /\ outstanding \in 0..Cardinality(Dispatches)
    /\ channel \in Seq(Dispatches) /\ Len(channel) <= Capacity
    /\ lock \in Parents \cup {"host", "free"}
    /\ worker \in [Dispatches -> {"idle", "admitted", "reserved", "refused", "queued", "holding", "live",
                                  "running", "returned", "retired", "sent", "taken"}]
    /\ parent \in [Parents -> {"idle", "asking", "leased", "waiting", "receiving"}]
    /\ host \in {"up", "flagged", "cancelled", "closed", "draining", "drained"}
    /\ drains \in 0..MaxDrains

SchedulerInit ==
    /\ permits = Slots
    /\ closed = FALSE /\ shuttingDown = FALSE
    /\ reserved = {} /\ live = {} /\ cancelled = {}
    /\ requests = 0 /\ outstanding = 0
    /\ channel = <<>> /\ lock = "free"
    /\ worker = [d \in Dispatches |-> "idle"]
    /\ parent = [p \in Parents |-> "idle"]
    /\ host = "up" /\ drains = 0

Go(d, pc) == worker' = [worker EXCEPT ![d] = pc]

-----------------------------------------------------------------------------
(* require_admission: not while shutting down, and not without budget.      *)
RequireAdmission(d) ==
    /\ worker[d] = "idle"
    /\ IF shuttingDown \/ requests >= MaxRequests THEN Go(d, "refused") ELSE Go(d, "admitted")
    /\ UNCHANGED <<permits, closed, shuttingDown, reserved, live, cancelled, requests,
                   outstanding, channel, lock, parent, host, drains>>

(* require_queue_capacity.                                                  *)
HasCapacity == Cardinality(reserved) < Slots + Queue

(* A mutant: the result of the insert is not looked at.                     *)
ReserveAnyway(d) ==
    /\ worker[d] = "admitted"
    /\ IF HasCapacity
         THEN Go(d, "reserved") /\ reserved' = reserved \cup {TaskOf[d]}
         ELSE Go(d, "refused") /\ UNCHANGED reserved
    /\ UNCHANGED <<permits, closed, shuttingDown, live, cancelled, requests, outstanding, channel,
                   lock, parent, host, drains>>

(* Under the lock of `reserved`: the queue bound, then the task.            *)
ReserveTask(d) ==
    /\ worker[d] = "admitted"
    /\ IF HasCapacity /\ TaskOf[d] \notin reserved
         THEN Go(d, "reserved") /\ reserved' = reserved \cup {TaskOf[d]}
         ELSE Go(d, "refused") /\ UNCHANGED reserved
    /\ UNCHANGED <<permits, closed, shuttingDown, live, cancelled, requests, outstanding, channel,
                   lock, parent, host, drains>>

(* charge_request, outstanding, spawn.  Without budget the reservation is   *)
(* given back.  What charge_request adds and takes off again at the limit   *)
(* changes nobody's decision.                                               *)
ChargeAndSpawn(d) ==
    /\ worker[d] = "reserved"
    /\ IF requests < MaxRequests
         THEN /\ requests' = requests + 1 /\ outstanding' = outstanding + 1
              /\ Go(d, "queued") /\ UNCHANGED reserved
         ELSE /\ Go(d, "refused") /\ reserved' = reserved \ {TaskOf[d]}
              /\ UNCHANGED <<requests, outstanding>>
    /\ UNCHANGED <<permits, closed, shuttingDown, live, cancelled, channel, lock, parent, host, drains>>

-----------------------------------------------------------------------------
(* The spawned task obtains a permit.                                       *)
AcquireSlot(d) ==
    /\ worker[d] = "queued" /\ ~closed /\ permits > 0
    /\ permits' = permits - 1
    /\ Go(d, "holding")
    /\ UNCHANGED <<closed, shuttingDown, reserved, live, cancelled, requests, outstanding, channel,
                   lock, parent, host, drains>>

(* It is cancelled while it waits, or the semaphore is closed under it.     *)
LeaveQueue(d) ==
    /\ worker[d] = "queued" /\ (closed \/ d \in cancelled)
    /\ Go(d, "retired")
    /\ reserved' = reserved \ {TaskOf[d]}
    /\ UNCHANGED <<permits, closed, shuttingDown, live, cancelled, requests, outstanding, channel,
                   lock, parent, host, drains>>

EnterLive(d) ==
    /\ worker[d] = "holding"
    /\ live' = live \cup {d}
    /\ Go(d, "live")
    /\ UNCHANGED <<permits, closed, shuttingDown, reserved, cancelled, requests, outstanding, channel,
                   lock, parent, host, drains>>

(* A worker that became live during the shutdown cancels itself, then runs. *)
StartBackend(d) ==
    /\ worker[d] = "live"
    /\ cancelled' = IF shuttingDown THEN cancelled \cup {d} ELSE cancelled
    /\ Go(d, "running")
    /\ UNCHANGED <<permits, closed, shuttingDown, reserved, live, requests, outstanding, channel, lock,
                   parent, host, drains>>

(* backend.dispatch returns, and the lease is released.                     *)
BackendReturns(d) ==
    /\ worker[d] = "running"
    /\ permits' = permits + 1
    /\ Go(d, "returned")
    /\ UNCHANGED <<closed, shuttingDown, reserved, live, cancelled, requests, outstanding, channel,
                   lock, parent, host, drains>>

(* retire!.                                                                 *)
Retire(d) ==
    /\ worker[d] = "returned"
    /\ live' = live \ {d} /\ reserved' = reserved \ {TaskOf[d]}
    /\ Go(d, "retired")
    /\ UNCHANGED <<permits, closed, shuttingDown, cancelled, requests, outstanding, channel, lock,
                   parent, host, drains>>

SendOutcome(d) ==
    /\ worker[d] = "retired" /\ Len(channel) < Capacity
    /\ channel' = Append(channel, d)
    /\ Go(d, "sent")
    /\ UNCHANGED <<permits, closed, shuttingDown, reserved, live, cancelled, requests, outstanding,
                   lock, parent, host, drains>>

(* The owner of the request cancels it.                                     *)
CancelOne(d) ==
    /\ worker[d] \notin {"idle", "refused", "taken"} /\ d \notin cancelled
    /\ cancelled' = cancelled \cup {d}
    /\ UNCHANGED <<permits, closed, shuttingDown, reserved, live, requests, outstanding, channel, lock,
                   worker, parent, host, drains>>

-----------------------------------------------------------------------------
(* acquire_lease: refused during a shutdown, else it waits for a permit.    *)
AskLease(p) ==
    /\ parent[p] = "idle" /\ ~shuttingDown
    /\ parent' = [parent EXCEPT ![p] = "asking"]
    /\ UNCHANGED <<permits, closed, shuttingDown, reserved, live, cancelled, requests, outstanding,
                   channel, lock, worker, host, drains>>

(* A permit for the parent itself, then one request of the budget; without  *)
(* it the permit is dropped.                                                *)
AcquireLease(p) ==
    /\ parent[p] = "asking" /\ ~closed /\ permits > 0
    /\ IF requests < MaxRequests
         THEN /\ permits' = permits - 1 /\ requests' = requests + 1
              /\ parent' = [parent EXCEPT ![p] = "leased"]
         ELSE /\ parent' = [parent EXCEPT ![p] = "idle"] /\ UNCHANGED <<permits, requests>>
    /\ UNCHANGED <<closed, shuttingDown, reserved, live, cancelled, outstanding, channel, lock,
                   worker, host, drains>>

(* The slots are closed while it waits.                                     *)
LeaseRefused(p) ==
    /\ parent[p] = "asking" /\ closed
    /\ parent' = [parent EXCEPT ![p] = "idle"]
    /\ UNCHANGED <<permits, closed, shuttingDown, reserved, live, cancelled, requests, outstanding,
                   channel, lock, worker, host, drains>>

(* A mutant: the waiting parent keeps its slot.                             *)
AwaitNextHolding(p) ==
    /\ parent[p] \in {"idle", "leased"}
    /\ parent' = [parent EXCEPT ![p] = "waiting"]
    /\ UNCHANGED <<permits, closed, shuttingDown, reserved, live, cancelled, requests, outstanding,
                   channel, lock, worker, host, drains>>

(* await_next_releasing with a lease, next_settled without one.             *)
AwaitNext(p) ==
    /\ parent[p] \in {"idle", "leased"}
    /\ permits' = IF parent[p] = "leased" THEN permits + 1 ELSE permits
    /\ parent' = [parent EXCEPT ![p] = "waiting"]
    /\ UNCHANGED <<closed, shuttingDown, reserved, live, cancelled, requests, outstanding, channel,
                   lock, worker, host, drains>>

(* next_settled: the receiver is locked and the counter is looked at once;  *)
(* none outstanding is the end of the stream.                               *)
LockReceiver(p) ==
    /\ parent[p] = "waiting" /\ lock = "free"
    /\ IF outstanding = 0
         THEN parent' = [parent EXCEPT ![p] = "idle"] /\ UNCHANGED lock
         ELSE parent' = [parent EXCEPT ![p] = "receiving"] /\ lock' = p
    /\ UNCHANGED <<permits, closed, shuttingDown, reserved, live, cancelled, requests, outstanding,
                   channel, worker, host, drains>>

TakeOutcome ==
    /\ channel # <<>>
    /\ channel' = Tail(channel)
    /\ outstanding' = outstanding - 1
    /\ Go(Head(channel), "taken")

Receive(p) ==
    /\ parent[p] = "receiving" /\ TakeOutcome
    /\ lock' = "free"
    /\ parent' = [parent EXCEPT ![p] = "idle"]
    /\ UNCHANGED <<permits, closed, shuttingDown, reserved, live, cancelled, requests, host, drains>>

-----------------------------------------------------------------------------
(* cancel_descendants: the flag, then the live workers, then the slots.     *)
CancelFlag ==
    /\ host \in {"up", "drained"} /\ drains < MaxDrains
    /\ shuttingDown' = TRUE /\ drains' = drains + 1
    /\ host' = "flagged"
    /\ UNCHANGED <<permits, closed, reserved, live, cancelled, requests, outstanding, channel, lock,
                   worker, parent>>

CancelLive ==
    /\ host = "flagged"
    /\ cancelled' = cancelled \cup live
    /\ host' = "cancelled"
    /\ UNCHANGED <<permits, closed, shuttingDown, reserved, live, requests, outstanding, channel, lock,
                   worker, parent, drains>>

CloseSlots ==
    /\ host = "cancelled"
    /\ closed' = TRUE
    /\ host' = "closed"
    /\ UNCHANGED <<permits, shuttingDown, reserved, live, cancelled, requests, outstanding, channel,
                   lock, worker, parent, drains>>

(* drain_descendants: every outcome that is still counted is taken.         *)
DrainLock ==
    /\ host = "closed" /\ lock = "free"
    /\ lock' = "host"
    /\ host' = "draining"
    /\ UNCHANGED <<permits, closed, shuttingDown, reserved, live, cancelled, requests, outstanding,
                   channel, worker, parent, drains>>

(* A mutant: the drain takes outcomes without lowering the count.           *)
DrainOneUncounted ==
    /\ host = "draining" /\ outstanding > 0 /\ channel # <<>>
    /\ channel' = Tail(channel)
    /\ Go(Head(channel), "taken")
    /\ UNCHANGED <<permits, closed, shuttingDown, reserved, live, cancelled, requests, outstanding, lock,
                   parent, host, drains>>

DrainOne ==
    /\ host = "draining" /\ outstanding > 0 /\ TakeOutcome
    /\ UNCHANGED <<permits, closed, shuttingDown, reserved, live, cancelled, requests, lock, parent,
                   host, drains>>

DrainDone ==
    /\ host = "draining" /\ outstanding = 0
    /\ lock' = "free"
    /\ host' = "drained"
    /\ UNCHANGED <<permits, closed, shuttingDown, reserved, live, cancelled, requests, outstanding,
                   channel, worker, parent, drains>>

-----------------------------------------------------------------------------
WorkerStep(d) ==
    \/ AcquireSlot(d) \/ LeaveQueue(d) \/ EnterLive(d) \/ StartBackend(d)
    \/ BackendReturns(d) \/ Retire(d) \/ SendOutcome(d)

DispatchStep(d) == RequireAdmission(d) \/ ReserveTask(d) \/ ChargeAndSpawn(d)

WaitStep(p) == LockReceiver(p) \/ Receive(p)

HostStep == CancelLive \/ CloseSlots \/ DrainLock \/ DrainOne \/ DrainDone

SchedulerNext ==
    \/ \E d \in Dispatches : DispatchStep(d) \/ WorkerStep(d) \/ CancelOne(d)
    \/ \E p \in Parents : AskLease(p) \/ AcquireLease(p) \/ LeaseRefused(p) \/ AwaitNext(p) \/ WaitStep(p)
    \/ CancelFlag \/ HostStep

(* The executor runs every spawned task, the semaphore hands its permits    *)
(* out in the order they are asked for, the receiver's mutex likewise, and  *)
(* a backend returns: its turn ends, and a cancelled one ends at once.      *)
(* Nobody has to dispatch, wait, cancel or drain.  A parent that holds a    *)
(* lease and never waits would keep its slot; it goes on to wait.           *)
SchedulerSpec ==
    /\ SchedulerInit /\ [][SchedulerNext]_schedulerVars
    /\ \A d \in Dispatches : SF_schedulerVars(WorkerStep(d))
    /\ \A p \in Parents : SF_schedulerVars(WaitStep(p)) /\ WF_schedulerVars(parent[p] = "leased" /\ AwaitNext(p))
    /\ SF_schedulerVars(HostStep)

-----------------------------------------------------------------------------
(* Dispatched workers whose outcome nobody has taken.                       *)
InFlight == {d \in Dispatches : worker[d] \in {"queued", "holding", "live", "running", "returned",
                                               "retired", "sent"}}

(* The count tells an exhausted stream from an empty one: it is zero        *)
(* exactly when no outcome is in the channel or still on its way, so a      *)
(* reader neither gives up too early nor waits for nothing (the comment of  *)
(* `outstanding`, next_settled).                                            *)
StreamIsCounted == outstanding = Cardinality(InFlight)

(* Two dispatches of one task never both hold it: from the reservation to   *)
(* the retirement a task belongs to one worker, and what a refused or       *)
(* settled dispatch held is given back (dispatch, retire!).                 *)
OneWorkerPerTask ==
    \A t \in Tasks :
        Cardinality({d \in Dispatches : TaskOf[d] = t /\ worker[d] \in
            {"reserved", "queued", "holding", "live", "running", "returned"}}) =
        (IF t \in reserved THEN 1 ELSE 0)

(* No worker outruns a shutdown: once cancel_descendants has gone through   *)
(* the live map, every worker inside its backend is cancelled, also one     *)
(* that got its slot before the flag and became live after the loop.        *)
ShutdownReachesRunning ==
    host \in {"cancelled", "closed", "draining", "drained"} =>
        \A d \in Dispatches : worker[d] = "running" => d \in cancelled

(* After a drain no worker runs: the host closes the storage next, and a    *)
(* dispatch that was admitted before the shutdown finds the slots closed    *)
(* (cancel_descendants, drain_descendants).                                 *)
DrainedIsQuiet ==
    host = "drained" => \A d \in Dispatches : worker[d] \notin {"holding", "live", "running", "returned"}

(* A parent that waits for a worker is served: its own slot never keeps its *)
(* children from running (await_next_releasing).                            *)
ParentIsServed == \A p \in Parents : parent[p] = "waiting" ~> parent[p] = "idle"

(* A drain ends: a cancelled worker settles, a queued one too               *)
(* (drain_descendants).                                                     *)
DrainEnds == host = "flagged" ~> host = "drained"

(* The slots, the reservations, the count and the live map agree, and a     *)
(* shutdown reaches every worker (dispatch, cancel_descendants).            *)
SchedulerInv ==
    SchedulerTypeOK /\ StreamIsCounted /\ OneWorkerPerTask /\ ShutdownReachesRunning /\ DrainedIsQuiet
=============================================================================
