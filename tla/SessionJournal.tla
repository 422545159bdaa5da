--------------------------- MODULE SessionJournal ---------------------------
(***************************************************************************)
(* The journals of the sessions of one task, the task's stored working     *)
(* state and lease, and the recovery of a session (harness-session lib.rs; *)
(* harness-tools runtime/service.rs; harness-store-sqlite store/mod.rs).   *)
(*                                                                         *)
(* A writer reads the working state, reads the next sequence and commits   *)
(* an event with the state it computed, in three steps between which       *)
(* others commit.  The session service compares the two reads              *)
(* (sequence_after); the tool service does not, and the turn driver runs   *)
(* its journal writes one at a time (module ToolBatch).                    *)
(*                                                                         *)
(* The tables of inputs, intents and receipts are read off the journals.   *)
(***************************************************************************)
EXTENDS Integers, Sequences, FiniteSets

CONSTANTS
    Sessions,       \* the sessions of the task, in no order
    Executions,     \* tool executions
    Writers,        \* concurrent tasks of the host that write
    Recovered,      \* the sessions somebody recovers
    Kinds,          \* the kinds of event they write
    MaxEvents,      \* bound on the events of a session
    MaxGen,         \* bound on the hosts that open the store one after the other
    MaxSnapshots    \* bound on the snapshots of a session

ToolKinds == {"intent", "receipt", "note"}
SessionKinds == {"runtime", "decision"}

ASSUME JournalAssumption ==
    /\ Recovered \subseteq Sessions /\ Kinds \subseteq ToolKinds \cup SessionKinds
    /\ MaxEvents \in Nat \ {0} /\ MaxGen \in Nat \ {0} /\ MaxSnapshots \in Nat
    /\ IsFiniteSet(Writers)
    /\ "none" \notin Sessions

VARIABLES
    journal,        \* the events of each session
    projection,     \* the stored working state of the task
    lease,          \* the session and host generation that hold the task
    gen,            \* the generation of the host that holds the store
    markers,        \* source-work markers whose key is a sequence alone
    op,             \* what each writer is doing
    recovery,       \* the recovery under way, if any
    cache,          \* the fold kept for the next recovery
    snapshots       \* stored snapshots

journalVars == <<journal, projection, lease, gen, markers, op, recovery, cache, snapshots>>

None == "none"
NoLease == [session |-> None, gen |-> 0]
NoOp == [stage |-> "idle"]

NoState == [session |-> None, through |-> 0, pending |-> {}, notes |-> {}, decisions |-> {}, retired |-> {}]

(* What a recovery returns: the state, the receipts, and the instructions   *)
(* (the sequence of the input and of the decisions in force).               *)
NoView == [state |-> NoState, receipts |-> {}, texts |-> {}]

Fresh(s) == [NoState EXCEPT !.session = s, !.through = 1]

JournalInit ==
    /\ journal = [s \in Sessions |-> <<>>]
    /\ projection = NoState /\ lease = NoLease /\ gen = 1 /\ markers = {}
    /\ op = [w \in Writers |-> NoOp]
    /\ recovery = [stage |-> "idle"] /\ cache = NoView
    /\ snapshots = [s \in Sessions |-> {}]

-----------------------------------------------------------------------------
(* apply_decision.                                                          *)
ApplyDecision(state, n, old) ==
    [state EXCEPT !.decisions = (@ \ {old}) \cup {n}, !.through = n,
                  !.retired = IF old = 0 THEN @ ELSE @ \cup {old}]

(* A mutant: the first receipt of a batch clears all pending calls.         *)
EffectClearsPending(state, kind, of, n) ==
    CASE kind = "intent" -> [state EXCEPT !.pending = @ \cup {of}, !.through = n]
      [] kind = "receipt" -> [state EXCEPT !.pending = {}, !.through = n]
      [] OTHER -> [state EXCEPT !.through = n]

(* What the writer of an event does to the state it read; the fold does the *)
(* same (fold_event).                                                       *)
Effect(state, kind, of, n) ==
    CASE kind = "intent" -> [state EXCEPT !.pending = @ \cup {of}, !.through = n]
      [] kind = "receipt" -> [state EXCEPT !.pending = @ \ {of}, !.through = n]
      [] kind = "note" -> [state EXCEPT !.notes = @ \cup {n}, !.through = n]
      [] kind = "decision" -> ApplyDecision(state, n, of)
      [] OTHER -> [state EXCEPT !.through = n]

FoldEvent(s, view, event, n) ==
    [state |-> IF event.kind = "input" THEN Fresh(s) ELSE Effect(view.state, event.kind, event.of, n),
     receipts |-> IF event.kind = "receipt" THEN view.receipts \cup {event.of} ELSE view.receipts,
     texts |-> CASE event.kind = "input" -> view.texts \cup {n}
                 [] event.kind = "decision" -> (view.texts \ {event.of}) \cup {n}
                 [] OTHER -> view.texts]

(* The fold of the events after a view's coverage, up to event n.           *)
FoldFrom(s, view, n) ==
    LET upTo[k \in view.state.through..n] ==
          IF k = view.state.through THEN view ELSE FoldEvent(s, upTo[k - 1], journal[s][k], k)
    IN  upTo[n]

Next(s) == Len(journal[s]) + 1

EventsOf(kind, e) ==
    {x \in Sessions \X (1..MaxEvents) : x[2] <= Len(journal[x[1]]) /\ journal[x[1]][x[2]] = [kind |-> kind, of |-> e]}

(* claim_task: another session's lease of this host stands.                 *)
Claimable(s, g) == lease.session \in {None, s} \/ lease.gen < g

-----------------------------------------------------------------------------
(* commit_admission: the first event of a session, and the working state it *)
(* starts with, in one transaction.  The same input again changes nothing.  *)
AdmitInput(s) ==
    /\ journal[s] = <<>> /\ Claimable(s, gen)
    /\ journal' = [journal EXCEPT ![s] = <<[kind |-> "input", of |-> 0]>>]
    /\ projection' = Fresh(s)
    /\ lease' = [session |-> s, gen |-> gen]
    /\ UNCHANGED <<gen, markers, op, recovery, cache, snapshots>>

(* What a writer may want to write about.                                   *)
Subjects(kind) ==
    CASE kind \in {"intent", "receipt"} -> Executions
      [] kind = "decision" -> {0} \cup projection.decisions
      [] OTHER -> {0}

(* A mutant: two calls of a batch write the journal at once.                *)
DriverNeverWaits(s) == TRUE

(* The turn driver writes the journal one call at a time.                   *)
DriverFree(s) ==
    \A w \in Writers : op[w].stage \in {"read", "commit"} =>
        op[w].kind \notin ToolKinds \/ op[w].session # s \/ op[w].gen # gen

(* current_state, or the first lines of append_runtime_event and            *)
(* record_decision: the state is read, and belongs to the session.          *)
ReadState(w, kind, of) ==
    LET s == projection.session IN
    /\ op[w] = NoOp /\ s # None
    /\ Len(journal[s]) + Cardinality({v \in Writers : op[v] # NoOp}) < MaxEvents
    /\ kind \in ToolKinds => DriverFree(s)
    /\ kind = "receipt" => of \in projection.pending
    /\ kind = "intent" => EventsOf("intent", of) = {}
    /\ op' = [op EXCEPT ![w] =
         [stage |-> "read", kind |-> kind, of |-> of, session |-> s, state |-> projection, seq |-> 0, gen |-> gen]]
    /\ UNCHANGED <<journal, projection, lease, gen, markers, recovery, cache, snapshots>>

(* next_sequence; the session service reports a conflict when the state it  *)
(* read is not the one before it (sequence_after).                          *)
ReadSequence(w) ==
    LET n == Next(op[w].session) IN
    /\ op[w].stage = "read"
    /\ op' = IF op[w].kind \in SessionKinds /\ n # op[w].state.through + 1
               THEN [op EXCEPT ![w] = NoOp]
               ELSE [op EXCEPT ![w].stage = "commit", ![w].seq = n]
    /\ UNCHANGED <<journal, projection, lease, gen, markers, recovery, cache, snapshots>>

(* The store's own table refuses a second intent, a settlement without an   *)
(* intent, and a second receipt.                                            *)
Eligible(kind, of) ==
    /\ kind = "intent" => EventsOf("intent", of) = {}
    /\ kind = "receipt" => EventsOf("intent", of) # {} /\ EventsOf("receipt", of) = {}

(* The key of a marker is the event's own, or just its kind and sequence.   *)
MarkerOf(kind, n) == IF kind \in {"note", "decision"} THEN {<<kind, n>>} ELSE {}

(* ensure_expected_sequence, advance_sequence.                              *)
ExpectedSequence(w) == op[w].seq = Next(op[w].session)

Admissible(w) ==
    /\ op[w].gen = gen /\ Claimable(op[w].session, op[w].gen)
    /\ ExpectedSequence(w) /\ Eligible(op[w].kind, op[w].of)

(* One transaction: the event, the working state, the marker, the lease.    *)
Commit(w) ==
    LET s == op[w].session  n == op[w].seq IN
    /\ op[w].stage = "commit" /\ Admissible(w)
    /\ MarkerOf(op[w].kind, n) \cap markers = {}
    /\ journal' = [journal EXCEPT ![s] = Append(@, [kind |-> op[w].kind, of |-> op[w].of])]
    /\ projection' = Effect(op[w].state, op[w].kind, op[w].of, n)
    /\ lease' = [session |-> s, gen |-> op[w].gen]
    /\ markers' = markers \cup MarkerOf(op[w].kind, n)
    /\ op' = [op EXCEPT ![w] = NoOp]
    /\ UNCHANGED <<gen, recovery, cache, snapshots>>

(* The transaction is rolled back: a conflict, a lost fence, a marker that  *)
(* exists already.                                                          *)
Refuse(w) ==
    /\ op[w].stage = "commit"
    /\ ~Admissible(w) \/ MarkerOf(op[w].kind, op[w].seq) \cap markers # {}
    /\ op' = [op EXCEPT ![w] = IF Admissible(w) THEN [NoOp EXCEPT !.stage = "clash"] ELSE NoOp]
    /\ UNCHANGED <<journal, projection, lease, gen, markers, recovery, cache, snapshots>>

(* The writer's caller has seen the failure.                                *)
GiveUp(w) ==
    /\ op[w].stage = "clash"
    /\ op' = [op EXCEPT ![w] = NoOp]
    /\ UNCHANGED <<journal, projection, lease, gen, markers, recovery, cache, snapshots>>

(* release_task_lease: after the turn, whose writes are over.               *)
ReleaseLease ==
    /\ lease.session # None /\ lease.gen = gen
    /\ \A w \in Writers : op[w].stage \in {"idle", "clash"}
    /\ lease' = NoLease
    /\ UNCHANGED <<journal, projection, gen, markers, op, recovery, cache, snapshots>>

(* Another host opens the store.  What the first one was writing is refused *)
(* by its fence, or died with it; its fold is gone.                         *)
NewHost ==
    /\ gen < MaxGen
    /\ gen' = gen + 1
    /\ recovery' = [stage |-> "idle"] /\ cache' = NoView
    /\ UNCHANGED <<journal, projection, lease, markers, op, snapshots>>

-----------------------------------------------------------------------------
(* A mutant: a fold kept for another session is good enough.                *)
UsableForAny(s, last) == cache.state.through <= last

Usable(s, last) == cache.state.session = s /\ cache.state.through <= last

(* recover_cached: the summary, and the cache if it is this session's.      *)
BeginRecovery(s) ==
    LET last == Len(journal[s]) IN
    /\ recovery.stage = "idle" /\ s \in Recovered /\ last > 0
    /\ recovery' = IF cache # NoView /\ Usable(s, last)
                     THEN [stage |-> "seeded", session |-> s, last |-> last, view |-> cache]
                     ELSE [stage |-> "begun", session |-> s, last |-> last]
    /\ cache' = NoView
    /\ UNCHANGED <<journal, projection, lease, gen, markers, op, snapshots>>

Latest(s) == {x \in snapshots[s] : \A y \in snapshots[s] : y.view.state.through <= x.view.state.through}

(* seed_recovery: the latest snapshot, or nothing when there is none or it  *)
(* is damaged; one that covers more than the summary is an error.           *)
Seed ==
    LET s == recovery.session
        seeds == IF snapshots[s] = {} THEN {NoView} ELSE {IF x.ok THEN x.view ELSE NoView : x \in Latest(s)}
    IN
    /\ recovery.stage = "begun"
    /\ \E v \in seeds :
         recovery' = IF v.state.through > recovery.last THEN [stage |-> "idle"]
                     ELSE [stage |-> "seeded", session |-> s, last |-> recovery.last, view |-> v]
    /\ UNCHANGED <<journal, projection, lease, gen, markers, op, cache, snapshots>>

(* The events after the seed; more than the summary promised is an error.   *)
LoadEvents ==
    LET s == recovery.session
        view == FoldFrom(s, recovery.view, Len(journal[s]))
    IN
    /\ recovery.stage = "seeded"
    /\ \/ /\ Len(journal[s]) = recovery.last
          /\ recovery' = [stage |-> "done", session |-> s, last |-> recovery.last, view |-> view]
          /\ cache' = view
       \/ /\ Len(journal[s]) # recovery.last
          /\ recovery' = [stage |-> "idle"]
          /\ UNCHANGED cache
    /\ UNCHANGED <<journal, projection, lease, gen, markers, op, snapshots>>

(* The caller uses the view, or stores it (write_snapshot).                 *)
EndRecovery ==
    /\ recovery.stage = "done"
    /\ recovery' = [stage |-> "idle"]
    /\ UNCHANGED <<journal, projection, lease, gen, markers, op, cache, snapshots>>

WriteSnapshot ==
    /\ recovery.stage = "done" /\ Cardinality(snapshots[recovery.session]) < MaxSnapshots
    /\ snapshots' = [snapshots EXCEPT ![recovery.session] = @ \cup {[view |-> recovery.view, ok |-> TRUE]}]
    /\ recovery' = [stage |-> "idle"]
    /\ UNCHANGED <<journal, projection, lease, gen, markers, op, cache>>

(* A stored snapshot is damaged; its hash shows it.                         *)
DamageSnapshot(s) ==
    /\ \E x \in snapshots[s] : x.ok /\ snapshots' = [snapshots EXCEPT ![s] = (@ \ {x}) \cup {[x EXCEPT !.ok = FALSE]}]
    /\ UNCHANGED <<journal, projection, lease, gen, markers, op, recovery, cache>>

JournalNext ==
    \/ \E s \in Sessions : AdmitInput(s) \/ BeginRecovery(s) \/ DamageSnapshot(s)
    \/ \E w \in Writers :
         \/ \E kind \in Kinds : \E of \in Subjects(kind) : ReadState(w, kind, of)
         \/ ReadSequence(w) \/ Commit(w) \/ Refuse(w) \/ GiveUp(w)
    \/ ReleaseLease \/ NewHost \/ Seed \/ LoadEvents \/ EndRecovery \/ WriteSnapshot

JournalSpec == JournalInit /\ [][JournalNext]_journalVars

-----------------------------------------------------------------------------
Events == [kind : {"input"} \cup ToolKinds \cup SessionKinds, of : Executions \cup (0..MaxEvents)]

JournalTypeOK ==
    /\ \A s \in Sessions : journal[s] \in Seq(Events) /\ Len(journal[s]) <= MaxEvents
    /\ projection.session \in Sessions \cup {None} /\ projection.through \in 0..MaxEvents
    /\ lease.session \in Sessions \cup {None} /\ gen \in 1..MaxGen
    /\ \A w \in Writers : op[w].stage \in {"idle", "read", "commit", "clash"}
    /\ recovery.stage \in {"idle", "begun", "seeded", "done"}

Fold(s, n) == FoldFrom(s, NoView, n)

(* The stored working state is what the journal of its session folds to,    *)
(* whatever writers interleaved (apply_decision; sequence_after).           *)
ProjectionIsFold ==
    projection # NoState =>
        projection = Fold(projection.session, Len(journal[projection.session])).state

(* A recovery returns the whole fold of the journal it found, whether it    *)
(* started from nothing, a snapshot, a damaged one or a kept fold, and with *)
(* commits between its reads (recover_cached).                              *)
RecoveredIsFold ==
    /\ recovery.stage = "done" => recovery.view = Fold(recovery.session, recovery.last)
    /\ cache # NoView => cache = Fold(cache.state.session, cache.state.through)

(* Every journal can be folded: one input, before everything else, and no   *)
(* execution with two intents, two receipts or a receipt before its intent  *)
(* (fold_event refuses the session otherwise).                              *)
JournalFolds ==
    /\ \A s \in Sessions : \A n \in 1..Len(journal[s]) : (journal[s][n].kind = "input") <=> (n = 1)
    /\ \A e \in Executions :
        /\ Cardinality(EventsOf("intent", e)) <= 1 /\ Cardinality(EventsOf("receipt", e)) <= 1
        /\ \A r \in EventsOf("receipt", e) : \E i \in EventsOf("intent", e) : i[1] = r[1] /\ i[2] < r[2]

(* The journal only grows, and a session takes the task over only by        *)
(* admitting its own input.                                                 *)
HandedOverByAdmission ==
    [][/\ \A s \in Sessions : SubSeq(journal'[s], 1, Len(journal[s])) = journal[s]
       /\ projection'.session # projection.session => projection'.through = 1]_journalVars

(* The stored working state, without its sequence, changes as TaskState     *)
(* says: one whole event at a time.                                         *)
StoredState ==
    [session |-> projection.session, pending |-> projection.pending, notes |-> projection.notes,
     decisions |-> projection.decisions, retired |-> projection.retired]

TaskImpl == INSTANCE TaskState WITH state <- StoredState

ImplementsTaskState == TaskImpl!TaskSpec

(* The journal folds, the stored working state is its fold, and a task goes *)
(* from session to session by admission alone (commit_runtime_admission,    *)
(* apply_decision).                                                         *)
JournalSafe == [](JournalTypeOK /\ JournalFolds /\ ProjectionIsFold) /\ HandedOverByAdmission
=============================================================================
