---------------------------- MODULE SessionProofs ---------------------------
(***************************************************************************)
(* What a session keeps, and what its screen shows, for any number of      *)
(* sessions, writers, events, hosts, children and requests.                *)
(*                                                                         *)
(* The journals.  First the fold, a recursive function: its steps, and     *)
(* that it goes on from a part and is not changed by later events.  Then   *)
(* what writers carry between a read and a commit (JournalInv), what a     *)
(* recovery covers (RecoveryInv), why the stored working state is the fold *)
(* although its writers may have read an older one (ProjectionInv), and    *)
(* the refinement of TaskState that follows.                               *)
(*                                                                         *)
(* The screen.  What the controller's functions do to a panel, what a      *)
(* dispatched line does, that what disturbs a session does not go away     *)
(* (Onward), and that an undisturbed controller knows its turns (Calm).    *)
(* Then, for every session: where each text is, counted list by list       *)
(* (OneCopy), and that no request is taken off the screen while somebody   *)
(* waits on it (AsksStay).                                                 *)
(***************************************************************************)
EXTENDS SessionJournal, SessionScreen, ListProofs

-----------------------------------------------------------------------------
(* FoldFrom for the events of a given journal.                              *)
FoldOf(rows, s, view, n) ==
    LET upTo[k \in view.state.through..n] ==
          IF k = view.state.through THEN view ELSE FoldEvent(s, upTo[k - 1], rows[k], k)
    IN  upTo[n]

LEMMA FoldFromIsFoldOf == \A s, view, n : FoldFrom(s, view, n) = FoldOf(journal[s], s, view, n)
BY DEF FoldFrom, FoldOf

(* f holds the folds of a view up to n.                                     *)
HoldsFolds(f, rows, s, view, n) ==
    f = [k \in view.state.through..n |->
            IF k = view.state.through THEN view ELSE FoldEvent(s, f[k - 1], rows[k], k)]

LEMMA FoldsAreHeld ==
    ASSUME NEW rows, NEW s, NEW view, view.state.through \in Nat, NEW n \in Nat, view.state.through <= n
    PROVE  \E f : HoldsFolds(f, rows, s, view, n)
<1> DEFINE m == view.state.through
           Held == {d \in Nat : \E f : HoldsFolds(f, rows, s, view, m + d)}
<1>1. 0 \in Held
  <2> DEFINE f == [k \in m..m + 0 |-> view]
  <2>1. \A k \in m..m + 0 : k = m
    OBVIOUS
  <2>2. f = [k \in m..m + 0 |-> IF k = m THEN view ELSE FoldEvent(s, f[k - 1], rows[k], k)]
    BY <2>1
  <2> QED BY <2>2 DEF HoldsFolds
<1>2. ASSUME NEW d \in Held PROVE d + 1 \in Held
  <2>1. PICK f : HoldsFolds(f, rows, s, view, m + d)
    OBVIOUS
  <2> DEFINE p == m + d
             g == [k \in m..m + (d + 1) |-> IF k = p + 1 THEN FoldEvent(s, f[p], rows[p + 1], p + 1) ELSE f[k]]
  <2>2. d \in Nat /\ m \in Nat /\ p \in Nat /\ m + (d + 1) = p + 1 /\ m <= p
    OBVIOUS
  <2> HIDE DEF m, p
  <2>3. ASSUME NEW k \in m..m + (d + 1)
        PROVE  g[k] = IF k = m THEN view ELSE FoldEvent(s, g[k - 1], rows[k], k)
    <3>1. CASE k = p + 1
      <4>1. k # m /\ k - 1 = p /\ p \in m..m + (d + 1) /\ p # p + 1
        BY <2>2, <3>1
      <4>2. g[k] = FoldEvent(s, f[p], rows[p + 1], p + 1) /\ g[p] = f[p]
        BY <3>1, <4>1
      <4> QED BY <3>1, <4>1, <4>2
    <3>2. CASE k # p + 1
      <4>1. k \in m..p /\ (k # m => k - 1 \in m..m + (d + 1) /\ k - 1 # p + 1)
        BY <2>2, <3>2
      <4>2. g[k] = f[k] /\ (k # m => g[k - 1] = f[k - 1])
        BY <3>2, <4>1
      <4>3. f[k] = IF k = m THEN view ELSE FoldEvent(s, f[k - 1], rows[k], k)
        BY <2>1, <4>1 DEF HoldsFolds, m, p
      <4> QED BY <4>2, <4>3
    <3> QED BY <3>1, <3>2
  <2>4. g = [k \in m..m + (d + 1) |-> IF k = m THEN view ELSE FoldEvent(s, g[k - 1], rows[k], k)]
    BY <2>3
  <2> HIDE DEF g
  <2>5. HoldsFolds(g, rows, s, view, m + (d + 1))
    BY <2>4 DEF HoldsFolds, m
  <2> QED BY <2>2, <2>5
<1>3. Held = Nat
  <2> HIDE DEF Held
  <2>1. Held \in SUBSET Nat
    BY DEF Held
  <2> QED BY <1>1, <1>2, <2>1, NumbersByStep
<1>4. n - m \in Nat /\ m + (n - m) = n
  OBVIOUS
<1>5. n - m \in Held
  BY <1>3, <1>4
<1> QED BY <1>4, <1>5

(* They are the same however far the fold goes on, and for another journal  *)
(* that begins with the same events.                                        *)
LEMMA FoldsAgree ==
    ASSUME NEW rows, NEW later, NEW s, NEW view, view.state.through \in Nat, NEW n \in Nat, NEW p \in Nat,
           view.state.through <= n, n <= p, \A k \in 1..n : later[k] = rows[k],
           NEW f, NEW g, HoldsFolds(f, rows, s, view, n), HoldsFolds(g, later, s, view, p)
    PROVE  f[n] = g[n]
<1> DEFINE m == view.state.through
           Same == {d \in Nat : m + d <= n => f[m + d] = g[m + d]}
<1>0. m \in Nat
  OBVIOUS
<1>1. /\ \A k \in m..n : f[k] = IF k = m THEN view ELSE FoldEvent(s, f[k - 1], rows[k], k)
      /\ \A k \in m..p : g[k] = IF k = m THEN view ELSE FoldEvent(s, g[k - 1], later[k], k)
  BY DEF HoldsFolds
<1> HIDE DEF m
<1>2. 0 \in Same
  <2>1. m + 0 = m
    BY <1>0
  <2> SUFFICES ASSUME m <= n PROVE f[m] = g[m]
    BY <2>1
  <2>2. m \in m..n /\ m \in m..p
    BY <1>0
  <2> QED BY <1>1, <2>2
<1>3. ASSUME NEW d \in Same PROVE d + 1 \in Same
  <2> DEFINE k == m + (d + 1)
  <2> SUFFICES ASSUME k <= n PROVE f[k] = g[k]
    OBVIOUS
  <2>1. k \in m..n /\ k \in m..p /\ k # m /\ k - 1 = m + d /\ m + d <= n /\ k \in 1..n
    BY <1>0
  <2>2. f[k - 1] = g[k - 1] /\ later[k] = rows[k]
    BY <2>1
  <2> HIDE DEF k
  <2> QED BY <1>1, <2>1, <2>2
<1>4. Same = Nat
  <2> HIDE DEF Same
  <2>1. Same \in SUBSET Nat
    BY DEF Same
  <2> QED BY <1>2, <1>3, <2>1, NumbersByStep
<1>5. n - m \in Nat /\ m + (n - m) = n /\ m <= n
  BY <1>0 DEF m
<1>6. n - m \in Same
  BY <1>4, <1>5
<1> QED BY <1>5, <1>6

LEMMA FoldIsHeld ==
    ASSUME NEW rows, NEW s, NEW view, view.state.through \in Nat, NEW n \in Nat, view.state.through <= n
    PROVE  \E f : HoldsFolds(f, rows, s, view, n) /\ FoldOf(rows, s, view, n) = f[n]
<1> DEFINE F == CHOOSE f : HoldsFolds(f, rows, s, view, n)
<1>1. HoldsFolds(F, rows, s, view, n)
  BY FoldsAreHeld
<1>2. FoldOf(rows, s, view, n) = F[n]
  BY DEF FoldOf, HoldsFolds
<1> QED BY <1>1, <1>2

(* A fold begins with its view, and goes on by one event.                   *)
LEMMA FoldsBegin ==
    ASSUME NEW rows, NEW s, NEW view, view.state.through \in Nat
    PROVE  FoldOf(rows, s, view, view.state.through) = view
<1> DEFINE m == view.state.through
<1>1. PICK f : HoldsFolds(f, rows, s, view, m) /\ FoldOf(rows, s, view, m) = f[m]
  BY FoldIsHeld
<1>2. m \in m..m
  OBVIOUS
<1> QED BY <1>1, <1>2 DEF HoldsFolds

LEMMA FoldsByStep ==
    ASSUME NEW rows, NEW s, NEW view, view.state.through \in Nat, NEW n \in Nat, view.state.through <= n
    PROVE  FoldOf(rows, s, view, n + 1) = FoldEvent(s, FoldOf(rows, s, view, n), rows[n + 1], n + 1)
<1> DEFINE m == view.state.through
<1>1. PICK f : HoldsFolds(f, rows, s, view, n) /\ FoldOf(rows, s, view, n) = f[n]
  BY FoldIsHeld
<1>2. PICK g : HoldsFolds(g, rows, s, view, n + 1) /\ FoldOf(rows, s, view, n + 1) = g[n + 1]
  BY FoldIsHeld
<1>3. f[n] = g[n]
  BY <1>1, <1>2, FoldsAgree
<1>4. n + 1 \in m..n + 1 /\ n + 1 # m /\ (n + 1) - 1 = n
  OBVIOUS
<1>5. g[n + 1] = FoldEvent(s, g[n], rows[n + 1], n + 1)
  BY <1>2, <1>4 DEF HoldsFolds
<1> QED BY <1>1, <1>2, <1>3, <1>5

(* What is appended does not change the fold of what was there.             *)
LEMMA FoldsStay ==
    ASSUME NEW rows, NEW later, NEW s, NEW view, view.state.through \in Nat, NEW n \in Nat,
           view.state.through <= n, \A k \in 1..n : later[k] = rows[k]
    PROVE  FoldOf(later, s, view, n) = FoldOf(rows, s, view, n)
<1>1. PICK f : HoldsFolds(f, rows, s, view, n) /\ FoldOf(rows, s, view, n) = f[n]
  BY FoldIsHeld
<1>2. PICK g : HoldsFolds(g, later, s, view, n) /\ FoldOf(later, s, view, n) = g[n]
  BY FoldIsHeld
<1> QED BY <1>1, <1>2, FoldsAgree

(* A fold from a fold that covers p events is the fold from the beginning.  *)
LEMMA FoldsGoOn ==
    ASSUME NEW rows, NEW s, NEW view, view.state.through \in Nat, NEW p \in Nat, NEW n \in Nat,
           view.state.through <= p, p <= n, NEW mid, mid = FoldOf(rows, s, view, p), mid.state.through = p
    PROVE  FoldOf(rows, s, mid, n) = FoldOf(rows, s, view, n)
<1> DEFINE Same == {d \in Nat : FoldOf(rows, s, mid, p + d) = FoldOf(rows, s, view, p + d)}
<1>1. 0 \in Same
  <2>1. FoldOf(rows, s, mid, mid.state.through) = mid
    BY FoldsBegin
  <2>2. p + 0 = p
    OBVIOUS
  <2> QED BY <2>1, <2>2
<1>2. ASSUME NEW d \in Same PROVE d + 1 \in Same
  <2> DEFINE k == p + d
  <2>1. k \in Nat /\ p + (d + 1) = k + 1 /\ view.state.through <= k /\ mid.state.through <= k /\ d + 1 \in Nat
    OBVIOUS
  <2>2. FoldOf(rows, s, mid, k) = FoldOf(rows, s, view, k)
    OBVIOUS
  <2> HIDE DEF k
  <2>3. FoldOf(rows, s, mid, k + 1) = FoldEvent(s, FoldOf(rows, s, mid, k), rows[k + 1], k + 1)
    BY <2>1, FoldsByStep
  <2>4. FoldOf(rows, s, view, k + 1) = FoldEvent(s, FoldOf(rows, s, view, k), rows[k + 1], k + 1)
    BY <2>1, FoldsByStep
  <2> QED BY <2>1, <2>2, <2>3, <2>4
<1>3. Same = Nat
  <2> HIDE DEF Same
  <2>1. Same \in SUBSET Nat
    BY DEF Same
  <2> QED BY <1>1, <1>2, <2>1, NumbersByStep
<1>4. n - p \in Nat /\ p + (n - p) = n
  OBVIOUS
<1>5. n - p \in Same
  BY <1>3, <1>4
<1> QED BY <1>4, <1>5
-----------------------------------------------------------------------------
Subject == Executions \cup 0..MaxEvents

TaskStates ==
    [session : Sessions \cup {None}, through : 0..MaxEvents, pending : SUBSET Subject,
     notes : SUBSET Subject, decisions : SUBSET (1..MaxEvents), retired : SUBSET Subject]

Views == [state : TaskStates, receipts : SUBSET Subject, texts : SUBSET Subject]

Snapshots == [view : Views, ok : BOOLEAN]

Clash == [stage |-> "clash"]

WritingOps ==
    [stage : {"read", "commit"}, kind : ToolKinds \cup SessionKinds, of : Subject, session : Sessions,
     state : TaskStates, seq : Nat, gen : 1..MaxGen]

Writing(w) == op[w].stage \in {"read", "commit"}

StoreTyped ==
    /\ journal \in [Sessions -> Seq(Events)] /\ projection \in TaskStates
    /\ lease \in [session : Sessions \cup {None}, gen : 0..MaxGen] /\ gen \in 1..MaxGen
    /\ op \in [Writers -> WritingOps \cup {NoOp, Clash}]

(* A state some writer may have read: of a session that has begun, with     *)
(* calls and notes that are in its journal.                                 *)
Sound(journals, state) ==
    /\ state \in TaskStates /\ state.session \in Sessions
    /\ state.through \in 1..Len(journals[state.session]) /\ state.notes \subseteq 1..state.through
    /\ \A e \in state.pending : \E i \in 1..state.through : journals[state.session][i] = [kind |-> "intent", of |-> e]

StatesAreSound ==
    /\ projection = NoState \/ Sound(journal, projection)
    /\ \A w \in Writers : Writing(w) =>
         /\ Sound(journal, op[w].state) /\ op[w].session = op[w].state.session /\ op[w].gen <= gen
         /\ op[w].kind = "receipt" => op[w].of \in op[w].state.pending
         /\ op[w].kind \in {"intent", "receipt"} => op[w].of \in Executions
         /\ op[w].kind = "decision" => op[w].of \in {0} \cup op[w].state.decisions

(* Whoever may still commit writes for the session that holds the task.     *)
TaskIsHeld ==
    \A w \in Writers : Writing(w) /\ op[w].gen = gen /\ Claimable(op[w].session, gen) =>
        op[w].session = projection.session

WritersOf(s) == {w \in Writers : Writing(w) /\ op[w].session = s}

RoomIsKept == \A s \in Sessions : Len(journal[s]) + Cardinality(WritersOf(s)) <= MaxEvents

JournalInv == StoreTyped /\ StatesAreSound /\ TaskIsHeld /\ RoomIsKept /\ JournalFolds


LEMMA NoSessionIsNone == None \notin Sessions
BY JournalAssumption DEF None

LEMMA EffectIsTyped ==
    ASSUME NEW state \in TaskStates, NEW kind, NEW of \in Subject, NEW n \in 1..MaxEvents
    PROVE  /\ Effect(state, kind, of, n) \in TaskStates
           /\ Effect(state, kind, of, n).session = state.session
           /\ Effect(state, kind, of, n).through = n
<1>0. n \in Subject /\ n \in 0..MaxEvents
  BY JournalAssumption DEF Subject
<1> USE DEF Effect, TaskStates, ApplyDecision
<1>1. CASE kind = "intent" BY <1>0, <1>1
<1>2. CASE kind = "receipt" BY <1>0, <1>2
<1>3. CASE kind = "note" BY <1>0, <1>3
<1>4. CASE kind = "decision" BY <1>0, <1>4
<1>5. CASE kind \notin {"intent", "receipt", "note", "decision"} BY <1>0, <1>5
<1> QED BY <1>1, <1>2, <1>3, <1>4, <1>5

LEMMA NoViewIsTyped == NoView \in Views /\ NoView.state.through = 0
<1>1. NoState \in TaskStates /\ NoState.through = 0
  BY JournalAssumption DEF NoState, TaskStates, None
<1> QED BY <1>1 DEF NoView, Views

LEMMA FreshIsTyped ==
    ASSUME NEW s \in Sessions
    PROVE  /\ Fresh(s) \in TaskStates /\ Fresh(s).session = s /\ Fresh(s).through = 1
           /\ Fresh(s).pending = {} /\ Fresh(s).notes = {} /\ Fresh(s).decisions = {} /\ Fresh(s).retired = {}
<1>1. MaxEvents \in Nat /\ 1 \in 0..MaxEvents
  BY JournalAssumption
<1>2. NoState \in TaskStates /\ NoState.pending = {} /\ NoState.notes = {} /\ NoState.decisions = {} /\ NoState.retired = {}
  BY NoViewIsTyped DEF NoState, NoView, Views
<1> QED BY <1>1, <1>2 DEF Fresh, TaskStates

(* The fold of a journal that begins with its input, and has no other, is a *)
(* state of its session that covers what was folded.                        *)
LEMMA FoldsAreTyped ==
    ASSUME NEW rows \in Seq(Events), Len(rows) <= MaxEvents, NEW s \in Sessions,
           \A n \in 1..Len(rows) : (rows[n].kind = "input") <=> (n = 1),
           NEW n \in 1..Len(rows)
    PROVE  /\ FoldOf(rows, s, NoView, n) \in Views
           /\ FoldOf(rows, s, NoView, n).state.session = s /\ FoldOf(rows, s, NoView, n).state.through = n
<1> DEFINE F(k) == FoldOf(rows, s, NoView, k)
           Good(k) == F(k) \in Views /\ F(k).state.session = s /\ F(k).state.through = k
           Goods == {d \in Nat : d + 1 <= Len(rows) => Good(d + 1)}
<1>0. NoView.state.through = 0 /\ Len(rows) \in Nat /\ MaxEvents \in Nat
  BY NoViewIsTyped, JournalAssumption
<1>1. ASSUME NEW k \in Nat PROVE F(k + 1) = FoldEvent(s, F(k), rows[k + 1], k + 1)
  <2>1. NoView.state.through \in Nat /\ NoView.state.through <= k
    BY <1>0
  <2> QED BY <2>1, FoldsByStep
<1>2. F(0) = NoView
  <2>1. NoView.state.through \in Nat
    BY <1>0
  <2>2. FoldOf(rows, s, NoView, NoView.state.through) = NoView
    BY <2>1, FoldsBegin
  <2> QED BY <1>0, <2>2
<1>3. ASSUME NEW k \in 1..Len(rows)
      PROVE  rows[k] \in Events /\ rows[k].of \in Subject /\ k \in 1..MaxEvents /\ k \in Subject
  <2>1. rows[k] \in Events
    OBVIOUS
  <2>2. k \in 1..MaxEvents
    BY <1>0
  <2> QED BY <2>1, <2>2 DEF Events, Subject
<1> HIDE DEF F
<1>4. 0 \in Goods
  <2> SUFFICES ASSUME 1 <= Len(rows) PROVE Good(1)
    BY DEF Goods
  <2>1. F(1) = FoldEvent(s, NoView, rows[1], 1) /\ 1 \in 1..Len(rows)
    BY <1>1, <1>2
  <2>2. F(1) = [state |-> Fresh(s), receipts |-> NoView.receipts, texts |-> NoView.texts \cup {1}]
    BY <2>1 DEF FoldEvent
  <2>3. 1 \in Subject
    BY <1>3, <2>1
  <2> QED BY <2>2, <2>3, FreshIsTyped, NoViewIsTyped DEF Views
<1>5. ASSUME NEW d \in Goods PROVE d + 1 \in Goods
  <2> DEFINE k == d + 1
  <2> SUFFICES ASSUME k + 1 <= Len(rows) PROVE Good(k + 1)
    OBVIOUS
  <2>1. k \in Nat /\ k + 1 \in 1..Len(rows) /\ k + 1 # 1 /\ Good(k)
    OBVIOUS
  <2> HIDE DEF k
  <2> DEFINE e == rows[k + 1]
             v == F(k)
  <2>2. F(k + 1) = FoldEvent(s, v, e, k + 1) /\ e.kind # "input" /\ e.of \in Subject /\ k + 1 \in 1..MaxEvents /\ k + 1 \in Subject
    BY <1>1, <1>3, <2>1
  <2>3. v \in Views /\ v.state \in TaskStates /\ v.state.session = s
    BY <2>1 DEF Views
  <2> HIDE DEF e, v
  <2>4. /\ F(k + 1).state = Effect(v.state, e.kind, e.of, k + 1)
        /\ F(k + 1) = [state |-> F(k + 1).state, receipts |-> F(k + 1).receipts, texts |-> F(k + 1).texts]
        /\ F(k + 1).receipts \in SUBSET Subject /\ F(k + 1).texts \in SUBSET Subject
    BY <2>2, <2>3 DEF FoldEvent, Views
  <2> QED BY <2>2, <2>3, <2>4, EffectIsTyped DEF Views
<1>6. Goods = Nat
  <2> HIDE DEF Goods
  <2>1. Goods \in SUBSET Nat
    BY DEF Goods
  <2> QED BY <1>4, <1>5, <2>1, NumbersByStep
<1>7. n - 1 \in Nat /\ (n - 1) + 1 = n /\ n <= Len(rows)
  OBVIOUS
<1>8. n - 1 \in Goods
  BY <1>6, <1>7
<1> QED BY <1>7, <1>8 DEF F

-----------------------------------------------------------------------------
(* Later journals begin with what the earlier ones held.                    *)
GrowTo(journals, later) ==
    \A s \in Sessions : /\ Len(journals[s]) <= Len(later[s])
                        /\ \A k \in 1..Len(journals[s]) : later[s][k] = journals[s][k]

LEMMA SoundStays ==
    ASSUME NEW journals \in [Sessions -> Seq(Events)], NEW later \in [Sessions -> Seq(Events)],
           GrowTo(journals, later), NEW state, Sound(journals, state)
    PROVE  Sound(later, state)
<1> DEFINE s == state.session
<1>1. s \in Sessions /\ state.through \in 1..Len(journals[s])
  BY DEF Sound
<1>2. /\ Len(journals[s]) \in Nat /\ Len(later[s]) \in Nat /\ Len(journals[s]) <= Len(later[s])
      /\ \A k \in 1..Len(journals[s]) : later[s][k] = journals[s][k]
  BY <1>1 DEF GrowTo
<1>3. state.through \in 1..Len(later[s])
  BY <1>1, <1>2
<1>4. ASSUME NEW e \in state.pending
      PROVE  \E i \in 1..state.through : later[s][i] = [kind |-> "intent", of |-> e]
  <2>1. PICK i \in 1..state.through : journals[s][i] = [kind |-> "intent", of |-> e]
    BY DEF Sound
  <2>2. i \in 1..Len(journals[s])
    BY <1>1, <1>2
  <2> QED BY <1>2, <2>1, <2>2
<1> HIDE DEF s
<1> QED BY <1>1, <1>3, <1>4 DEF Sound, s

LEMMA NothingGrows == \A journals : GrowTo(journals, journals)
<1> SUFFICES ASSUME NEW journals, NEW s \in Sessions PROVE Len(journals[s]) <= Len(journals[s])
  BY DEF GrowTo
<1> QED OBVIOUS

LEMMA WritersAreTyped ==
    ASSUME JournalInv, NEW w \in Writers, Writing(w)
    PROVE  /\ op[w] \in WritingOps /\ op[w].session \in Sessions /\ op[w].state \in TaskStates
           /\ w \in WritersOf(op[w].session)
<1>1. op[w] \in WritingOps \cup {NoOp, Clash}
  BY DEF JournalInv, StoreTyped
<1>2. op[w] # NoOp /\ op[w] # Clash
  BY DEF Writing, NoOp, Clash
<1>3. op[w] \in WritingOps
  BY <1>1, <1>2
<1> QED BY <1>3 DEF WritingOps, WritersOf

LEMMA WritersAreFinite ==
    \A s : /\ IsFiniteSet(WritersOf(s)) /\ Cardinality(WritersOf(s)) \in Nat
           /\ Cardinality(WritersOf(s)) = 0 <=> WritersOf(s) = {}
<1> SUFFICES ASSUME NEW s
             PROVE  /\ IsFiniteSet(WritersOf(s)) /\ Cardinality(WritersOf(s)) \in Nat
                    /\ Cardinality(WritersOf(s)) = 0 <=> WritersOf(s) = {}
  OBVIOUS
<1>1. WritersOf(s) \in SUBSET Writers /\ IsFiniteSet(Writers)
  BY JournalAssumption DEF WritersOf
<1>2. IsFiniteSet(WritersOf(s))
  BY <1>1, FS_Subset
<1> QED BY <1>2, FS_CardinalityType, FS_EmptySet

LEMMA RoomStays ==
    ASSUME JournalInv, NEW s \in Sessions, Len(journal'[s]) = Len(journal[s]), WritersOf(s)' \subseteq WritersOf(s)
    PROVE  Len(journal'[s]) + Cardinality(WritersOf(s)') <= MaxEvents
<1>1. Cardinality(WritersOf(s)') <= Cardinality(WritersOf(s)) /\ IsFiniteSet(WritersOf(s)')
  BY WritersAreFinite, FS_Subset
<1>2. Cardinality(WritersOf(s)') \in Nat /\ Cardinality(WritersOf(s)) \in Nat
  BY <1>1, WritersAreFinite, FS_CardinalityType
<1>3. Len(journal[s]) + Cardinality(WritersOf(s)) <= MaxEvents /\ Len(journal[s]) \in Nat /\ MaxEvents \in Nat
  BY JournalAssumption DEF JournalInv, RoomIsKept, StoreTyped
<1> QED BY <1>1, <1>2, <1>3

LEMMA FoldingStays == ASSUME JournalInv, UNCHANGED journal PROVE JournalFolds'
<1>1. JournalFolds
  BY DEF JournalInv
<1>2. \A kind, e : EventsOf(kind, e)' = EventsOf(kind, e)
  BY DEF EventsOf
<1> QED BY <1>1, <1>2 DEF JournalFolds

-----------------------------------------------------------------------------
LEMMA InitJournals == JournalInit => JournalInv
<1> SUFFICES ASSUME JournalInit PROVE JournalInv
  OBVIOUS
<1>1. /\ journal = [s \in Sessions |-> <<>>] /\ projection = NoState /\ lease = NoLease /\ gen = 1
      /\ op = [w \in Writers |-> NoOp]
  BY DEF JournalInit
<1>2. \A s \in Sessions : journal[s] = <<>> /\ Len(journal[s]) = 0
  BY <1>1
<1>3. \A w \in Writers : op[w] = NoOp /\ ~Writing(w)
  BY <1>1 DEF Writing, NoOp
<1>4. StoreTyped
  <2>1. journal \in [Sessions -> Seq(Events)]
    BY <1>1
  <2>2. NoState \in TaskStates
    BY NoViewIsTyped DEF NoView, Views
  <2>3. lease \in [session : Sessions \cup {None}, gen : 0..MaxGen] /\ gen \in 1..MaxGen
    BY <1>1, JournalAssumption DEF NoLease
  <2> QED BY <1>1, <2>1, <2>2, <2>3 DEF StoreTyped
<1>5. StatesAreSound /\ TaskIsHeld
  BY <1>1, <1>3 DEF StatesAreSound, TaskIsHeld
<1>6. RoomIsKept
  <2>1. \A s : WritersOf(s) = {}
    BY <1>3 DEF WritersOf
  <2>2. \A s : Cardinality(WritersOf(s)) = 0
    BY <2>1, FS_EmptySet
  <2>3. \A s \in Sessions : Len(journal[s]) + Cardinality(WritersOf(s)) = 0
    BY <1>2, <2>2
  <2>4. 0 <= MaxEvents
    BY JournalAssumption
  <2> QED BY <2>3, <2>4 DEF RoomIsKept
<1>7. JournalFolds
  <2>1. \A kind, e : EventsOf(kind, e) = {}
    BY <1>2 DEF EventsOf
  <2>2. \A kind, e : Cardinality(EventsOf(kind, e)) = 0
    BY <2>1, FS_EmptySet
  <2> QED BY <1>2, <2>1, <2>2 DEF JournalFolds
<1> QED BY <1>4, <1>5, <1>6, <1>7 DEF JournalInv

(* Steps that leave the journals alone and end what writers do, or nothing. *)
LEMMA WritersEnd ==
    ASSUME JournalInv, UNCHANGED <<journal, projection>>, gen' \in gen..MaxGen,
           lease' \in {lease, NoLease}, lease' # lease => \A w \in Writers : ~Writing(w),
           op' \in [Writers -> WritingOps \cup {NoOp, Clash}],
           \A w \in Writers : op'[w] \in {op[w], NoOp, Clash}
    PROVE  JournalInv'
<1>1. StoreTyped'
  <2>1. lease' \in [session : Sessions \cup {None}, gen : 0..MaxGen]
    BY JournalAssumption DEF JournalInv, StoreTyped, NoLease
  <2>2. gen' \in 1..MaxGen
    BY JournalAssumption DEF JournalInv, StoreTyped
  <2> QED BY <2>1, <2>2 DEF JournalInv, StoreTyped
<1>2. \A w \in Writers : Writing(w)' => Writing(w) /\ op'[w] = op[w]
  BY DEF Writing, NoOp, Clash
<1>3. StatesAreSound'
  <2>1. \A w \in Writers : Writing(w)' => op[w].gen <= gen /\ op[w].gen \in Nat
    BY <1>2, WritersAreTyped DEF JournalInv, StatesAreSound, WritingOps
  <2>2. gen <= gen' /\ gen \in Nat /\ gen' \in Nat
    BY DEF JournalInv, StoreTyped
  <2>3. \A w \in Writers : Writing(w)' => op[w].gen <= gen'
    BY <2>1, <2>2
  <2> QED BY <1>2, <2>3 DEF JournalInv, StatesAreSound
<1>4. TaskIsHeld'
  <2> SUFFICES ASSUME NEW w \in Writers, Writing(w)', op'[w].gen = gen',
                      lease'.session \in {None, op'[w].session} \/ lease'.gen < gen'
               PROVE  op'[w].session = projection'.session
    BY DEF TaskIsHeld, Claimable
  <2>1. Writing(w) /\ op'[w] = op[w] /\ lease' = lease
    BY <1>2
  <2>2. gen' = gen
    <3>1. op[w].gen <= gen /\ op[w].gen = gen' /\ gen <= gen' /\ gen \in Nat /\ gen' \in Nat
      BY <2>1 DEF JournalInv, StatesAreSound, StoreTyped
    <3> QED BY <3>1
  <2>3. Claimable(op[w].session, gen)
    BY <2>1, <2>2 DEF Claimable
  <2> QED BY <2>1, <2>2, <2>3 DEF JournalInv, TaskIsHeld
<1>5. RoomIsKept'
  <2> SUFFICES ASSUME NEW s \in Sessions PROVE Len(journal'[s]) + Cardinality(WritersOf(s)') <= MaxEvents
    BY DEF RoomIsKept
  <2>1. WritersOf(s)' \subseteq WritersOf(s)
    BY <1>2 DEF WritersOf
  <2> QED BY <2>1, RoomStays
<1>6. JournalFolds'
  BY FoldingStays
<1> QED BY <1>1, <1>3, <1>4, <1>5, <1>6 DEF JournalInv

LEMMA SequencesAreRead == ASSUME JournalInv, NEW w \in Writers, ReadSequence(w) PROVE JournalInv'
<1> DEFINE n == Next(op[w].session)
           read == [[op[w] EXCEPT !.stage = "commit"] EXCEPT !.seq = n]
<1>1. op[w].stage = "read" /\ UNCHANGED <<journal, projection, lease, gen>> /\ Writing(w)
  BY DEF ReadSequence, Writing
<1>2. op[w] \in WritingOps /\ op[w].session \in Sessions
  BY <1>1, WritersAreTyped
<1>3. op \in [Writers -> WritingOps \cup {NoOp, Clash}] /\ gen \in 1..MaxGen
  BY DEF JournalInv, StoreTyped
<1>4. CASE op' = [op EXCEPT ![w] = NoOp]
  <2>1. op' \in [Writers -> WritingOps \cup {NoOp, Clash}] /\ \A v \in Writers : op'[v] \in {op[v], NoOp, Clash}
    BY <1>3, <1>4
  <2>2. gen' \in gen..MaxGen
    BY <1>1, <1>3
  <2> QED BY <1>1, <2>1, <2>2, WritersEnd
<1>5. CASE op' = [op EXCEPT ![w].stage = "commit", ![w].seq = n]
  <2>1. n \in Nat
    BY <1>2 DEF Next, JournalInv, StoreTyped
  <2>2. /\ op' \in [Writers -> WritingOps \cup {NoOp, Clash}]
        /\ \A v \in Writers : v # w => op'[v] = op[v]
        /\ op'[w].stage = "commit" /\ op'[w].kind = op[w].kind /\ op'[w].of = op[w].of /\ op'[w].session = op[w].session
        /\ op'[w].state = op[w].state /\ op'[w].gen = op[w].gen
    <3>1. op'[w] = read /\ \A v \in Writers : v # w => op'[v] = op[v]
      BY <1>3, <1>5
    <3>2. read \in WritingOps
      BY <1>2, <2>1 DEF WritingOps
    <3> QED BY <1>2, <1>3, <1>5, <3>1, <3>2 DEF WritingOps
  <2>3. \A v \in Writers : /\ Writing(v)' = Writing(v)
                           /\ op'[v].kind = op[v].kind /\ op'[v].of = op[v].of /\ op'[v].session = op[v].session
                           /\ op'[v].state = op[v].state /\ op'[v].gen = op[v].gen
    BY <1>1, <2>2 DEF Writing
  <2> HIDE DEF n, read
  <2>4. StoreTyped'
    BY <1>1, <2>2 DEF JournalInv, StoreTyped
  <2>5. StatesAreSound'
    BY <1>1, <2>3 DEF JournalInv, StatesAreSound
  <2>6. TaskIsHeld'
    BY <1>1, <2>3 DEF JournalInv, TaskIsHeld, Claimable
  <2>7. RoomIsKept'
    <3> SUFFICES ASSUME NEW s \in Sessions PROVE Len(journal'[s]) + Cardinality(WritersOf(s)') <= MaxEvents
      BY DEF RoomIsKept
    <3>1. WritersOf(s)' \subseteq WritersOf(s)
      BY <2>3 DEF WritersOf
    <3> QED BY <1>1, <3>1, RoomStays
  <2>8. JournalFolds'
    BY <1>1, FoldingStays
  <2> QED BY <2>4, <2>5, <2>6, <2>7, <2>8 DEF JournalInv
<1> QED BY <1>4, <1>5 DEF ReadSequence

-----------------------------------------------------------------------------
(* A journal that gets one event more.                                      *)
Extended(s, event) ==
    /\ journal' \in [Sessions -> Seq(Events)]
    /\ Len(journal'[s]) = Len(journal[s]) + 1 /\ journal'[s][Len(journal[s]) + 1] = event
    /\ \A k \in 1..Len(journal[s]) : journal'[s][k] = journal[s][k]
    /\ \A t \in Sessions : t # s => journal'[t] = journal[t]

LEMMA ExtendedGrows ==
    ASSUME StoreTyped, NEW s \in Sessions, NEW event, Extended(s, event)
    PROVE  GrowTo(journal, journal')
<1>1. \A t \in Sessions : Len(journal[t]) \in Nat
  BY DEF StoreTyped
<1> QED BY <1>1 DEF GrowTo, Extended

(* What is found of one kind of event then.                                 *)
LEMMA EventsAreAdded ==
    ASSUME StoreTyped, NEW s \in Sessions, NEW event, Extended(s, event), NEW kind, NEW e
    PROVE  /\ EventsOf(kind, e) \subseteq EventsOf(kind, e)'
           /\ EventsOf(kind, e)' \subseteq EventsOf(kind, e) \cup {<<s, Len(journal[s]) + 1>>}
           /\ event # [kind |-> kind, of |-> e] => EventsOf(kind, e)' = EventsOf(kind, e)
<1> DEFINE n == Len(journal[s]) + 1
<1>1. n \in Nat /\ \A t \in Sessions : Len(journal[t]) \in Nat
  BY DEF StoreTyped
<1>2. ASSUME NEW t \in Sessions, NEW i \in 1..MaxEvents, i <= Len(journal[t])
      PROVE  i <= Len(journal'[t]) /\ journal'[t][i] = journal[t][i]
  <2>1. i \in 1..Len(journal[t])
    BY <1>1, <1>2
  <2>2. CASE t = s
    BY <1>1, <1>2, <2>1, <2>2 DEF Extended
  <2>3. CASE t # s
    BY <1>2, <2>3 DEF Extended
  <2> QED BY <2>2, <2>3
<1>3. ASSUME NEW t \in Sessions, NEW i \in 1..MaxEvents, i <= Len(journal'[t])
      PROVE  \/ i <= Len(journal[t]) /\ journal'[t][i] = journal[t][i]
             \/ t = s /\ i = n /\ journal'[t][i] = event
  <2>1. CASE t = s
    <3>1. Len(journal'[s]) = n /\ journal'[s][n] = event /\ Len(journal[s]) \in Nat
      BY <1>1 DEF Extended
    <3>2. i = n \/ i \in 1..Len(journal[s])
      BY <1>3, <2>1, <3>1
    <3> QED BY <2>1, <3>1, <3>2 DEF Extended
  <2>2. CASE t # s
    BY <1>3, <2>2 DEF Extended
  <2> QED BY <2>1, <2>2
<1> HIDE DEF n
<1>4. ASSUME NEW x \in EventsOf(kind, e) PROVE x \in EventsOf(kind, e)'
  <2>1. x \in Sessions \X (1..MaxEvents) /\ x[2] <= Len(journal[x[1]]) /\ journal[x[1]][x[2]] = [kind |-> kind, of |-> e]
    BY DEF EventsOf
  <2>2. x[1] \in Sessions /\ x[2] \in 1..MaxEvents
    BY <2>1
  <2> QED BY <1>2, <2>1, <2>2 DEF EventsOf
<1>5. ASSUME NEW x \in EventsOf(kind, e)'
      PROVE  x \in EventsOf(kind, e) \/ (x = <<s, n>> /\ event = [kind |-> kind, of |-> e])
  <2>1. x \in Sessions \X (1..MaxEvents) /\ x[2] <= Len(journal'[x[1]]) /\ journal'[x[1]][x[2]] = [kind |-> kind, of |-> e]
    BY DEF EventsOf
  <2>2. x[1] \in Sessions /\ x[2] \in 1..MaxEvents /\ x = <<x[1], x[2]>>
    BY <2>1
  <2> QED BY <1>3, <2>1, <2>2 DEF EventsOf
<1> QED BY <1>4, <1>5 DEF n

LEMMA OneOrNone == ASSUME NEW S, NEW x, S \subseteq {x} PROVE Cardinality(S) <= 1
<1>1. S = {} \/ S = {x}
  OBVIOUS
<1>2. Cardinality({}) = 0 /\ Cardinality({x}) = 1
  BY FS_EmptySet, FS_Singleton
<1> QED BY <1>1, <1>2

(* The first event of a session gives it the task.                          *)
LEMMA InputExtends ==
    ASSUME JournalInv, NEW s \in Sessions, AdmitInput(s)
    PROVE  Extended(s, [kind |-> "input", of |-> 0]) /\ Len(journal[s]) = 0 /\ WritersOf(s) = {}
<1> DEFINE event == [kind |-> "input", of |-> 0]
<1>1. journal \in [Sessions -> Seq(Events)]
  BY DEF JournalInv, StoreTyped
<1>2. journal[s] = <<>> /\ journal' = [journal EXCEPT ![s] = <<event>>]
  BY DEF AdmitInput
<1>3. event \in Events
  BY JournalAssumption DEF Events
<1>4. <<event>> \in Seq(Events) /\ Len(<<event>>) = 1 /\ <<event>>[1] = event /\ Len(journal[s]) = 0
  BY <1>2, <1>3
<1>5. journal' \in [Sessions -> Seq(Events)] /\ journal'[s] = <<event>> /\ \A t \in Sessions : t # s => journal'[t] = journal[t]
  BY <1>1, <1>2, <1>4
<1> HIDE DEF event
<1>6. Extended(s, event)
  BY <1>4, <1>5 DEF Extended
<1>7. ASSUME NEW w \in WritersOf(s) PROVE FALSE
  <2>1. Writing(w) /\ w \in Writers /\ op[w].session = s
    BY DEF WritersOf
  <2>2. Sound(journal, op[w].state) /\ op[w].state.session = s
    BY <2>1 DEF JournalInv, StatesAreSound
  <2>3. op[w].state.through \in 1..0
    BY <1>4, <2>2 DEF Sound
  <2> QED BY <2>3
<1> QED BY <1>4, <1>6, <1>7 DEF event

LEMMA InputsAreAdmitted == ASSUME JournalInv, NEW s \in Sessions, AdmitInput(s) PROVE JournalInv'
<1> DEFINE event == [kind |-> "input", of |-> 0]
<1>1. Extended(s, event) /\ Len(journal[s]) = 0 /\ WritersOf(s) = {} /\ Len(journal'[s]) = 1 /\ journal'[s][1] = event
  <2>1. Extended(s, event) /\ Len(journal[s]) = 0 /\ WritersOf(s) = {}
    BY InputExtends
  <2>2. Len(journal[s]) + 1 = 1
    BY <2>1
  <2> QED BY <2>1, <2>2 DEF Extended
<1>2. projection' = Fresh(s) /\ lease' = [session |-> s, gen |-> gen] /\ UNCHANGED <<gen, op>>
  BY DEF AdmitInput
<1>3. StoreTyped /\ StoreTyped'
  <2>1. lease' \in [session : Sessions \cup {None}, gen : 0..MaxGen]
    BY <1>2, JournalAssumption DEF JournalInv, StoreTyped
  <2> QED BY <1>1, <1>2, <2>1, FreshIsTyped DEF JournalInv, StoreTyped, Extended
<1>4. GrowTo(journal, journal')
  BY <1>1, <1>3, ExtendedGrows
<1>5. StatesAreSound'
  <2>1. Sound(journal', Fresh(s))
    BY <1>1, FreshIsTyped DEF Sound
  <2>2. \A w \in Writers : Writing(w)' = Writing(w) /\ op'[w] = op[w]
    BY <1>2 DEF Writing
  <2>3. \A w \in Writers : Writing(w) => Sound(journal', op[w].state)
    BY <1>3, <1>4, SoundStays DEF JournalInv, StatesAreSound, StoreTyped
  <2> QED BY <1>2, <2>1, <2>2, <2>3 DEF JournalInv, StatesAreSound
<1>6. TaskIsHeld'
  <2> SUFFICES ASSUME NEW w \in Writers, Writing(w)', op'[w].gen = gen',
                      lease'.session \in {None, op'[w].session} \/ lease'.gen < gen'
               PROVE  op'[w].session = projection'.session
    BY DEF TaskIsHeld, Claimable
  <2>1. gen \in Nat /\ s # None
    BY NoSessionIsNone DEF JournalInv, StoreTyped
  <2> QED BY <1>2, <2>1, FreshIsTyped
<1>7. RoomIsKept'
  <2> SUFFICES ASSUME NEW t \in Sessions PROVE Len(journal'[t]) + Cardinality(WritersOf(t)') <= MaxEvents
    BY DEF RoomIsKept
  <2>1. WritersOf(t)' = WritersOf(t)
    BY <1>2 DEF WritersOf, Writing
  <2>2. CASE t = s
    <3>1. Cardinality(WritersOf(t)') = 0
      BY <1>1, <2>1, <2>2, FS_EmptySet
    <3>2. Len(journal'[t]) + Cardinality(WritersOf(t)') = 1
      BY <1>1, <2>2, <3>1
    <3> QED BY <3>2, JournalAssumption
  <2>3. CASE t # s
    <3>1. journal'[t] = journal[t]
      BY <1>1, <2>3 DEF Extended
    <3> QED BY <2>1, <3>1, RoomStays
  <2> QED BY <2>2, <2>3
<1>8. JournalFolds'
  <2>1. ASSUME NEW kind \in {"intent", "receipt"}, NEW e PROVE EventsOf(kind, e)' = EventsOf(kind, e)
    <3>1. event # [kind |-> kind, of |-> e]
      OBVIOUS
    <3> QED BY <1>1, <1>3, <3>1, EventsAreAdded
  <2>2. ASSUME NEW t \in Sessions, NEW n \in 1..Len(journal'[t]) PROVE (journal'[t][n].kind = "input") <=> (n = 1)
    <3>1. CASE t = s
      BY <1>1, <3>1
    <3>2. CASE t # s
      BY <1>1, <3>2 DEF Extended, JournalInv, JournalFolds
    <3> QED BY <3>1, <3>2
  <2> QED BY <2>1, <2>2 DEF JournalInv, JournalFolds
<1> QED BY <1>3, <1>5, <1>6, <1>7, <1>8 DEF JournalInv

LEMMA StatesAreRead ==
    ASSUME JournalInv, NEW w \in Writers, NEW kind \in Kinds, NEW of \in Subjects(kind), ReadState(w, kind, of)
    PROVE  JournalInv'
<1> DEFINE s == projection.session
           read == [stage |-> "read", kind |-> kind, of |-> of, session |-> s, state |-> projection, seq |-> 0, gen |-> gen]
           Busy == {v \in Writers : op[v] # NoOp}
<1>1. /\ op[w] = NoOp /\ s # None /\ op' = [op EXCEPT ![w] = read]
      /\ UNCHANGED <<journal, projection, lease, gen>>
      /\ Len(journal[s]) + Cardinality(Busy) < MaxEvents
      /\ kind = "receipt" => of \in projection.pending
  BY DEF ReadState
<1>2. projection \in TaskStates /\ s \in Sessions /\ Sound(journal, projection)
  <2>1. projection # NoState
    BY <1>1 DEF NoState
  <2> QED BY <2>1 DEF JournalInv, StatesAreSound, Sound
<1>3. of \in Subject /\ (kind \in {"intent", "receipt"} => of \in Executions) /\ (kind = "decision" => of \in {0} \cup projection.decisions)
  <2>1. 0 \in Subject /\ projection.decisions \subseteq Subject
    BY <1>2, JournalAssumption DEF Subject, TaskStates
  <2> QED BY <2>1 DEF Subjects, Subject
<1>4. read \in WritingOps /\ op \in [Writers -> WritingOps \cup {NoOp, Clash}]
  <2>1. kind \in ToolKinds \cup SessionKinds /\ gen \in 1..MaxGen /\ op \in [Writers -> WritingOps \cup {NoOp, Clash}]
    BY JournalAssumption DEF JournalInv, StoreTyped
  <2> QED BY <1>2, <1>3, <2>1 DEF WritingOps
<1>5. /\ op' \in [Writers -> WritingOps \cup {NoOp, Clash}] /\ op'[w] = read
      /\ \A v \in Writers : v # w => op'[v] = op[v]
  BY <1>1, <1>4
<1>6. Writing(w)' /\ ~Writing(w) /\ \A v \in Writers : v # w => Writing(v)' = Writing(v)
  BY <1>1, <1>5 DEF Writing, NoOp
<1> HIDE DEF s
<1>7. StoreTyped'
  BY <1>1, <1>5 DEF JournalInv, StoreTyped
<1>8. StatesAreSound'
  <2>1. gen <= gen
    BY DEF JournalInv, StoreTyped
  <2>2. ASSUME NEW v \in Writers, Writing(v)'
        PROVE  /\ Sound(journal, op'[v].state) /\ op'[v].session = op'[v].state.session /\ op'[v].gen <= gen
               /\ op'[v].kind = "receipt" => op'[v].of \in op'[v].state.pending
               /\ op'[v].kind \in {"intent", "receipt"} => op'[v].of \in Executions
               /\ op'[v].kind = "decision" => op'[v].of \in {0} \cup op'[v].state.decisions
    <3>1. CASE v = w
      BY <1>1, <1>2, <1>3, <1>5, <2>1, <3>1 DEF s
    <3>2. CASE v # w
      BY <1>5, <1>6, <2>2, <3>2 DEF JournalInv, StatesAreSound
    <3> QED BY <3>1, <3>2
  <2> QED BY <1>1, <2>2 DEF JournalInv, StatesAreSound
<1>9. TaskIsHeld'
  <2> SUFFICES ASSUME NEW v \in Writers, Writing(v)', op'[v].gen = gen',
                      lease'.session \in {None, op'[v].session} \/ lease'.gen < gen'
               PROVE  op'[v].session = projection'.session
    BY DEF TaskIsHeld, Claimable
  <2>1. CASE v = w
    BY <1>1, <1>5, <2>1 DEF s
  <2>2. CASE v # w
    BY <1>1, <1>5, <1>6, <2>2 DEF JournalInv, TaskIsHeld, Claimable
  <2> QED BY <2>1, <2>2
<1>10. RoomIsKept'
  <2> SUFFICES ASSUME NEW t \in Sessions PROVE Len(journal'[t]) + Cardinality(WritersOf(t)') <= MaxEvents
    BY DEF RoomIsKept
  <2>1. CASE t = s
    <3>1. IsFiniteSet(Busy) /\ WritersOf(t) \subseteq Busy /\ w \notin WritersOf(t)
      <4>1. Busy \in SUBSET Writers /\ IsFiniteSet(Writers)
        BY JournalAssumption
      <4>2. IsFiniteSet(Busy)
        BY <4>1, FS_Subset
      <4> QED BY <1>6, <4>2 DEF WritersOf, Writing, NoOp
    <3>2. WritersOf(t)' = WritersOf(t) \cup {w}
      <4>1. op'[w].session = t
        BY <1>5, <2>1
      <4> QED BY <1>5, <1>6, <4>1 DEF WritersOf
    <3> HIDE DEF Busy
    <3>3. Cardinality(WritersOf(t)) <= Cardinality(Busy) /\ IsFiniteSet(WritersOf(t))
      BY <3>1, FS_Subset
    <3>4. Cardinality(WritersOf(t)') = Cardinality(WritersOf(t)) + 1
      BY <3>1, <3>2, <3>3, FS_AddElement
    <3>5. Cardinality(Busy) \in Nat /\ Cardinality(WritersOf(t)) \in Nat /\ Len(journal[t]) \in Nat /\ MaxEvents \in Nat
      BY <3>1, <3>3, FS_CardinalityType, JournalAssumption DEF JournalInv, StoreTyped
    <3>6. Len(journal[t]) + (Cardinality(WritersOf(t)) + 1) <= MaxEvents
      BY <1>1, <2>1, <3>3, <3>5 DEF Busy
    <3> QED BY <1>1, <3>4, <3>6
  <2>2. CASE t # s
    <3>1. WritersOf(t)' \subseteq WritersOf(t)
      BY <1>5, <1>6, <2>2 DEF WritersOf
    <3> QED BY <1>1, <3>1, RoomStays
  <2> QED BY <2>1, <2>2
<1>11. JournalFolds'
  BY <1>1, FoldingStays
<1> QED BY <1>7, <1>8, <1>9, <1>10, <1>11 DEF JournalInv

-----------------------------------------------------------------------------
(* What a commit finds: a state of a session that was read, and room.       *)
LEMMA CommitExtends ==
    ASSUME JournalInv, NEW w \in Writers, Commit(w)
    PROVE  /\ Writing(w) /\ op[w] \in WritingOps /\ op[w].session \in Sessions /\ op[w].of \in Subject
           /\ Sound(journal, op[w].state) /\ op[w].state.session = op[w].session
           /\ op[w].session = projection.session /\ op[w].gen = gen
           /\ op[w].seq = Len(journal[op[w].session]) + 1 /\ op[w].seq \in 1..MaxEvents
           /\ op[w].state.through < op[w].seq
           /\ Extended(op[w].session, [kind |-> op[w].kind, of |-> op[w].of])
           /\ op[w].kind \in ToolKinds \cup SessionKinds
           /\ \A v \in Writers : v # w => op'[v] = op[v] /\ Writing(v)' = Writing(v)
           /\ op'[w] = NoOp /\ ~Writing(w)'
<1> DEFINE s == op[w].session
           n == Len(journal[s]) + 1
           event == [kind |-> op[w].kind, of |-> op[w].of]
<1>1. /\ op[w].stage = "commit" /\ op[w].gen = gen /\ Claimable(s, gen) /\ op[w].seq = n
      /\ journal' = [journal EXCEPT ![s] = Append(@, event)] /\ op' = [op EXCEPT ![w] = NoOp]
  BY DEF Commit, Admissible, ExpectedSequence, Next
<1>2. Writing(w)
  BY <1>1 DEF Writing
<1>3. op[w] \in WritingOps /\ s \in Sessions /\ w \in WritersOf(s)
  BY <1>2, WritersAreTyped
<1>4. /\ Sound(journal, op[w].state) /\ op[w].state.session = s /\ s = projection.session
  BY <1>1, <1>2 DEF JournalInv, StatesAreSound, TaskIsHeld
<1>5. op[w].of \in Subject /\ op[w].kind \in ToolKinds \cup SessionKinds
  BY <1>3 DEF WritingOps
<1>6. journal \in [Sessions -> Seq(Events)] /\ op \in [Writers -> WritingOps \cup {NoOp, Clash}] /\ Len(journal[s]) \in Nat
  BY <1>3 DEF JournalInv, StoreTyped
<1>7. n \in 1..MaxEvents
  <2>1. Cardinality(WritersOf(s)) \in Nat /\ Cardinality(WritersOf(s)) # 0
    BY <1>3, WritersAreFinite
  <2>2. Len(journal[s]) + Cardinality(WritersOf(s)) <= MaxEvents /\ MaxEvents \in Nat
    BY <1>3, JournalAssumption DEF JournalInv, RoomIsKept
  <2> QED BY <1>6, <2>1, <2>2
<1>8. op[w].state.through < n
  BY <1>4, <1>6 DEF Sound
<1>9. Extended(s, event)
  <2>1. event \in Events
    BY <1>5 DEF Events, Subject
  <2> HIDE DEF event, s
  <2>2. journal' \in [Sessions -> Seq(Events)] /\ journal'[s] = Append(journal[s], event)
        /\ \A t \in Sessions : t # s => journal'[t] = journal[t]
    BY <1>1, <1>3, <1>6, <2>1
  <2>3. journal[s] \in Seq(Events)
    BY <1>3, <1>6
  <2>4. /\ Len(Append(journal[s], event)) = Len(journal[s]) + 1
        /\ Append(journal[s], event)[Len(journal[s]) + 1] = event
        /\ \A k \in 1..Len(journal[s]) : Append(journal[s], event)[k] = journal[s][k]
    BY <2>1, <2>3
  <2> QED BY <2>2, <2>4 DEF Extended
<1>10. /\ \A v \in Writers : v # w => op'[v] = op[v] /\ Writing(v)' = Writing(v)
       /\ op'[w] = NoOp /\ ~Writing(w)'
  BY <1>1, <1>6 DEF Writing, NoOp
<1> HIDE DEF n
<1> QED BY <1>1, <1>2, <1>3, <1>4, <1>5, <1>7, <1>8, <1>9, <1>10 DEF n

(* The state a commit stores is one that may be read.                       *)
LEMMA StoredIsSound ==
    ASSUME JournalInv, NEW w \in Writers, Commit(w)
    PROVE  Sound(journal', projection') /\ projection'.session = op[w].session /\ projection'.through = op[w].seq
<1> DEFINE s == op[w].session
           n == op[w].seq
           old == op[w].state
           new == Effect(old, op[w].kind, op[w].of, n)
<1>1. /\ old \in TaskStates /\ old.session = s /\ s \in Sessions /\ n \in 1..MaxEvents /\ op[w].of \in Subject
      /\ old.through < n /\ n = Len(journal[s]) + 1 /\ Extended(s, [kind |-> op[w].kind, of |-> op[w].of])
      /\ Sound(journal, old) /\ StoreTyped
  BY CommitExtends DEF Sound, JournalInv
<1>2. new \in TaskStates /\ new.session = s /\ new.through = n
  BY <1>1, EffectIsTyped
<1>3. projection' = new
  BY DEF Commit
<1>4. /\ Len(journal'[s]) = n /\ journal'[s][n] = [kind |-> op[w].kind, of |-> op[w].of]
      /\ journal' \in [Sessions -> Seq(Events)]
  BY <1>1 DEF Extended
<1>5. Sound(journal', old)
  <2>1. GrowTo(journal, journal') /\ journal \in [Sessions -> Seq(Events)]
    BY <1>1, ExtendedGrows DEF StoreTyped
  <2> HIDE DEF old
  <2> QED BY <1>1, <1>4, <2>1, SoundStays
<1>6. new.notes \subseteq old.notes \cup {n} /\ new.pending \subseteq old.pending \cup (IF op[w].kind = "intent" THEN {op[w].of} ELSE {})
  <2> HIDE DEF old, n
  <2> QED BY <1>1 DEF Effect, ApplyDecision, TaskStates
<1>7. old.through \in Nat /\ n \in Nat
  BY <1>1 DEF TaskStates
<1>8. new.notes \subseteq 1..n
  BY <1>1, <1>6, <1>7 DEF Sound
<1>9. ASSUME NEW e \in new.pending
      PROVE  \E i \in 1..n : journal'[s][i] = [kind |-> "intent", of |-> e]
  <2>1. CASE e \in old.pending
    <3>1. PICK i \in 1..old.through : journal'[s][i] = [kind |-> "intent", of |-> e]
      BY <1>1, <1>5, <2>1 DEF Sound
    <3>2. i \in 1..n
      BY <1>1, <1>7
    <3> QED BY <3>1, <3>2
  <2>2. CASE e \notin old.pending
    <3>1. op[w].kind = "intent" /\ e = op[w].of
      BY <1>6, <2>2
    <3>2. n \in 1..n
      BY <1>1
    <3> QED BY <1>4, <3>1, <3>2
  <2> QED BY <2>1, <2>2
<1> HIDE DEF new, n, s
<1>10. n \in 1..n
  BY <1>1
<1> QED BY <1>1, <1>2, <1>3, <1>4, <1>8, <1>9, <1>10 DEF Sound, n, s

LEMMA CommitsFold == ASSUME JournalInv, NEW w \in Writers, Commit(w) PROVE JournalFolds'
<1> DEFINE s == op[w].session
           n == Len(journal[s]) + 1
           event == [kind |-> op[w].kind, of |-> op[w].of]
<1>1. /\ Extended(s, event) /\ s \in Sessions /\ n \in 1..MaxEvents /\ StoreTyped /\ op[w].kind # "input"
      /\ Sound(journal, op[w].state) /\ op[w].state.session = s /\ Len(journal[s]) \in Nat /\ n # 1
  <2>1. /\ Extended(s, event) /\ s \in Sessions /\ op[w].seq = n /\ op[w].seq \in 1..MaxEvents /\ op[w].state.session = s
        /\ Sound(journal, op[w].state) /\ op[w].state.through < op[w].seq /\ op[w].kind \in ToolKinds \cup SessionKinds
    BY CommitExtends
  <2>2. op[w].state.through \in 1..Len(journal[s]) /\ Len(journal[s]) \in Nat /\ StoreTyped
    BY <2>1 DEF Sound, JournalInv, StoreTyped
  <2>3. n # 1
    BY <2>2
  <2> QED BY <2>1, <2>2, <2>3 DEF ToolKinds, SessionKinds
<1>2. Eligible(op[w].kind, op[w].of)
  BY DEF Commit, Admissible
<1>3. ASSUME NEW t \in Sessions, NEW i \in 1..Len(journal'[t]) PROVE (journal'[t][i].kind = "input") <=> (i = 1)
  <2>1. CASE t # s
    BY <1>1, <2>1 DEF Extended, JournalInv, JournalFolds
  <2>2. CASE t = s /\ i = n
    BY <1>1, <2>2 DEF Extended
  <2>3. CASE t = s /\ i # n
    <3>1. i \in 1..Len(journal[s])
      BY <1>1, <2>3 DEF Extended
    <3>2. journal'[s][i] = journal[s][i]
      BY <1>1, <3>1 DEF Extended
    <3>3. (journal[s][i].kind = "input") <=> (i = 1)
      BY <1>1, <3>1 DEF JournalInv, JournalFolds
    <3> QED BY <2>3, <3>2, <3>3
  <2> QED BY <2>1, <2>2, <2>3
<1> HIDE DEF s, n
<1>4. ASSUME NEW kind, NEW e
      PROVE  /\ EventsOf(kind, e) \subseteq EventsOf(kind, e)'
             /\ EventsOf(kind, e)' \subseteq EventsOf(kind, e) \cup {<<s, n>>}
             /\ kind # op[w].kind \/ e # op[w].of => EventsOf(kind, e)' = EventsOf(kind, e)
  <2>1. kind # op[w].kind \/ e # op[w].of => event # [kind |-> kind, of |-> e]
    OBVIOUS
  <2> HIDE DEF event
  <2> QED BY <1>1, <2>1, EventsAreAdded DEF n
<1>5. ASSUME NEW kind \in {"intent", "receipt"}, NEW e \in Executions
      PROVE  Cardinality(EventsOf(kind, e)') <= 1
  <2>1. CASE kind # op[w].kind \/ e # op[w].of
    <3>1. EventsOf(kind, e)' = EventsOf(kind, e)
      BY <1>4, <2>1
    <3> QED BY <3>1 DEF JournalInv, JournalFolds
  <2>2. CASE kind = op[w].kind /\ e = op[w].of
    <3>1. EventsOf(kind, e) = {}
      BY <1>2, <2>2 DEF Eligible
    <3>2. EventsOf(kind, e)' \subseteq {<<s, n>>}
      BY <1>4, <3>1
    <3> QED BY <3>2, OneOrNone
  <2> QED BY <2>1, <2>2
<1>6. ASSUME NEW e \in Executions, NEW r \in EventsOf("receipt", e)'
      PROVE  \E i \in EventsOf("intent", e)' : i[1] = r[1] /\ i[2] < r[2]
  <2>1. CASE r \in EventsOf("receipt", e)
    <3>1. PICK i \in EventsOf("intent", e) : i[1] = r[1] /\ i[2] < r[2]
      BY <2>1 DEF JournalInv, JournalFolds
    <3> QED BY <1>4, <3>1
  <2>2. CASE r \notin EventsOf("receipt", e)
    <3>1. r = <<s, n>> /\ op[w].kind = "receipt" /\ op[w].of = e
      BY <1>4, <2>2
    <3>2. e \in op[w].state.pending
      BY <3>1, CommitExtends DEF JournalInv, StatesAreSound
    <3>3. PICK i \in 1..op[w].state.through : journal[s][i] = [kind |-> "intent", of |-> e]
      BY <1>1, <3>2 DEF Sound
    <3>4. i \in 1..MaxEvents /\ i <= Len(journal[s]) /\ i < n
      <4>1. op[w].state.through \in 1..Len(journal[s])
        BY <1>1 DEF Sound
      <4>2. n = Len(journal[s]) + 1 /\ n \in 1..MaxEvents /\ Len(journal[s]) \in Nat /\ MaxEvents \in Nat
        BY <1>1, JournalAssumption DEF n
      <4> QED BY <3>3, <4>1, <4>2
    <3>5. <<s, i>> \in EventsOf("intent", e)
      BY <1>1, <3>3, <3>4 DEF EventsOf
    <3> QED BY <1>4, <3>1, <3>4, <3>5
  <2> QED BY <2>1, <2>2
<1> QED BY <1>3, <1>5, <1>6 DEF JournalFolds

LEMMA CommitsKeep == ASSUME JournalInv, NEW w \in Writers, Commit(w) PROVE JournalInv'
<1> DEFINE s == op[w].session
<1>1. /\ Writing(w) /\ s \in Sessions /\ s # None /\ w \in WritersOf(s) /\ op[w].gen = gen /\ gen \in Nat
      /\ Extended(s, [kind |-> op[w].kind, of |-> op[w].of])
      /\ \A v \in Writers : v # w => op'[v] = op[v] /\ Writing(v)' = Writing(v)
      /\ op'[w] = NoOp /\ ~Writing(w)' /\ StoreTyped /\ gen' = gen /\ lease' = [session |-> s, gen |-> gen]
  <2>1. Commit(w) => gen' = gen /\ lease' = [session |-> s, gen |-> op[w].gen]
    BY DEF Commit
  <2> QED BY <2>1, CommitExtends, NoSessionIsNone DEF WritersOf, JournalInv, StoreTyped
<1>2. Sound(journal', projection') /\ projection'.session = s
  BY StoredIsSound
<1>3. StoreTyped'
  <2>1. lease' \in [session : Sessions \cup {None}, gen : 0..MaxGen]
    BY <1>1, JournalAssumption DEF StoreTyped
  <2>2. op' \in [Writers -> WritingOps \cup {NoOp, Clash}]
    BY <1>1 DEF StoreTyped, Commit
  <2> QED BY <1>1, <1>2, <2>1, <2>2 DEF StoreTyped, Extended, Sound
<1> HIDE DEF s
<1>4. GrowTo(journal, journal')
  BY <1>1, ExtendedGrows
<1>5. StatesAreSound'
  <2>1. \A v \in Writers : Writing(v) => Sound(journal', op[v].state)
    BY <1>1, <1>3, <1>4, SoundStays DEF JournalInv, StatesAreSound, StoreTyped
  <2>2. \A v \in Writers : Writing(v)' => Writing(v) /\ op'[v] = op[v]
    BY <1>1
  <2> QED BY <1>1, <1>2, <2>1, <2>2 DEF JournalInv, StatesAreSound
<1>6. TaskIsHeld'
  <2> SUFFICES ASSUME NEW v \in Writers, Writing(v)', op'[v].gen = gen',
                      lease'.session \in {None, op'[v].session} \/ lease'.gen < gen'
               PROVE  op'[v].session = projection'.session
    BY DEF TaskIsHeld, Claimable
  <2> QED BY <1>1, <1>2
<1>7. RoomIsKept'
  <2> SUFFICES ASSUME NEW t \in Sessions PROVE Len(journal'[t]) + Cardinality(WritersOf(t)') <= MaxEvents
    BY DEF RoomIsKept
  <2>1. CASE t = s
    <3>1. WritersOf(t)' = WritersOf(t) \ {w} /\ w \in WritersOf(t)
      BY <1>1, <2>1 DEF WritersOf
    <3>2. Cardinality(WritersOf(t)') = Cardinality(WritersOf(t)) - 1 /\ Cardinality(WritersOf(t)) \in Nat
      BY <3>1, WritersAreFinite, FS_RemoveElement
    <3>3. Len(journal'[t]) = Len(journal[t]) + 1 /\ Len(journal[t]) \in Nat /\ Len(journal[t]) + Cardinality(WritersOf(t)) <= MaxEvents
      BY <1>1, <2>1 DEF Extended, JournalInv, StoreTyped, RoomIsKept
    <3> QED BY <3>2, <3>3, JournalAssumption
  <2>2. CASE t # s
    <3>1. WritersOf(t)' \subseteq WritersOf(t) /\ journal'[t] = journal[t]
      BY <1>1, <2>2 DEF WritersOf, Extended
    <3> QED BY <3>1, RoomStays
  <2> QED BY <2>1, <2>2
<1> QED BY <1>3, <1>5, <1>6, <1>7, CommitsFold DEF JournalInv

LEMMA OtherStepsKeep ==
    ASSUME JournalInv,
           \/ \E w \in Writers : Refuse(w) \/ GiveUp(w)
           \/ ReleaseLease \/ NewHost \/ UNCHANGED <<journal, projection, lease, gen, op>>
    PROVE  JournalInv'
<1>1. op \in [Writers -> WritingOps \cup {NoOp, Clash}] /\ gen \in 1..MaxGen /\ MaxGen \in Nat
  BY JournalAssumption DEF JournalInv, StoreTyped
<1>2. gen \in gen..MaxGen
  BY <1>1
<1>3. ASSUME NEW w \in Writers, Refuse(w) \/ GiveUp(w) PROVE JournalInv'
  <2>1. [NoOp EXCEPT !.stage = "clash"] = Clash
    BY DEF NoOp, Clash
  <2>2. UNCHANGED <<journal, projection, lease, gen>> /\ \E o \in {NoOp, Clash} : op' = [op EXCEPT ![w] = o]
    BY <1>3, <2>1 DEF Refuse, GiveUp
  <2>3. op' \in [Writers -> WritingOps \cup {NoOp, Clash}] /\ \A v \in Writers : op'[v] \in {op[v], NoOp, Clash}
    BY <1>1, <2>2
  <2> QED BY <1>2, <2>2, <2>3, WritersEnd
<1>4. CASE ReleaseLease
  <2>1. \A w \in Writers : ~Writing(w)
    BY <1>4 DEF ReleaseLease, Writing
  <2> QED BY <1>1, <1>2, <1>4, <2>1, WritersEnd DEF ReleaseLease
<1>5. CASE NewHost
  <2>1. gen' \in gen..MaxGen
    BY <1>1, <1>5 DEF NewHost
  <2> QED BY <1>1, <1>5, <2>1, WritersEnd DEF NewHost
<1>6. CASE UNCHANGED <<journal, projection, lease, gen, op>>
  BY <1>1, <1>2, <1>6, WritersEnd
<1> QED BY <1>3, <1>4, <1>5, <1>6

LEMMA JournalStepKeeps == ASSUME JournalInv, [JournalNext]_journalVars PROVE JournalInv'
<1>1. ASSUME NEW s \in Sessions, BeginRecovery(s) \/ DamageSnapshot(s) PROVE JournalInv'
  BY <1>1, OtherStepsKeep DEF BeginRecovery, DamageSnapshot
<1>2. CASE Seed \/ LoadEvents \/ EndRecovery \/ WriteSnapshot
  BY <1>2, OtherStepsKeep DEF Seed, LoadEvents, EndRecovery, WriteSnapshot
<1>3. CASE UNCHANGED journalVars
  BY <1>3, OtherStepsKeep DEF journalVars
<1> QED
  BY <1>1, <1>2, <1>3, InputsAreAdmitted, StatesAreRead, SequencesAreRead, CommitsKeep, OtherStepsKeep DEF JournalNext

(* The journals keep their invariant: every one can be folded, whatever     *)
(* writers, sessions and hosts come between a read and its commit.          *)
THEOREM JournalIsInductive == JournalSpec => []JournalInv
<1>1. JournalInit => JournalInv
  BY InitJournals
<1>2. JournalInv /\ [JournalNext]_journalVars => JournalInv'
  BY JournalStepKeeps
<1> QED BY <1>1, <1>2, PTL DEF JournalSpec

-----------------------------------------------------------------------------
(* The view is the fold of the first events of the session, at most n.      *)
Covers(journals, view, s, n) ==
    /\ view \in Views /\ view.state.session = s /\ view.state.through \in 1..n
    /\ view = FoldOf(journals[s], s, NoView, view.state.through)

RecoveryTyped ==
    \/ recovery = [stage |-> "idle"]
    \/ recovery \in [stage : {"begun"}, session : Sessions, last : Nat]
    \/ recovery \in [stage : {"seeded", "done"}, session : Sessions, last : Nat, view : Views]

(* What a recovery starts from, and what it leaves behind, are folds of the *)
(* session's journal as far as they say.                                    *)
RecoveryInv ==
    /\ RecoveryTyped /\ snapshots \in [Sessions -> SUBSET Snapshots]
    /\ recovery.stage # "idle" => recovery.last \in 1..Len(journal[recovery.session])
    /\ recovery.stage = "seeded" =>
         recovery.view = NoView \/ Covers(journal, recovery.view, recovery.session, recovery.last)
    /\ recovery.stage = "done" =>
         Covers(journal, recovery.view, recovery.session, recovery.last) /\ recovery.view.state.through = recovery.last
    /\ cache # NoView =>
         /\ cache.state.session \in Sessions
         /\ Covers(journal, cache, cache.state.session, Len(journal[cache.state.session]))
    /\ \A s \in Sessions : \A x \in snapshots[s] : Covers(journal, x.view, s, Len(journal[s]))

LEMMA FoldsCover ==
    ASSUME JournalInv, NEW s \in Sessions, NEW n \in 1..Len(journal[s])
    PROVE  Covers(journal, Fold(s, n), s, n) /\ Fold(s, n).state.through = n
<1>1. Fold(s, n) = FoldOf(journal[s], s, NoView, n)
  BY FoldFromIsFoldOf DEF Fold
<1>2. /\ journal[s] \in Seq(Events) /\ Len(journal[s]) <= MaxEvents
      /\ \A k \in 1..Len(journal[s]) : (journal[s][k].kind = "input") <=> (k = 1)
  <2>1. journal[s] \in Seq(Events) /\ Len(journal[s]) \in Nat /\ MaxEvents \in Nat
    BY JournalAssumption DEF JournalInv, StoreTyped
  <2>2. Len(journal[s]) + Cardinality(WritersOf(s)) <= MaxEvents /\ Cardinality(WritersOf(s)) \in Nat
    BY WritersAreFinite DEF JournalInv, RoomIsKept
  <2>3. Len(journal[s]) <= MaxEvents
    BY <2>1, <2>2
  <2> QED BY <2>1, <2>3 DEF JournalInv, JournalFolds
<1>3. /\ FoldOf(journal[s], s, NoView, n) \in Views
      /\ FoldOf(journal[s], s, NoView, n).state.session = s /\ FoldOf(journal[s], s, NoView, n).state.through = n
  BY <1>2, FoldsAreTyped
<1>4. n \in 1..n
  OBVIOUS
<1> QED BY <1>1, <1>3, <1>4 DEF Covers

LEMMA CoverStays ==
    ASSUME NEW journals \in [Sessions -> Seq(Events)], NEW later \in [Sessions -> Seq(Events)], GrowTo(journals, later),
           NEW s \in Sessions, NEW view, NEW n \in Nat, NEW m \in Nat, n <= m, n <= Len(journals[s]), Covers(journals, view, s, n)
    PROVE  Covers(later, view, s, m)
<1> DEFINE p == view.state.through
<1>1. p \in 1..n /\ view = FoldOf(journals[s], s, NoView, p)
  BY DEF Covers
<1>2. p \in Nat /\ NoView.state.through \in Nat /\ NoView.state.through <= p /\ Len(journals[s]) \in Nat
  BY <1>1, NoViewIsTyped
<1>3. \A k \in 1..p : later[s][k] = journals[s][k]
  BY <1>1, <1>2 DEF GrowTo
<1>4. FoldOf(later[s], s, NoView, p) = FoldOf(journals[s], s, NoView, p)
  BY <1>2, <1>3, FoldsStay
<1>5. p \in 1..m
  BY <1>1
<1> QED BY <1>1, <1>4, <1>5 DEF Covers

(* The rest of the journal, folded onto a view that covers its beginning.   *)
LEMMA CoverGoesOn ==
    ASSUME JournalInv, NEW s \in Sessions, NEW n \in 1..Len(journal[s]), NEW view,
           view = NoView \/ Covers(journal, view, s, n)
    PROVE  FoldFrom(s, view, n) = Fold(s, n)
<1>1. CASE view = NoView
  BY <1>1 DEF Fold
<1>2. CASE Covers(journal, view, s, n)
  <2> DEFINE p == view.state.through
  <2>1. p \in 1..n /\ view = FoldOf(journal[s], s, NoView, p) /\ n \in Nat
    BY <1>2 DEF Covers
  <2>2. p \in Nat /\ p <= n /\ NoView.state.through \in Nat /\ NoView.state.through <= p
    BY <2>1, NoViewIsTyped
  <2>3. FoldOf(journal[s], s, view, n) = FoldOf(journal[s], s, NoView, n)
    BY <2>1, <2>2, FoldsGoOn
  <2> QED BY <2>3, FoldFromIsFoldOf DEF Fold
<1> QED BY <1>1, <1>2

LEMMA JournalsGrow == ASSUME JournalInv, [JournalNext]_journalVars PROVE GrowTo(journal, journal')
<1>1. ASSUME NEW s \in Sessions, AdmitInput(s) PROVE GrowTo(journal, journal')
  BY <1>1, InputExtends, ExtendedGrows DEF JournalInv
<1>2. ASSUME NEW w \in Writers, Commit(w) PROVE GrowTo(journal, journal')
  BY <1>2, CommitExtends, ExtendedGrows DEF JournalInv
<1>3. CASE journal' = journal
  BY <1>3, NothingGrows
<1>4. \/ \E s \in Sessions : AdmitInput(s)
      \/ \E w \in Writers : Commit(w)
      \/ journal' = journal
  BY DEF JournalNext, journalVars, BeginRecovery, DamageSnapshot, ReadState, ReadSequence, Refuse, GiveUp,
         ReleaseLease, NewHost, Seed, LoadEvents, EndRecovery, WriteSnapshot
<1> QED BY <1>1, <1>2, <1>3, <1>4

-----------------------------------------------------------------------------
LEMMA InitRecovers == JournalInit => RecoveryInv
<1> SUFFICES ASSUME JournalInit PROVE RecoveryInv
  OBVIOUS
<1>1. recovery = [stage |-> "idle"] /\ cache = NoView /\ snapshots = [s \in Sessions |-> {}]
  BY DEF JournalInit
<1>2. snapshots \in [Sessions -> SUBSET Snapshots] /\ \A s \in Sessions : snapshots[s] = {}
  BY <1>1
<1> QED BY <1>1, <1>2 DEF RecoveryInv, RecoveryTyped

LEMMA RecoveryStays ==
    ASSUME JournalInv, JournalInv', RecoveryInv, GrowTo(journal, journal'), UNCHANGED snapshots,
           \/ UNCHANGED <<recovery, cache>>
           \/ recovery' = [stage |-> "idle"] /\ cache' \in {cache, NoView}
    PROVE  RecoveryInv'
<1>1. journal \in [Sessions -> Seq(Events)] /\ journal' \in [Sessions -> Seq(Events)]
  BY DEF JournalInv, StoreTyped
<1>2. \A s \in Sessions : Len(journal[s]) \in Nat /\ Len(journal'[s]) \in Nat /\ Len(journal[s]) <= Len(journal'[s])
  BY <1>1 DEF GrowTo
<1>3. ASSUME NEW s \in Sessions, NEW v, Covers(journal, v, s, Len(journal[s]))
      PROVE  Covers(journal', v, s, Len(journal'[s]))
  <2>1. Len(journal[s]) \in Nat /\ Len(journal'[s]) \in Nat /\ Len(journal[s]) <= Len(journal'[s])
    BY <1>2
  <2>2. Len(journal[s]) <= Len(journal[s])
    BY <2>1
  <2> QED BY <1>1, <1>3, <2>1, <2>2, CoverStays
<1>4. /\ cache' # NoView => /\ cache'.state.session \in Sessions
                            /\ Covers(journal', cache', cache'.state.session, Len(journal'[cache'.state.session]))
      /\ \A s \in Sessions : \A x \in snapshots'[s] : Covers(journal', x.view, s, Len(journal'[s]))
  <2>1. /\ cache # NoView => /\ cache.state.session \in Sessions
                             /\ Covers(journal, cache, cache.state.session, Len(journal[cache.state.session]))
        /\ \A s \in Sessions : \A x \in snapshots[s] : Covers(journal, x.view, s, Len(journal[s]))
    BY DEF RecoveryInv
  <2>2. cache' \in {cache, NoView}
    OBVIOUS
  <2> QED BY <1>3, <2>1, <2>2
<1>5. CASE recovery' = [stage |-> "idle"]
  BY <1>4, <1>5 DEF RecoveryInv, RecoveryTyped
<1>6. CASE recovery' = recovery
  <2>1. recovery.stage # "idle" =>
          /\ recovery.session \in Sessions /\ recovery.last \in Nat /\ recovery.last \in 1..Len(journal[recovery.session])
    BY DEF RecoveryInv, RecoveryTyped
  <2>2. recovery.stage # "idle" => recovery.last \in 1..Len(journal'[recovery.session]) /\ recovery.last <= Len(journal[recovery.session])
    BY <1>2, <2>1
  <2>3. recovery.stage # "idle" =>
          \A v : Covers(journal, v, recovery.session, recovery.last) => Covers(journal', v, recovery.session, recovery.last)
    BY <1>1, <2>1, <2>2, CoverStays
  <2> QED BY <1>4, <1>6, <2>2, <2>3 DEF RecoveryInv, RecoveryTyped
<1> QED BY <1>5, <1>6

LEMMA RecoveriesBegin ==
    ASSUME JournalInv, RecoveryInv, NEW s \in Sessions, BeginRecovery(s)
    PROVE  RecoveryInv'
<1> DEFINE last == Len(journal[s])
<1>1. /\ last \in 1..Len(journal[s]) /\ last \in Nat /\ cache' = NoView /\ UNCHANGED <<journal, snapshots>>
  BY DEF BeginRecovery, JournalInv, StoreTyped
<1>2. CASE recovery' = [stage |-> "begun", session |-> s, last |-> last]
  BY <1>1, <1>2 DEF RecoveryInv, RecoveryTyped
<1>3. CASE /\ recovery' = [stage |-> "seeded", session |-> s, last |-> last, view |-> cache]
           /\ cache # NoView /\ Usable(s, last)
  <2>1. Covers(journal, cache, s, last) /\ cache \in Views
    BY <1>3 DEF RecoveryInv, Usable, Covers
  <2> QED BY <1>1, <1>3, <2>1 DEF RecoveryInv, RecoveryTyped
<1> QED BY <1>2, <1>3 DEF BeginRecovery

LEMMA RecoveriesAreSeeded == ASSUME JournalInv, RecoveryInv, Seed PROVE RecoveryInv'
<1> DEFINE s == recovery.session
           last == recovery.last
<1>1. recovery.stage = "begun" /\ s \in Sessions /\ last \in Nat /\ last \in 1..Len(journal[s]) /\ UNCHANGED <<journal, cache, snapshots>>
  BY DEF Seed, RecoveryInv, RecoveryTyped
<1>2. PICK v : /\ v = NoView \/ \E x \in snapshots[s] : v = x.view
               /\ recovery' = IF v.state.through > last THEN [stage |-> "idle"]
                              ELSE [stage |-> "seeded", session |-> s, last |-> last, view |-> v]
  BY DEF Seed, Latest
<1>3. v \in Views /\ (v = NoView \/ Covers(journal, v, s, Len(journal[s])))
  BY <1>1, <1>2, NoViewIsTyped DEF RecoveryInv, Covers
<1>4. CASE v.state.through > last
  BY <1>1, <1>2, <1>4 DEF RecoveryInv, RecoveryTyped
<1>5. CASE ~(v.state.through > last)
  <2>1. recovery' = [stage |-> "seeded", session |-> s, last |-> last, view |-> v]
    BY <1>2, <1>5
  <2>2. v = NoView \/ Covers(journal, v, s, last)
    BY <1>1, <1>3, <1>5 DEF Covers
  <2> HIDE DEF s, last
  <2> QED BY <1>1, <1>3, <2>1, <2>2 DEF RecoveryInv, RecoveryTyped
<1> QED BY <1>4, <1>5

LEMMA EventsAreLoaded == ASSUME JournalInv, RecoveryInv, LoadEvents PROVE RecoveryInv'
<1> DEFINE s == recovery.session
           n == Len(journal[s])
           view == FoldFrom(s, recovery.view, n)
<1>1. /\ recovery.stage = "seeded" /\ s \in Sessions /\ recovery.last \in 1..n /\ n \in Nat /\ n \in 1..n
      /\ UNCHANGED <<journal, snapshots>>
  BY DEF LoadEvents, RecoveryInv, RecoveryTyped, JournalInv, StoreTyped
<1>2. CASE /\ recovery.last = n /\ cache' = view
           /\ recovery' = [stage |-> "done", session |-> s, last |-> n, view |-> view]
  <2>1. view = Fold(s, n)
    <3>1. recovery.view = NoView \/ Covers(journal, recovery.view, s, n)
      BY <1>1, <1>2 DEF RecoveryInv
    <3> QED BY <1>1, <3>1, CoverGoesOn
  <2> HIDE DEF view
  <2>2. Covers(journal, view, s, n) /\ view.state.through = n
    BY <1>1, <2>1, FoldsCover
  <2>3. view \in Views /\ view.state.session = s
    BY <2>2 DEF Covers
  <2> HIDE DEF s, n
  <2>4. RecoveryTyped'
    BY <1>1, <1>2, <2>3 DEF RecoveryTyped
  <2> QED BY <1>1, <1>2, <2>2, <2>3, <2>4 DEF RecoveryInv, n
<1>3. CASE recovery' = [stage |-> "idle"] /\ cache' = cache
  BY <1>1, <1>3 DEF RecoveryInv, RecoveryTyped
<1> QED BY <1>2, <1>3 DEF LoadEvents

LEMMA SnapshotsAreKept ==
    ASSUME JournalInv, RecoveryInv, WriteSnapshot \/ \E s \in Sessions : DamageSnapshot(s)
    PROVE  RecoveryInv'
<1>1. CASE WriteSnapshot
  <2> DEFINE s == recovery.session
             x == [view |-> recovery.view, ok |-> TRUE]
  <2>1. /\ recovery.stage = "done" /\ s \in Sessions /\ recovery.view \in Views /\ recovery' = [stage |-> "idle"]
        /\ snapshots' = [snapshots EXCEPT ![s] = @ \cup {x}] /\ UNCHANGED <<journal, cache>>
    BY <1>1 DEF WriteSnapshot, RecoveryInv, RecoveryTyped
  <2>2. Covers(journal, x.view, s, Len(journal[s])) /\ x \in Snapshots
    <3>1. Covers(journal, recovery.view, s, recovery.last) /\ recovery.last \in 1..Len(journal[s]) /\ Len(journal[s]) \in Nat
      BY <2>1 DEF RecoveryInv, JournalInv, StoreTyped
    <3>2. recovery.view.state.through \in 1..Len(journal[s])
      BY <3>1 DEF Covers
    <3> QED BY <2>1, <3>1, <3>2 DEF Covers, Snapshots
  <2> HIDE DEF x, s
  <2>3. snapshots \in [Sessions -> SUBSET Snapshots]
    BY DEF RecoveryInv
  <2>4. snapshots' \in [Sessions -> SUBSET Snapshots]
    BY <2>1, <2>2, <2>3
  <2>5. \A t \in Sessions : \A y \in snapshots'[t] : Covers(journal, y.view, t, Len(journal[t]))
    BY <2>1, <2>2, <2>3 DEF RecoveryInv
  <2> QED BY <2>1, <2>4, <2>5 DEF RecoveryInv, RecoveryTyped
<1>2. ASSUME NEW s \in Sessions, DamageSnapshot(s) PROVE RecoveryInv'
  <2>1. PICK x \in snapshots[s] : snapshots' = [snapshots EXCEPT ![s] = (@ \ {x}) \cup {[x EXCEPT !.ok = FALSE]}]
    BY <1>2 DEF DamageSnapshot
  <2> DEFINE y == [x EXCEPT !.ok = FALSE]
  <2>2. UNCHANGED <<journal, recovery, cache>> /\ snapshots \in [Sessions -> SUBSET Snapshots]
    BY <1>2 DEF DamageSnapshot, RecoveryInv
  <2>3. x \in Snapshots /\ y \in Snapshots /\ y.view = x.view
    <3>1. x \in Snapshots
      BY <2>1, <2>2
    <3>2. FALSE \in BOOLEAN
      OBVIOUS
    <3>3. y \in Snapshots
      BY <3>1, <3>2 DEF Snapshots
    <3>4. y.view = x.view
      BY <3>1 DEF Snapshots
    <3> QED BY <3>1, <3>3, <3>4
  <2> HIDE DEF y
  <2>4. snapshots' \in [Sessions -> SUBSET Snapshots]
    BY <2>1, <2>2, <2>3 DEF y
  <2>5. \A t \in Sessions : \A z \in snapshots'[t] : Covers(journal, z.view, t, Len(journal[t]))
    BY <2>1, <2>2, <2>3 DEF RecoveryInv, y
  <2> QED BY <2>2, <2>4, <2>5 DEF RecoveryInv, RecoveryTyped
<1> QED BY <1>1, <1>2

LEMMA RecoveryStepKeeps == ASSUME JournalInv, JournalInv', RecoveryInv, [JournalNext]_journalVars PROVE RecoveryInv'
<1>1. GrowTo(journal, journal')
  BY JournalsGrow
<1>2. ASSUME NEW s \in Sessions, AdmitInput(s) PROVE RecoveryInv'
  BY <1>1, <1>2, RecoveryStays DEF AdmitInput
<1>3. ASSUME NEW w \in Writers, ReadSequence(w) \/ Commit(w) \/ Refuse(w) \/ GiveUp(w) PROVE RecoveryInv'
  BY <1>1, <1>3, RecoveryStays DEF ReadSequence, Commit, Refuse, GiveUp
<1>4. ASSUME NEW w \in Writers, NEW kind \in Kinds, NEW of \in Subjects(kind), ReadState(w, kind, of) PROVE RecoveryInv'
  BY <1>1, <1>4, RecoveryStays DEF ReadState
<1>5. CASE ReleaseLease \/ NewHost \/ EndRecovery \/ UNCHANGED journalVars
  BY <1>1, <1>5, RecoveryStays DEF ReleaseLease, NewHost, EndRecovery, journalVars
<1> QED
  BY <1>2, <1>3, <1>4, <1>5, RecoveriesBegin, RecoveriesAreSeeded, EventsAreLoaded, SnapshotsAreKept DEF JournalNext

LEMMA RecoveriesHold == JournalSpec => []RecoveryInv
<1>1. JournalInit => RecoveryInv
  BY InitRecovers
<1>2. JournalInv /\ JournalInv' /\ RecoveryInv /\ [JournalNext]_journalVars => RecoveryInv'
  BY RecoveryStepKeeps
<1> QED BY <1>1, <1>2, JournalIsInductive, PTL DEF JournalSpec

(* A recovery returns the whole fold of the journal it found, from nothing, *)
(* a snapshot or a kept fold, for any number of sessions and events.        *)
THEOREM RecoveriesAreFolds == JournalSpec => []RecoveredIsFold
<1>1. JournalInv /\ RecoveryInv => RecoveredIsFold
  <2> SUFFICES ASSUME JournalInv, RecoveryInv PROVE RecoveredIsFold
    OBVIOUS
  <2>1. \A s, n : FoldOf(journal[s], s, NoView, n) = Fold(s, n)
    BY FoldFromIsFoldOf DEF Fold
  <2>2. recovery.stage = "done" => recovery.view = Fold(recovery.session, recovery.last)
    BY <2>1 DEF RecoveryInv, Covers
  <2>3. cache # NoView => cache = Fold(cache.state.session, cache.state.through)
    BY <2>1 DEF RecoveryInv, Covers
  <2> QED BY <2>2, <2>3 DEF RecoveredIsFold
<1> QED BY <1>1, JournalIsInductive, RecoveriesHold, PTL

-----------------------------------------------------------------------------
(* A decision is recorded while no call of a tool writes to its session.    *)
DecisionsApart ==
    \A v, w \in Writers : Writing(v) /\ Writing(w) /\ op[v].kind = "decision" /\ op[w].kind \in ToolKinds =>
        op[v].session # op[w].session

FoldIn(journals, s, n) == FoldOf(journals[s], s, NoView, n)

(* A state without its sequence.                                            *)
Content(state) == [state EXCEPT !.through = 0]

StoredIsFold ==
    projection # NoState =>
        projection = FoldIn(journal, projection.session, Len(journal[projection.session])).state

MayWrite(w) == Writing(w) /\ op[w].gen = gen /\ Claimable(op[w].session, gen)

(* The session service compares what it read with the sequence.             *)
SessionReadsStand ==
    \A w \in Writers : Writing(w) /\ op[w].kind \in SessionKinds =>
        /\ op[w].state = FoldIn(journal, op[w].session, op[w].state.through).state
        /\ op[w].stage = "commit" => op[w].seq = op[w].state.through + 1

(* The tool service does not, but what it read is still what is stored, and *)
(* it writes alone.                                                         *)
ToolReadsStand ==
    /\ \A w \in Writers : MayWrite(w) /\ op[w].kind \in ToolKinds => Content(op[w].state) = Content(projection)
    /\ \A v, w \in Writers :
         /\ Writing(v) /\ op[v].kind \in ToolKinds /\ op[v].gen = gen
         /\ Writing(w) /\ op[w].kind \in ToolKinds /\ op[w].gen = gen /\ op[v].session = op[w].session
         => v = w

ProjectionInv == StoredIsFold /\ SessionReadsStand /\ ToolReadsStand

LEMMA ContentIsAll ==
    ASSUME NEW a \in TaskStates, NEW b \in TaskStates, Content(a) = Content(b)
    PROVE  /\ a.session = b.session /\ a.pending = b.pending /\ a.notes = b.notes
           /\ a.decisions = b.decisions /\ a.retired = b.retired
<1>1. /\ Content(a).session = a.session /\ Content(a).pending = a.pending /\ Content(a).notes = a.notes
      /\ Content(a).decisions = a.decisions /\ Content(a).retired = a.retired
  BY DEF Content, TaskStates
<1>2. /\ Content(b).session = b.session /\ Content(b).pending = b.pending /\ Content(b).notes = b.notes
      /\ Content(b).decisions = b.decisions /\ Content(b).retired = b.retired
  BY DEF Content, TaskStates
<1> QED BY <1>1, <1>2

LEMMA StatesAreEqual ==
    ASSUME NEW a \in TaskStates, NEW b \in TaskStates, a.session = b.session, a.through = b.through, a.pending = b.pending,
           a.notes = b.notes, a.decisions = b.decisions, a.retired = b.retired
    PROVE  a = b
BY DEF TaskStates

(* What an event does to a state depends on its content alone.              *)
LEMMA EffectIsOfContent ==
    ASSUME NEW a \in TaskStates, NEW b \in TaskStates, Content(a) = Content(b),
           NEW kind, NEW of \in Subject, NEW n \in 1..MaxEvents
    PROVE  Effect(a, kind, of, n) = Effect(b, kind, of, n)
<1> DEFINE x == Effect(a, kind, of, n)
           y == Effect(b, kind, of, n)
<1>1. x \in TaskStates /\ y \in TaskStates /\ x.session = a.session /\ y.session = b.session /\ x.through = n /\ y.through = n
  BY EffectIsTyped
<1>2. /\ a.session = b.session /\ a.pending = b.pending /\ a.notes = b.notes
      /\ a.decisions = b.decisions /\ a.retired = b.retired
  BY ContentIsAll
<1>3. x.pending = y.pending /\ x.notes = y.notes /\ x.decisions = y.decisions /\ x.retired = y.retired
  <2> USE <1>2 DEF Effect, TaskStates, ApplyDecision
  <2>1. CASE kind = "intent" BY <2>1
  <2>2. CASE kind = "receipt" BY <2>2
  <2>3. CASE kind = "note" BY <2>3
  <2>4. CASE kind = "decision" BY <2>4
  <2>5. CASE kind \notin {"intent", "receipt", "note", "decision"} BY <2>5
  <2> QED BY <2>1, <2>2, <2>3, <2>4, <2>5
<1> HIDE DEF x, y
<1>4. x = y
  BY <1>1, <1>2, <1>3, StatesAreEqual
<1> QED BY <1>4 DEF x, y

LEMMA FoldInStays ==
    ASSUME NEW journals \in [Sessions -> Seq(Events)], NEW later \in [Sessions -> Seq(Events)], GrowTo(journals, later),
           NEW s \in Sessions, NEW n \in 0..Len(journals[s])
    PROVE  FoldIn(later, s, n) = FoldIn(journals, s, n)
<1>1. n \in Nat /\ NoView.state.through \in Nat /\ NoView.state.through <= n
  BY NoViewIsTyped
<1>2. \A k \in 1..n : later[s][k] = journals[s][k]
  <2>1. \A k \in 1..Len(journals[s]) : later[s][k] = journals[s][k]
    BY DEF GrowTo
  <2>2. Len(journals[s]) \in Nat
    OBVIOUS
  <2> QED BY <2>1, <2>2
<1> QED BY <1>1, <1>2, FoldsStay DEF FoldIn

(* The fold of a journal that got an event.                                 *)
LEMMA FoldOfExtended ==
    ASSUME StoreTyped, NEW s \in Sessions, NEW event, Extended(s, event), NEW n, n = Len(journal[s]) + 1
    PROVE  FoldIn(journal', s, n).state =
             IF event.kind = "input" THEN Fresh(s) ELSE Effect(FoldIn(journal, s, Len(journal[s])).state, event.kind, event.of, n)
<1> DEFINE m == Len(journal[s])
<1>1. m \in Nat /\ m \in 0..m /\ NoView.state.through \in Nat /\ NoView.state.through <= m /\ n = m + 1
      /\ journal \in [Sessions -> Seq(Events)] /\ journal' \in [Sessions -> Seq(Events)] /\ journal'[s][n] = event
  BY NoViewIsTyped DEF StoreTyped, Extended
<1>2. FoldIn(journal', s, m) = FoldIn(journal, s, m)
  BY <1>1, ExtendedGrows, FoldInStays
<1>3. FoldIn(journal', s, m + 1) = FoldEvent(s, FoldIn(journal', s, m), journal'[s][m + 1], m + 1)
  BY <1>1, FoldsByStep DEF FoldIn
<1> HIDE DEF m
<1>4. FoldIn(journal', s, n) = FoldEvent(s, FoldIn(journal, s, m), event, n)
  BY <1>1, <1>2, <1>3
<1> QED BY <1>4 DEF FoldEvent, m

-----------------------------------------------------------------------------
(* A commit applies its event to the state that is stored, whatever its     *)
(* writer read.                                                             *)
LEMMA CommitsApply ==
    ASSUME JournalInv, ProjectionInv, NEW w \in Writers, Commit(w)
    PROVE  /\ projection # NoState /\ projection \in TaskStates /\ Content(op[w].state) = Content(projection)
           /\ projection' = Effect(projection, op[w].kind, op[w].of, op[w].seq)
<1> DEFINE s == op[w].session
<1>1. /\ Writing(w) /\ s \in Sessions /\ s = projection.session /\ op[w].gen = gen /\ op[w].kind \in ToolKinds \cup SessionKinds
      /\ op[w].seq = Len(journal[s]) + 1 /\ op[w].seq \in 1..MaxEvents /\ op[w].of \in Subject
      /\ op[w].state \in TaskStates /\ op[w].state.through \in 1..Len(journal[s]) /\ Len(journal[s]) \in Nat
  <2>1. Sound(journal, op[w].state) /\ op[w].state.session = s /\ s \in Sessions
    BY CommitExtends
  <2>2. op[w].state \in TaskStates /\ op[w].state.through \in 1..Len(journal[s]) /\ Len(journal[s]) \in Nat
    BY <2>1 DEF Sound, JournalInv, StoreTyped
  <2> QED BY <2>2, CommitExtends
<1>2. projection # NoState /\ projection \in TaskStates
  BY <1>1, NoSessionIsNone DEF NoState, JournalInv, StoreTyped
<1>3. Claimable(s, gen) /\ op[w].stage = "commit" /\ projection' = Effect(op[w].state, op[w].kind, op[w].of, op[w].seq)
  BY <1>1 DEF Commit, Admissible
<1>4. Content(op[w].state) = Content(projection)
  <2>1. CASE op[w].kind \in ToolKinds
    BY <1>1, <1>3, <2>1 DEF ProjectionInv, ToolReadsStand, MayWrite
  <2>2. CASE op[w].kind \in SessionKinds
    <3>1. op[w].seq = op[w].state.through + 1 /\ op[w].state = FoldIn(journal, s, op[w].state.through).state
      BY <1>1, <1>3, <2>2 DEF ProjectionInv, SessionReadsStand
    <3>2. op[w].state.through = Len(journal[s])
      BY <1>1, <3>1
    <3>3. projection = FoldIn(journal, s, Len(journal[s])).state
      BY <1>1, <1>2 DEF ProjectionInv, StoredIsFold
    <3> QED BY <3>1, <3>2, <3>3
  <2> QED BY <1>1, <2>1, <2>2
<1>5. Effect(op[w].state, op[w].kind, op[w].of, op[w].seq) = Effect(projection, op[w].kind, op[w].of, op[w].seq)
  BY <1>1, <1>2, <1>4, EffectIsOfContent
<1> QED BY <1>2, <1>3, <1>4, <1>5

(* What the session service read is a fold of the journal as it grows.      *)
LEMMA ReadsStay ==
    ASSUME JournalInv, JournalInv', ProjectionInv, GrowTo(journal, journal'), NEW w \in Writers,
           Writing(w), op[w].kind \in SessionKinds
    PROVE  op[w].state = FoldIn(journal', op[w].session, op[w].state.through).state
<1>1. /\ op[w].session \in Sessions /\ op[w].state.through \in 1..Len(journal[op[w].session])
      /\ op[w].state = FoldIn(journal, op[w].session, op[w].state.through).state
  BY WritersAreTyped DEF JournalInv, StatesAreSound, Sound, ProjectionInv, SessionReadsStand
<1>2. op[w].state.through \in 0..Len(journal[op[w].session])
  BY <1>1
<1> QED BY <1>1, <1>2, FoldInStays DEF JournalInv, StoreTyped

(* Steps that change no journal, and at most end what writers do.           *)
LEMMA ReadsEnd ==
    ASSUME JournalInv, ProjectionInv, UNCHANGED <<journal, projection>>,
           \A w \in Writers : Writing(w)' => Writing(w) /\ op'[w] = op[w],
           gen' # gen => gen' = gen + 1, lease' # lease => \A w \in Writers : ~Writing(w)
    PROVE  ProjectionInv'
<1>1. \A w \in Writers : Writing(w) => op[w].gen <= gen /\ op[w].gen \in Nat
  BY WritersAreTyped DEF JournalInv, StatesAreSound, WritingOps
<1>2. gen \in Nat
  BY DEF JournalInv, StoreTyped
<1>3. \A w \in Writers : Writing(w)' /\ op[w].gen = gen' => gen' = gen /\ lease' = lease
  BY <1>1, <1>2
<1>4. StoredIsFold' /\ SessionReadsStand'
  BY DEF ProjectionInv, StoredIsFold, SessionReadsStand
<1>5. ASSUME NEW w \in Writers, MayWrite(w)' PROVE MayWrite(w) /\ op'[w] = op[w]
  <2>1. Writing(w)' /\ op'[w] = op[w] /\ op[w].gen = gen' /\ Writing(w)
    BY <1>5 DEF MayWrite
  <2>2. gen' = gen /\ lease' = lease
    BY <1>3, <2>1
  <2> QED BY <1>5, <2>1, <2>2 DEF MayWrite, Claimable
<1>6. ToolReadsStand'
  BY <1>3, <1>5 DEF ProjectionInv, ToolReadsStand
<1> QED BY <1>4, <1>6 DEF ProjectionInv

LEMMA InitProjects == JournalInit => ProjectionInv
<1> SUFFICES ASSUME JournalInit PROVE ProjectionInv
  OBVIOUS
<1>1. projection = NoState /\ \A w \in Writers : ~Writing(w)
  BY DEF JournalInit, Writing, NoOp
<1> QED BY <1>1 DEF ProjectionInv, StoredIsFold, SessionReadsStand, ToolReadsStand, MayWrite

LEMMA InputsProject ==
    ASSUME JournalInv, JournalInv', ProjectionInv, NEW s \in Sessions, AdmitInput(s)
    PROVE  ProjectionInv'
<1> DEFINE event == [kind |-> "input", of |-> 0]
<1>1. Extended(s, event) /\ Len(journal[s]) = 0 /\ WritersOf(s) = {} /\ StoreTyped
  BY InputExtends DEF JournalInv
<1>2. projection' = Fresh(s) /\ lease' = [session |-> s, gen |-> gen] /\ UNCHANGED <<gen, op>> /\ Fresh(s).session = s
  BY FreshIsTyped DEF AdmitInput
<1>3. StoredIsFold'
  <2>1. 1 = Len(journal[s]) + 1 /\ event.kind = "input" /\ Len(journal'[s]) = 1
    BY <1>1 DEF Extended
  <2>2. FoldIn(journal', s, 1).state = Fresh(s)
    BY <1>1, <2>1, FoldOfExtended
  <2> QED BY <1>2, <2>1, <2>2 DEF StoredIsFold
<1>4. GrowTo(journal, journal')
  BY <1>1, ExtendedGrows
<1>5. SessionReadsStand'
  <2>1. \A w \in Writers : Writing(w)' = Writing(w) /\ op'[w] = op[w]
    BY <1>2 DEF Writing
  <2> QED BY <1>4, <2>1, ReadsStay DEF SessionReadsStand, ProjectionInv
<1>6. ASSUME NEW w \in Writers, MayWrite(w)' PROVE FALSE
  <2>1. Writing(w) /\ (lease'.session \in {None, op[w].session} \/ lease'.gen < gen)
    BY <1>2, <1>6 DEF MayWrite, Claimable, Writing
  <2>2. op[w].session = s
    BY <1>2, <2>1, NoSessionIsNone DEF JournalInv, StoreTyped
  <2> QED BY <1>1, <2>1, <2>2 DEF WritersOf
<1>7. ToolReadsStand'
  BY <1>2, <1>6 DEF ProjectionInv, ToolReadsStand, Writing
<1> QED BY <1>3, <1>5, <1>7 DEF ProjectionInv

LEMMA ReadsProject ==
    ASSUME JournalInv, ProjectionInv, NEW w \in Writers, NEW kind \in Kinds, NEW of \in Subjects(kind), ReadState(w, kind, of)
    PROVE  ProjectionInv'
<1> DEFINE s == projection.session
           read == [stage |-> "read", kind |-> kind, of |-> of, session |-> s, state |-> projection, seq |-> 0, gen |-> gen]
<1>1. /\ op[w] = NoOp /\ s # None /\ op' = [op EXCEPT ![w] = read]
      /\ UNCHANGED <<journal, projection, lease, gen>> /\ (kind \in ToolKinds => DriverFree(s))
  BY DEF ReadState
<1>2. op'[w] = read /\ \A v \in Writers : v # w => op'[v] = op[v]
  BY <1>1 DEF JournalInv, StoreTyped
<1>3. Writing(w)' /\ ~Writing(w) /\ \A v \in Writers : v # w => Writing(v)' = Writing(v) /\ MayWrite(v)' = MayWrite(v)
  BY <1>1, <1>2 DEF Writing, NoOp, MayWrite, Claimable
<1>4. StoredIsFold'
  BY <1>1 DEF ProjectionInv, StoredIsFold
<1>5. projection # NoState /\ s \in Sessions
  BY <1>1 DEF NoState, JournalInv, StatesAreSound, Sound
<1>6. projection = FoldIn(journal, s, projection.through).state
  <2>1. projection = FoldIn(journal, s, Len(journal[s])).state
    BY <1>5 DEF ProjectionInv, StoredIsFold
  <2>2. Len(journal[s]) \in 1..Len(journal[s])
    BY <1>5 DEF JournalInv, StatesAreSound, Sound, StoreTyped
  <2>3. Fold(s, Len(journal[s])) = FoldIn(journal, s, Len(journal[s]))
    BY FoldFromIsFoldOf DEF Fold, FoldIn
  <2>4. projection.through = Len(journal[s])
    BY <1>5, <2>1, <2>2, <2>3, FoldsCover
  <2> QED BY <2>1, <2>4
<1> HIDE DEF s
<1>7. SessionReadsStand'
  <2> SUFFICES ASSUME NEW v \in Writers, Writing(v)', op'[v].kind \in SessionKinds
               PROVE  /\ op'[v].state = FoldIn(journal', op'[v].session, op'[v].state.through).state
                      /\ op'[v].stage = "commit" => op'[v].seq = op'[v].state.through + 1
    BY DEF SessionReadsStand
  <2>1. CASE v = w
    BY <1>1, <1>2, <1>6, <2>1
  <2>2. CASE v # w
    BY <1>1, <1>2, <1>3, <2>2 DEF ProjectionInv, SessionReadsStand
  <2> QED BY <2>1, <2>2
<1>8. ASSUME NEW v \in Writers, MayWrite(v)', op'[v].kind \in ToolKinds PROVE Content(op'[v].state) = Content(projection')
  <2>1. CASE v = w
    BY <1>1, <1>2, <2>1
  <2>2. CASE v # w
    BY <1>1, <1>2, <1>3, <1>8, <2>2 DEF ProjectionInv, ToolReadsStand
  <2> QED BY <2>1, <2>2
<1>9. ASSUME NEW v \in Writers, NEW u \in Writers,
             Writing(v)', op'[v].kind \in ToolKinds, op'[v].gen = gen', Writing(u)', op'[u].kind \in ToolKinds, op'[u].gen = gen',
             op'[v].session = op'[u].session
      PROVE  v = u
  <2>1. CASE v # w /\ u # w
    BY <1>1, <1>2, <1>3, <1>9, <2>1 DEF ProjectionInv, ToolReadsStand
  <2>2. CASE kind \in ToolKinds
    <3>1. \A x \in Writers : Writing(x) => op[x].kind \notin ToolKinds \/ op[x].session # s \/ op[x].gen # gen
      BY <1>1, <2>2 DEF DriverFree, Writing
    <3>2. \A x \in Writers : x # w /\ Writing(x)' /\ op'[x].kind \in ToolKinds /\ op'[x].gen = gen' => op'[x].session # s
      BY <1>1, <1>2, <1>3, <3>1
    <3>3. op'[w].session = s
      BY <1>2
    <3>4. CASE v = w
      BY <1>9, <3>2, <3>3, <3>4
    <3>5. CASE u = w
      BY <1>9, <3>2, <3>3, <3>5
    <3> QED BY <2>1, <3>4, <3>5
  <2>3. CASE kind \notin ToolKinds
    BY <1>2, <1>9, <2>1, <2>3
  <2> QED BY <2>2, <2>3
<1>10. ToolReadsStand'
  BY <1>8, <1>9 DEF ToolReadsStand
<1> QED BY <1>4, <1>7, <1>10 DEF ProjectionInv

LEMMA SequencesProject == ASSUME JournalInv, ProjectionInv, NEW w \in Writers, ReadSequence(w) PROVE ProjectionInv'
<1> DEFINE n == Next(op[w].session)
<1>1. op[w].stage = "read" /\ UNCHANGED <<journal, projection, lease, gen>> /\ Writing(w)
  BY DEF ReadSequence, Writing
<1>2. op \in [Writers -> WritingOps \cup {NoOp, Clash}] /\ op[w] \in WritingOps
  BY <1>1, WritersAreTyped DEF JournalInv, StoreTyped
<1>3. CASE op' = [op EXCEPT ![w] = NoOp]
  <2>1. \A v \in Writers : Writing(v)' => Writing(v) /\ op'[v] = op[v]
    BY <1>2, <1>3 DEF Writing, NoOp
  <2> QED BY <1>1, <2>1, ReadsEnd
<1>4. CASE /\ op' = [op EXCEPT ![w].stage = "commit", ![w].seq = n]
           /\ ~(op[w].kind \in SessionKinds /\ n # op[w].state.through + 1)
  <2>1. /\ \A v \in Writers : v # w => op'[v] = op[v]
        /\ op'[w] = [[op[w] EXCEPT !.stage = "commit"] EXCEPT !.seq = n]
    BY <1>2, <1>4
  <2>2. /\ op'[w].stage = "commit" /\ op'[w].seq = n /\ op'[w].kind = op[w].kind /\ op'[w].session = op[w].session
        /\ op'[w].state = op[w].state /\ op'[w].gen = op[w].gen
    BY <1>2, <2>1 DEF WritingOps
  <2> HIDE DEF n
  <2>3. \A v \in Writers : /\ Writing(v)' = Writing(v) /\ op'[v].kind = op[v].kind /\ op'[v].session = op[v].session
                           /\ op'[v].state = op[v].state /\ op'[v].gen = op[v].gen
    <3> SUFFICES ASSUME NEW v \in Writers
                 PROVE  /\ Writing(v)' = Writing(v) /\ op'[v].kind = op[v].kind /\ op'[v].session = op[v].session
                        /\ op'[v].state = op[v].state /\ op'[v].gen = op[v].gen
      OBVIOUS
    <3>1. CASE v = w
      <4>1. Writing(v)' /\ Writing(v)
        BY <1>1, <2>2, <3>1 DEF Writing
      <4> QED BY <2>2, <3>1, <4>1
    <3>2. CASE v # w
      BY <2>1, <3>2 DEF Writing
    <3> QED BY <3>1, <3>2
  <2>4. StoredIsFold'
    BY <1>1 DEF ProjectionInv, StoredIsFold
  <2>5. SessionReadsStand'
    <3> SUFFICES ASSUME NEW v \in Writers, Writing(v)', op'[v].kind \in SessionKinds
                 PROVE  /\ op'[v].state = FoldIn(journal', op'[v].session, op'[v].state.through).state
                        /\ op'[v].stage = "commit" => op'[v].seq = op'[v].state.through + 1
      BY DEF SessionReadsStand
    <3>1. op'[v].state = FoldIn(journal', op'[v].session, op'[v].state.through).state
      BY <1>1, <2>3 DEF ProjectionInv, SessionReadsStand
    <3>2. CASE v = w
      BY <1>4, <2>2, <3>1, <3>2
    <3>3. CASE v # w
      BY <2>1, <2>3, <3>1, <3>3 DEF ProjectionInv, SessionReadsStand
    <3> QED BY <3>2, <3>3
  <2>6. ToolReadsStand'
    BY <1>1, <2>3 DEF ProjectionInv, ToolReadsStand, MayWrite, Claimable
  <2> QED BY <2>4, <2>5, <2>6 DEF ProjectionInv
<1> QED BY <1>3, <1>4 DEF ReadSequence

LEMMA CommitsProject ==
    ASSUME JournalInv, JournalInv', DecisionsApart, ProjectionInv, NEW w \in Writers, Commit(w)
    PROVE  ProjectionInv'
<1> DEFINE s == op[w].session
           n == op[w].seq
           event == [kind |-> op[w].kind, of |-> op[w].of]
<1>1. /\ Writing(w) /\ s \in Sessions /\ s # None /\ s = projection.session /\ op[w].gen = gen /\ gen \in Nat
      /\ n = Len(journal[s]) + 1 /\ n \in 1..MaxEvents /\ op[w].of \in Subject
      /\ Extended(s, event) /\ op[w].kind \in ToolKinds \cup SessionKinds /\ StoreTyped
      /\ \A v \in Writers : v # w => op'[v] = op[v] /\ Writing(v)' = Writing(v)
      /\ ~Writing(w)' /\ gen' = gen /\ lease' = [session |-> s, gen |-> gen] /\ Claimable(s, gen)
  <2>1. Commit(w) => gen' = gen /\ lease' = [session |-> s, gen |-> op[w].gen] /\ Claimable(s, op[w].gen)
    BY DEF Commit, Admissible
  <2> QED BY <2>1, CommitExtends, NoSessionIsNone DEF JournalInv, StoreTyped
<1>2. /\ projection # NoState /\ projection \in TaskStates /\ projection' = Effect(projection, op[w].kind, op[w].of, n)
  BY CommitsApply
<1>3. projection'.session = s
  BY StoredIsSound
<1>4. GrowTo(journal, journal')
  BY <1>1, ExtendedGrows
<1>5. StoredIsFold'
  <2>1. projection = FoldIn(journal, s, Len(journal[s])).state
    BY <1>1, <1>2 DEF ProjectionInv, StoredIsFold
  <2>2. event.kind # "input" /\ event.kind = op[w].kind /\ event.of = op[w].of
    BY <1>1 DEF ToolKinds, SessionKinds
  <2>3. FoldIn(journal', s, n).state = Effect(projection, op[w].kind, op[w].of, n)
    <3> HIDE DEF event, s, n
    <3>1. FoldIn(journal', s, n).state =
             IF event.kind = "input" THEN Fresh(s) ELSE Effect(FoldIn(journal, s, Len(journal[s])).state, event.kind, event.of, n)
      BY <1>1, FoldOfExtended
    <3> QED BY <2>1, <2>2, <3>1
  <2>4. Len(journal'[s]) = n
    BY <1>1 DEF Extended
  <2> QED BY <1>2, <1>3, <2>3, <2>4 DEF StoredIsFold
<1> HIDE DEF s, n
<1>6. SessionReadsStand'
  <2>1. \A v \in Writers : Writing(v)' => Writing(v) /\ op'[v] = op[v]
    BY <1>1
  <2> QED BY <1>4, <2>1, ReadsStay DEF SessionReadsStand, ProjectionInv
<1>7. ASSUME NEW v \in Writers, MayWrite(v)', op'[v].kind \in ToolKinds PROVE Content(op'[v].state) = Content(projection')
  <2>1. Writing(v)' /\ op'[v].gen = gen' /\ (lease'.session \in {None, op'[v].session} \/ lease'.gen < gen')
    BY <1>7 DEF MayWrite, Claimable
  <2>2. v # w /\ op'[v] = op[v] /\ Writing(v) /\ op[v].gen = gen /\ op[v].kind \in ToolKinds /\ op[v].session = s
    BY <1>1, <1>7, <2>1
  <2>3. Content(op[v].state) = Content(projection)
    BY <1>1, <2>2 DEF ProjectionInv, ToolReadsStand, MayWrite
  <2>4. op[w].kind \notin ToolKinds
    BY <1>1, <2>2 DEF ProjectionInv, ToolReadsStand, s
  <2>5. op[w].kind # "decision"
    BY <1>1, <2>2 DEF DecisionsApart, s
  <2>6. projection' = [projection EXCEPT !.through = n]
    BY <1>1, <1>2, <2>4, <2>5 DEF Effect, ToolKinds
  <2>7. Content(projection') = Content(projection)
    BY <1>2, <2>6 DEF Content, TaskStates
  <2> QED BY <2>2, <2>3, <2>7
<1>8. ToolReadsStand'
  BY <1>1, <1>7 DEF ProjectionInv, ToolReadsStand
<1> QED BY <1>5, <1>6, <1>8 DEF ProjectionInv

LEMMA ProjectionStepKeeps ==
    ASSUME JournalInv, JournalInv', DecisionsApart, ProjectionInv, [JournalNext]_journalVars
    PROVE  ProjectionInv'
<1>1. ASSUME UNCHANGED <<journal, projection, lease, gen, op>> PROVE ProjectionInv'
  BY <1>1, ReadsEnd DEF Writing
<1>2. ASSUME NEW s \in Sessions, BeginRecovery(s) \/ DamageSnapshot(s) PROVE ProjectionInv'
  BY <1>1, <1>2 DEF BeginRecovery, DamageSnapshot
<1>3. CASE Seed \/ LoadEvents \/ EndRecovery \/ WriteSnapshot \/ UNCHANGED journalVars
  BY <1>1, <1>3 DEF Seed, LoadEvents, EndRecovery, WriteSnapshot, journalVars
<1>4. ASSUME NEW w \in Writers, Refuse(w) \/ GiveUp(w) PROVE ProjectionInv'
  <2>1. [NoOp EXCEPT !.stage = "clash"] = Clash
    BY DEF NoOp, Clash
  <2>2. UNCHANGED <<journal, projection, lease, gen>> /\ \E o \in {NoOp, Clash} : op' = [op EXCEPT ![w] = o]
    BY <1>4, <2>1 DEF Refuse, GiveUp
  <2>3. \A v \in Writers : Writing(v)' => Writing(v) /\ op'[v] = op[v]
    BY <2>2 DEF JournalInv, StoreTyped, Writing, NoOp, Clash
  <2> QED BY <2>2, <2>3, ReadsEnd
<1>5. CASE ReleaseLease
  <2>1. \A w \in Writers : ~Writing(w)
    BY <1>5 DEF ReleaseLease, Writing
  <2> QED BY <1>5, <2>1, ReadsEnd DEF ReleaseLease, Writing
<1>6. CASE NewHost
  BY <1>6, ReadsEnd DEF NewHost, Writing
<1> QED
  BY <1>2, <1>3, <1>4, <1>5, <1>6, InputsProject, ReadsProject, SequencesProject, CommitsProject DEF JournalNext

-----------------------------------------------------------------------------
LEMMA ProjectionStays == JournalSpec /\ []DecisionsApart => []ProjectionInv
<1>1. JournalInit => ProjectionInv
  BY InitProjects
<1>2. JournalInv /\ JournalInv' /\ DecisionsApart /\ ProjectionInv /\ [JournalNext]_journalVars => ProjectionInv'
  BY ProjectionStepKeeps
<1> QED BY <1>1, <1>2, JournalIsInductive, PTL DEF JournalSpec

LEMMA JournalsAreTyped == ASSUME JournalInv, RecoveryInv PROVE JournalTypeOK
<1>1. ASSUME NEW s \in Sessions PROVE journal[s] \in Seq(Events) /\ Len(journal[s]) <= MaxEvents
  <2>1. journal[s] \in Seq(Events) /\ Len(journal[s]) \in Nat /\ MaxEvents \in Nat
    BY JournalAssumption DEF JournalInv, StoreTyped
  <2>2. Len(journal[s]) + Cardinality(WritersOf(s)) <= MaxEvents /\ Cardinality(WritersOf(s)) \in Nat
    BY WritersAreFinite DEF JournalInv, RoomIsKept
  <2> QED BY <2>1, <2>2
<1>2. /\ projection.session \in Sessions \cup {None} /\ projection.through \in 0..MaxEvents
      /\ lease.session \in Sessions \cup {None} /\ gen \in 1..MaxGen
  BY DEF JournalInv, StoreTyped, TaskStates
<1>3. \A w \in Writers : op[w].stage \in {"idle", "read", "commit", "clash"}
  BY DEF JournalInv, StoreTyped, WritingOps, NoOp, Clash
<1>4. recovery.stage \in {"idle", "begun", "seeded", "done"}
  BY DEF RecoveryInv, RecoveryTyped
<1> QED BY <1>1, <1>2, <1>3, <1>4 DEF JournalTypeOK

LEMMA ProjectionsAreFolds == ASSUME ProjectionInv PROVE ProjectionIsFold
BY FoldFromIsFoldOf DEF ProjectionInv, StoredIsFold, ProjectionIsFold, Fold, FoldIn

LEMMA StepsHandOver ==
    ASSUME JournalInv, [JournalNext]_journalVars
    PROVE  /\ \A s \in Sessions : SubSeq(journal'[s], 1, Len(journal[s])) = journal[s]
           /\ projection'.session # projection.session => projection'.through = 1
<1>1. ASSUME NEW s \in Sessions PROVE SubSeq(journal'[s], 1, Len(journal[s])) = journal[s]
  <2>1. journal[s] \in Seq(Events) /\ Len(journal[s]) \in Nat
    BY DEF JournalInv, StoreTyped
  <2>2. /\ journal'[s] \in Seq(Events) /\ Len(journal[s]) <= Len(journal'[s])
        /\ \A k \in 1..Len(journal[s]) : journal'[s][k] = journal[s][k]
    BY JournalsGrow, JournalStepKeeps DEF GrowTo, JournalInv, StoreTyped
  <2> QED BY <2>1, <2>2
<1>2. ASSUME projection'.session # projection.session PROVE projection'.through = 1
  <2>1. CASE \E s \in Sessions : AdmitInput(s)
    BY <2>1, FreshIsTyped DEF AdmitInput
  <2>2. ASSUME NEW w \in Writers, Commit(w) PROVE FALSE
    BY <1>2, <2>2, CommitExtends, StoredIsSound
  <2>3. CASE UNCHANGED projection
    BY <1>2, <2>3
  <2>4. (\E s \in Sessions : AdmitInput(s)) \/ (\E w \in Writers : Commit(w)) \/ UNCHANGED projection
    BY DEF JournalNext, journalVars, BeginRecovery, DamageSnapshot, ReadState, ReadSequence, Refuse, GiveUp,
           ReleaseLease, NewHost, Seed, LoadEvents, EndRecovery, WriteSnapshot
  <2> QED BY <2>1, <2>2, <2>3, <2>4
<1> QED BY <1>1, <1>2

(* Every journal can be folded, it only grows, and a session takes the task *)
(* over by its own input alone.                                             *)
THEOREM JournalsFold == JournalSpec => [](JournalTypeOK /\ JournalFolds) /\ HandedOverByAdmission
<1>1. JournalInv /\ RecoveryInv => JournalTypeOK /\ JournalFolds
  BY JournalsAreTyped DEF JournalInv
<1>2. JournalInv /\ [JournalNext]_journalVars =>
        [/\ \A s \in Sessions : SubSeq(journal'[s], 1, Len(journal[s])) = journal[s]
         /\ projection'.session # projection.session => projection'.through = 1]_journalVars
  BY StepsHandOver
<1> QED BY <1>1, <1>2, JournalIsInductive, RecoveriesHold, PTL DEF JournalSpec, HandedOverByAdmission

(* While decisions and tool calls do not write to a session at once, the     *)
(* stored working state is the fold of its journal, whatever else is        *)
(* written between a read and its commit (sequence_after, apply_decision).  *)
THEOREM JournalIsSafe == JournalSpec /\ []DecisionsApart => JournalSafe
<1>1. ProjectionInv => ProjectionIsFold
  BY ProjectionsAreFolds
<1> QED BY <1>1, ProjectionStays, JournalsFold, PTL DEF JournalSafe

-----------------------------------------------------------------------------
LEMMA StoredFields ==
    /\ StoredState.session = projection.session /\ StoredState.pending = projection.pending
    /\ StoredState.notes = projection.notes /\ StoredState.decisions = projection.decisions
    /\ StoredState.retired = projection.retired
    /\ StoredState'.session = projection'.session /\ StoredState'.pending = projection'.pending
    /\ StoredState'.notes = projection'.notes /\ StoredState'.decisions = projection'.decisions
    /\ StoredState'.retired = projection'.retired
BY DEF StoredState

StoredStates ==
    [session : Sessions \cup {None}, pending : SUBSET Subject, notes : SUBSET Subject,
     decisions : SUBSET Subject, retired : SUBSET Subject]

LEMMA ViewsAreEqual ==
    ASSUME NEW a \in StoredStates, NEW b \in StoredStates, a.session = b.session, a.pending = b.pending,
           a.notes = b.notes, a.decisions = b.decisions, a.retired = b.retired
    PROVE  a = b
BY DEF StoredStates

(* A commit, as the readers of the working state see it.                    *)
LEMMA CommitIsTaskStep ==
    ASSUME JournalInv, ProjectionInv, NEW w \in Writers, Commit(w)
    PROVE  \/ \E e \in Executions : TaskImpl!OpenCall(e) \/ TaskImpl!CloseCall(e)
           \/ TaskImpl!AddNote \/ TaskImpl!TakeDecision
           \/ StoredState' = StoredState
<1> DEFINE s == op[w].session
           n == op[w].seq
           e == op[w].of
           kind == op[w].kind
<1>1. /\ projection # NoState /\ projection \in TaskStates /\ Content(op[w].state) = Content(projection)
      /\ projection' = Effect(projection, kind, e, n)
  BY CommitsApply
<1>2. /\ s = projection.session /\ s \in Sessions /\ n = Len(journal[s]) + 1 /\ n \in 1..MaxEvents /\ Len(journal[s]) \in Nat
      /\ kind \in ToolKinds \cup SessionKinds /\ Sound(journal, projection) /\ op[w].state \in TaskStates /\ Writing(w)
  <2>1. /\ s = projection.session /\ s \in Sessions /\ n = Len(journal[s]) + 1 /\ n \in 1..MaxEvents
        /\ kind \in ToolKinds \cup SessionKinds /\ Sound(journal, op[w].state) /\ Writing(w)
    BY CommitExtends
  <2>2. Sound(journal, projection) /\ Len(journal[s]) \in Nat
    BY <1>1, <2>1 DEF JournalInv, StatesAreSound, StoreTyped
  <2>3. op[w].state \in TaskStates
    BY <2>1 DEF Sound
  <2> QED BY <2>1, <2>2, <2>3
<1>3. op[w].state.pending = projection.pending /\ op[w].state.decisions = projection.decisions
  BY <1>1, <1>2, ContentIsAll
<1>4. Eligible(kind, e)
  BY DEF Commit, Admissible
<1>5. CASE kind = "intent"
  <2>1. e \in Executions
    BY <1>2, <1>5 DEF JournalInv, StatesAreSound
  <2>2. e \notin projection.pending
    <3> SUFFICES ASSUME e \in projection.pending PROVE FALSE
      OBVIOUS
    <3>1. PICK i \in 1..projection.through : journal[s][i] = [kind |-> "intent", of |-> e]
      BY <1>2 DEF Sound
    <3>2. i \in 1..MaxEvents /\ i <= Len(journal[s])
      <4>1. projection.through \in 1..Len(journal[s])
        BY <1>2 DEF Sound
      <4>2. MaxEvents \in Nat
        BY JournalAssumption
      <4> QED BY <1>2, <3>1, <4>1, <4>2
    <3>3. <<s, i>> \in EventsOf("intent", e)
      BY <1>2, <3>1, <3>2 DEF EventsOf
    <3> QED BY <1>4, <1>5, <3>3 DEF Eligible
  <2>3. projection' = [projection EXCEPT !.pending = @ \cup {e}, !.through = n]
    BY <1>1, <1>5 DEF Effect
  <2>4. StoredState' = [StoredState EXCEPT !.pending = @ \cup {e}]
    BY <1>1, <2>3 DEF StoredState, TaskStates
  <2>5. TaskImpl!OpenCall(e)
    BY <2>2, <2>4, StoredFields DEF TaskImpl!OpenCall
  <2> QED BY <2>1, <2>5
<1>6. CASE kind = "receipt"
  <2>1. e \in projection.pending /\ e \in Executions
    BY <1>2, <1>3, <1>6 DEF JournalInv, StatesAreSound
  <2>2. projection' = [projection EXCEPT !.pending = @ \ {e}, !.through = n]
    BY <1>1, <1>6 DEF Effect
  <2>3. StoredState' = [StoredState EXCEPT !.pending = @ \ {e}]
    BY <1>1, <2>2 DEF StoredState, TaskStates
  <2>4. TaskImpl!CloseCall(e)
    BY <2>1, <2>3, StoredFields DEF TaskImpl!CloseCall
  <2> QED BY <2>1, <2>4
<1>7. CASE kind = "note"
  <2>1. n \notin projection.notes
    BY <1>2 DEF Sound
  <2>2. projection' = [projection EXCEPT !.notes = @ \cup {n}, !.through = n]
    BY <1>1, <1>7 DEF Effect
  <2>3. StoredState' = [StoredState EXCEPT !.notes = @ \cup {n}]
    BY <1>1, <2>2 DEF StoredState, TaskStates
  <2>4. TaskImpl!AddNote
    <3>1. n \in projection'.notes
      BY <1>1, <2>2 DEF TaskStates
    <3>2. n \in StoredState'.notes \ StoredState.notes
      BY <2>1, <3>1, StoredFields
    <3> QED BY <2>3, <3>2 DEF TaskImpl!AddNote
  <2> QED BY <2>4
<1>8. CASE kind = "decision"
  <2>1. e \in {0} \cup projection.decisions
    BY <1>2, <1>3, <1>8 DEF JournalInv, StatesAreSound
  <2> DEFINE old == IF e = 0 THEN {} ELSE {e}
  <2>2. 0 \notin projection.decisions
    BY <1>1 DEF TaskStates
  <2>3. old \in {{}} \cup {{d} : d \in projection.decisions}
    BY <2>1
  <2>4. projection' = [projection EXCEPT !.decisions = (@ \ {e}) \cup {n}, !.through = n,
                                         !.retired = IF e = 0 THEN @ ELSE @ \cup {e}]
    BY <1>1, <1>8 DEF Effect, ApplyDecision
  <2>5. /\ projection'.decisions = (projection.decisions \ old) \cup {n} /\ projection'.retired = projection.retired \cup old
        /\ projection'.session = projection.session /\ projection'.pending = projection.pending /\ projection'.notes = projection.notes
    BY <1>1, <2>2, <2>4 DEF TaskStates
  <2> HIDE DEF old
  <2>6. StoredState' = [StoredState EXCEPT !.decisions = (@ \ old) \cup {n}, !.retired = @ \cup old]
    <3> DEFINE x == [StoredState EXCEPT !.decisions = (@ \ old) \cup {n}, !.retired = @ \cup old]
    <3>1. /\ StoredState \in StoredStates /\ StoredState' \in StoredStates
          /\ (projection.decisions \ old) \cup {n} \in SUBSET Subject /\ projection.retired \cup old \in SUBSET Subject
      <4>1. projection' \in TaskStates /\ old \in SUBSET Subject /\ n \in Subject
        <5>1. projection' \in TaskStates
          BY StoredIsSound DEF Sound
        <5>2. n \in Subject
          BY <1>2, JournalAssumption DEF Subject
        <5>3. projection.decisions \in SUBSET (1..MaxEvents)
          BY <1>1 DEF TaskStates
        <5>4. old \in SUBSET Subject
          BY <2>3, <5>3, JournalAssumption DEF Subject
        <5> QED BY <5>1, <5>2, <5>4
      <4> QED BY <1>1, <4>1 DEF StoredState, StoredStates, TaskStates, Subject
    <3>2. StoredState.decisions = projection.decisions /\ StoredState.retired = projection.retired
      BY StoredFields
    <3>3. x \in StoredStates
      BY <3>1, <3>2 DEF StoredStates
    <3>4. /\ x.session = projection'.session /\ x.pending = projection'.pending /\ x.notes = projection'.notes
          /\ x.decisions = projection'.decisions /\ x.retired = projection'.retired
      BY <2>5, <3>1, <3>2, StoredFields DEF StoredStates
    <3> HIDE DEF x
    <3>5. StoredState' = x
      BY <3>1, <3>3, <3>4, StoredFields, ViewsAreEqual
    <3> QED BY <3>5 DEF x
  <2>7. n \in StoredState'.decisions
    BY <2>5, StoredFields
  <2>8. TaskImpl!TakeDecision
    <3>1. old \in {{}} \cup {{d} : d \in StoredState.decisions}
      BY <2>3, StoredFields
    <3> QED BY <2>6, <2>7, <3>1, Zenon DEF TaskImpl!TakeDecision
  <2> QED BY <2>8
<1>9. CASE kind = "runtime"
  <2>1. projection' = [projection EXCEPT !.through = n]
    BY <1>1, <1>9 DEF Effect
  <2> QED BY <1>1, <2>1 DEF StoredState, TaskStates
<1> QED BY <1>2, <1>5, <1>6, <1>7, <1>8, <1>9 DEF ToolKinds, SessionKinds

LEMMA InputIsTaskStep ==
    ASSUME JournalInv, NEW s \in Sessions, AdmitInput(s)
    PROVE  TaskImpl!BeginSession(s)
<1>1. projection' = Fresh(s) /\ Len(journal[s]) = 0
  BY InputExtends DEF AdmitInput
<1>2. s # projection.session
  <2> SUFFICES ASSUME s = projection.session PROVE FALSE
    OBVIOUS
  <2>1. projection # NoState
    BY NoSessionIsNone DEF NoState
  <2>2. projection.through \in 1..0
    BY <1>1, <2>1 DEF JournalInv, StatesAreSound, Sound
  <2> QED BY <2>2
<1>3. StoredState' = [TaskImpl!NoState EXCEPT !.session = s]
  <2>1. StoredState' = [session |-> s, pending |-> {}, notes |-> {}, decisions |-> {}, retired |-> {}]
    BY <1>1, FreshIsTyped DEF StoredState
  <2>2. [TaskImpl!NoState EXCEPT !.session = s] = [session |-> s, pending |-> {}, notes |-> {}, decisions |-> {}, retired |-> {}]
    BY DEF TaskImpl!NoState
  <2> QED BY <2>1, <2>2
<1> QED BY <1>2, <1>3, StoredFields DEF TaskImpl!BeginSession

LEMMA StepIsTaskStep ==
    ASSUME JournalInv, ProjectionInv, [JournalNext]_journalVars
    PROVE  TaskImpl!TaskNext \/ StoredState' = StoredState
<1>1. (\E s \in Sessions : AdmitInput(s)) \/ (\E w \in Writers : Commit(w)) \/ UNCHANGED projection
  BY DEF JournalNext, journalVars, BeginRecovery, DamageSnapshot, ReadState, ReadSequence, Refuse, GiveUp,
         ReleaseLease, NewHost, Seed, LoadEvents, EndRecovery, WriteSnapshot
<1>2. CASE UNCHANGED projection
  BY <1>2 DEF StoredState
<1> QED BY <1>1, <1>2, InputIsTaskStep, CommitIsTaskStep DEF TaskImpl!TaskNext

(* The stored working state implements TaskState: it changes by one whole   *)
(* event at a time, whatever its writers read before.                       *)
THEOREM JournalImplementsTaskState == JournalSpec /\ []DecisionsApart => ImplementsTaskState
<1>1. JournalInit => TaskImpl!TaskInit
  BY DEF JournalInit, TaskImpl!TaskInit, StoredState, NoState, None, TaskImpl!NoState
<1>2. JournalInv /\ ProjectionInv /\ [JournalNext]_journalVars => [TaskImpl!TaskNext]_StoredState
  BY StepIsTaskStep
<1> QED BY <1>1, <1>2, JournalIsInductive, ProjectionStays, PTL DEF JournalSpec, ImplementsTaskState, TaskImpl!TaskSpec

-----------------------------------------------------------------------------
(* Outside tests no part of the program records a decision.                 *)
DecisionsAreForTests == "decision" \notin Kinds \/ Kinds \cap ToolKinds = {}

KindsAreGiven == \A w \in Writers : Writing(w) => op[w].kind \in Kinds

LEMMA KindsStay ==
    ASSUME JournalInv, KindsAreGiven, [JournalNext]_journalVars
    PROVE  KindsAreGiven'
<1>1. op \in [Writers -> WritingOps \cup {NoOp, Clash}]
  BY DEF JournalInv, StoreTyped
<1>2. ~(NoOp.stage \in {"read", "commit"}) /\ ~([NoOp EXCEPT !.stage = "clash"].stage \in {"read", "commit"})
  BY DEF NoOp
<1>3. ASSUME NEW w \in Writers, NEW kind \in Kinds, NEW of, ReadState(w, kind, of) PROVE KindsAreGiven'
  BY <1>1, <1>3 DEF ReadState, KindsAreGiven, Writing
<1>4. ASSUME NEW w \in Writers, ReadSequence(w) PROVE KindsAreGiven'
  <2>1. op[w].stage = "read" /\ op[w] \in WritingOps
    BY <1>1, <1>4 DEF ReadSequence, NoOp, Clash
  <2>2. [op[w] EXCEPT !.stage = "commit", !.seq = Next(op[w].session)].kind = op[w].kind
    BY <2>1 DEF WritingOps
  <2>3. \A v \in Writers : op'[v].stage \in {"read", "commit"} =>
          op[v].stage \in {"read", "commit"} /\ op'[v].kind = op[v].kind
    BY <1>1, <1>2, <1>4, <2>1, <2>2 DEF ReadSequence
  <2> QED BY <2>3 DEF KindsAreGiven, Writing
<1>5. ASSUME NEW w \in Writers, Commit(w) \/ Refuse(w) \/ GiveUp(w) PROVE KindsAreGiven'
  <2>1. \A v \in Writers : op'[v].stage \in {"read", "commit"} => op'[v] = op[v]
    BY <1>1, <1>2, <1>5 DEF Commit, Refuse, GiveUp
  <2> QED BY <2>1 DEF KindsAreGiven, Writing
<1>6. CASE UNCHANGED op
  BY <1>6 DEF KindsAreGiven, Writing
<1> QED
  BY <1>3, <1>4, <1>5, <1>6 DEF JournalNext, journalVars, AdmitInput, BeginRecovery, DamageSnapshot, ReleaseLease,
     NewHost, Seed, LoadEvents, EndRecovery, WriteSnapshot

(* So of the program as it is, without the tests' decisions, the stored     *)
(* working state is the fold of its journal and implements TaskState in     *)
(* every behaviour; and of the tests' too, where no tool is called.         *)
THEOREM JournalOfTheProgram ==
    ASSUME DecisionsAreForTests PROVE JournalSpec => JournalSafe /\ ImplementsTaskState
<1>1. JournalInit => KindsAreGiven
  BY DEF JournalInit, KindsAreGiven, Writing, NoOp
<1>2. JournalInv /\ KindsAreGiven /\ [JournalNext]_journalVars => KindsAreGiven'
  BY KindsStay
<1>3. JournalInv /\ KindsAreGiven => DecisionsApart
  BY DEF DecisionsAreForTests, KindsAreGiven, DecisionsApart
<1>4. JournalSpec => []DecisionsApart
  BY <1>1, <1>2, <1>3, JournalIsInductive, PTL DEF JournalSpec
<1> QED BY <1>4, JournalIsSafe, JournalImplementsTaskState, PTL

-----------------------------------------------------------------------------
(* A sequence of anything.                                                  *)
IsSeq(s) == \E S : s \in Seq(S)

LEMMA SeqsAreIndexed ==
    ASSUME NEW s, IsSeq(s)
    PROVE  Len(s) \in Nat /\ DOMAIN s = 1..Len(s) /\ (s = <<>> <=> Len(s) = 0)
<1>1. PICK S : s \in Seq(S)
  BY DEF IsSeq
<1> QED BY <1>1

LEMMA EmptyIsSeq == IsSeq(<<>>)
<1>1. <<>> \in Seq({})
  OBVIOUS
<1> QED BY <1>1 DEF IsSeq

LEMMA OneIsSeq == ASSUME NEW e PROVE IsSeq(<<e>>) /\ Len(<<e>>) = 1 /\ <<e>>[1] = e
<1>1. <<e>> \in Seq({e})
  OBVIOUS
<1> QED BY <1>1 DEF IsSeq

LEMMA AppendIsSeq ==
    ASSUME NEW s, NEW e, IsSeq(s)
    PROVE  /\ IsSeq(Append(s, e)) /\ Len(Append(s, e)) = Len(s) + 1 /\ Append(s, e)[Len(s) + 1] = e
           /\ \A i \in 1..Len(s) : Append(s, e)[i] = s[i]
<1>1. PICK S : s \in Seq(S)
  BY DEF IsSeq
<1>2. s \in Seq(S \cup {e}) /\ e \in S \cup {e}
  BY <1>1
<1> DEFINE T == S \cup {e}
<1> HIDE DEF T
<1>3. s \in Seq(T) /\ e \in T
  BY <1>2 DEF T
<1>4. Append(s, e) \in Seq(T)
  BY <1>3
<1> QED BY <1>3, <1>4 DEF IsSeq

LEMMA ConcatIsSeq ==
    ASSUME NEW s, NEW t, IsSeq(s), IsSeq(t)
    PROVE  /\ IsSeq(s \o t) /\ Len(s \o t) = Len(s) + Len(t)
           /\ \A i \in 1..Len(s) : (s \o t)[i] = s[i]
           /\ \A i \in 1..Len(t) : (s \o t)[Len(s) + i] = t[i]
<1>1. PICK S : s \in Seq(S)
  BY DEF IsSeq
<1>2. PICK T : t \in Seq(T)
  BY DEF IsSeq
<1> DEFINE U == S \cup T
<1>3. s \in Seq(U) /\ t \in Seq(U)
  BY <1>1, <1>2
<1> HIDE DEF U
<1>4. s \o t \in Seq(U)
  BY <1>3
<1> QED BY <1>3, <1>4 DEF IsSeq

LEMMA TailIsSeq ==
    ASSUME NEW s, IsSeq(s), s # <<>>
    PROVE  /\ IsSeq(Tail(s)) /\ Len(Tail(s)) = Len(s) - 1 /\ Head(s) = s[1]
           /\ \A i \in 1..Len(s) - 1 : Tail(s)[i] = s[i + 1]
<1>1. PICK S : s \in Seq(S)
  BY DEF IsSeq
<1>2. Tail(s) \in Seq(S)
  BY <1>1
<1> QED BY <1>1, <1>2 DEF IsSeq

LEMMA FunctionIsSeq ==
    ASSUME NEW n \in Nat, NEW f, f = [i \in 1..n |-> f[i]]
    PROVE  IsSeq(f) /\ Len(f) = n
<1> DEFINE S == {f[i] : i \in 1..n}
<1>1. f \in [1..n -> S]
  <2>1. \A i \in 1..n : f[i] \in S
    OBVIOUS
  <2> HIDE DEF S
  <2> QED BY <2>1
<1> HIDE DEF S
<1>2. f \in Seq(S) /\ Len(f) = n
  BY <1>1
<1> QED BY <1>2 DEF IsSeq

LEMMA SaidIsSeq == ASSUME NEW texts, NEW as, IsSeq(texts) PROVE IsSeq(Said(texts, as))
<1> DEFINE f == Said(texts, as)
<1>1. f = [i \in 1..Len(texts) |-> f[i]]
  BY DEF Said
<1> HIDE DEF f
<1>2. Len(texts) \in Nat
  BY SeqsAreIndexed
<1>3. IsSeq(f)
  BY <1>1, <1>2, FunctionIsSeq
<1> QED BY <1>3 DEF f

-----------------------------------------------------------------------------
UiFields == {"phase", "approval", "approvals", "question", "questions", "before", "held", "queue", "notices", "grant"}

(* A request of a child was counted when it was made.                       *)
Real(q, counts) == q # NoRequest /\ (q.by = Root \/ (q.by \in Children /\ counts[q.by] # 0))

IsUi(u, counts) ==
    /\ DOMAIN u = UiFields /\ IsSeq(u.questions) /\ IsSeq(u.notices)
    /\ u.question # NoRequest => Real(u.question, counts)
    /\ \A i \in 1..Len(u.questions) : Real(u.questions[i], counts)

(* A question is on the screen or waits behind it.                          *)
Shown(u) == u.question # NoRequest \/ u.questions # <<>>

LEMMA OfferApprovalShows ==
    ASSUME NEW u, NEW r, NEW counts, IsUi(u, counts), NEW v, v = OfferApproval(u, r)
    PROVE  /\ IsUi(v, counts) /\ v.grant = u.grant /\ v.phase \in {u.phase, "approval"} /\ (Shown(v) <=> Shown(u))
<1>1. CASE PanelOpen(u)
  BY <1>1 DEF OfferApproval, IsUi, UiFields, Shown
<1>2. CASE ~PanelOpen(u)
  BY <1>2 DEF OfferApproval, IsUi, UiFields, Shown
<1> QED BY <1>1, <1>2

LEMMA OfferQuestionShows ==
    ASSUME NEW u, NEW q, NEW counts, IsUi(u, counts), Real(q, counts), NEW v, v = OfferQuestion(u, q)
    PROVE  IsUi(v, counts) /\ v.grant = u.grant /\ Shown(v)
<1>1. CASE PanelOpen(u)
  <2>1. v = [u EXCEPT !.questions = Append(u.questions, q)]
    BY <1>1 DEF OfferQuestion
  <2>2. DOMAIN v = UiFields /\ v.questions = Append(u.questions, q) /\ v.question = u.question /\ v.notices = u.notices /\ v.grant = u.grant
    BY <2>1 DEF IsUi, UiFields
  <2>3. /\ IsSeq(v.questions) /\ Len(v.questions) = Len(u.questions) + 1 /\ v.questions[Len(u.questions) + 1] = q
        /\ \A i \in 1..Len(u.questions) : v.questions[i] = u.questions[i]
        /\ Len(u.questions) \in Nat
    BY <2>2, AppendIsSeq, SeqsAreIndexed DEF IsUi
  <2>4. \A i \in 1..Len(v.questions) : Real(v.questions[i], counts)
    <3> SUFFICES ASSUME NEW i \in 1..Len(v.questions) PROVE Real(v.questions[i], counts)
      OBVIOUS
    <3>1. i \in 1..Len(u.questions) \/ i = Len(u.questions) + 1
      BY <2>3
    <3> QED BY <2>3, <3>1 DEF IsUi
  <2>5. v.questions # <<>>
    BY <2>3, SeqsAreIndexed
  <2> QED BY <2>2, <2>3, <2>4, <2>5 DEF IsUi, Shown
<1>2. CASE ~PanelOpen(u)
  <2>1. v = [u EXCEPT !.question = q, !.phase = "input", !.before = IF q.by = Root THEN u.before ELSE u.phase]
    BY <1>2 DEF OfferQuestion
  <2>2. DOMAIN v = UiFields /\ v.questions = u.questions /\ v.question = q /\ v.notices = u.notices /\ v.grant = u.grant
    BY <2>1 DEF IsUi, UiFields
  <2> QED BY <2>2 DEF IsUi, Shown, Real
<1> QED BY <1>1, <1>2

LEMMA NextWaitingShows ==
    ASSUME NEW u, NEW counts, IsUi(u, counts), NEW v, v = NextWaiting(u)
    PROVE  /\ IsUi(v, counts) /\ v.grant = u.grant
           /\ Shown(v) <=> Shown(u)
           /\ ~Shown(u) => v.phase \in {u.phase, "approval"}
<1>1. CASE ~PanelOpen(u) /\ u.approvals # <<>>
  <2> DEFINE w == [u EXCEPT !.approvals = Tail(u.approvals)]
  <2>1. IsUi(w, counts) /\ w.grant = u.grant /\ w.phase = u.phase /\ (Shown(w) <=> Shown(u))
    BY DEF IsUi, UiFields, Shown
  <2>2. v = OfferApproval(w, Head(u.approvals))
    BY <1>1 DEF NextWaiting
  <2> HIDE DEF w
  <2> QED BY <2>1, <2>2, OfferApprovalShows
<1>2. CASE ~PanelOpen(u) /\ u.approvals = <<>> /\ u.questions # <<>>
  <2> DEFINE w == [u EXCEPT !.questions = Tail(u.questions)]
  <2>1. v = OfferQuestion(w, Head(u.questions))
    BY <1>2 DEF NextWaiting
  <2>2. /\ IsSeq(Tail(u.questions)) /\ Len(Tail(u.questions)) = Len(u.questions) - 1 /\ Head(u.questions) = u.questions[1]
        /\ \A i \in 1..Len(u.questions) - 1 : Tail(u.questions)[i] = u.questions[i + 1]
        /\ Len(u.questions) \in Nat /\ Len(u.questions) # 0
    BY <1>2, TailIsSeq, SeqsAreIndexed DEF IsUi
  <2>3. Real(Head(u.questions), counts) /\ \A i \in 1..Len(Tail(u.questions)) : Real(Tail(u.questions)[i], counts)
    BY <2>2 DEF IsUi
  <2>4. /\ DOMAIN w = UiFields /\ w.questions = Tail(u.questions) /\ w.question = u.question /\ w.notices = u.notices
        /\ w.grant = u.grant
    BY DEF IsUi, UiFields
  <2> HIDE DEF w
  <2>5. IsUi(w, counts)
    BY <2>2, <2>3, <2>4 DEF IsUi
  <2>6. Shown(u)
    BY <1>2 DEF Shown
  <2> QED BY <2>1, <2>3, <2>4, <2>5, <2>6, OfferQuestionShows
<1>3. CASE PanelOpen(u) \/ (~PanelOpen(u) /\ u.approvals = <<>> /\ u.questions = <<>>)
  <2>1. v = u
    BY <1>3 DEF NextWaiting
  <2> QED BY <2>1
<1> QED BY <1>1, <1>2, <1>3

LEMMA FinishRunShows ==
    ASSUME NEW u, NEW counts, IsUi(u, counts), NEW v, v = FinishRun(u)
    PROVE  IsUi(v, counts) /\ (Shown(v) <=> Shown(u)) /\ (~Shown(u) => v.phase = "ready")
BY DEF FinishRun, IsUi, UiFields, Shown

-----------------------------------------------------------------------------
(* A line or a report is dispatched: an open question takes it, the turn    *)
(* that runs, or a new one.                                                 *)
Extends(s, t) == Len(s) <= Len(t) /\ \A i \in 1..Len(s) : t[i] = s[i]

LEMMA SubmitShows ==
    ASSUME IsSeq(turns), IsSeq(sent), NEW texts, NEW as, IsSeq(texts), Submit(texts, as)
    PROVE  /\ IsSeq(turns') /\ Len(turns') = Len(turns) + 1 /\ IsSeq(sent') /\ Extends(sent, sent')
           /\ Len(texts) # 0 => \E i \in 1..Len(sent') : sent'[i].as = as
<1> DEFINE said == Said(texts, as)
<1>1. IsSeq(said) /\ sent' = sent \o said /\ turns' = Append(turns, FALSE)
  BY SaidIsSeq DEF Submit
<1>2. Len(said) = Len(texts) /\ Len(texts) \in Nat /\ Len(sent) \in Nat /\ \A i \in 1..Len(texts) : said[i].as = as
  <2>1. said = [i \in 1..Len(texts) |-> said[i]] /\ \A i \in 1..Len(texts) : said[i].as = as
    BY DEF Said
  <2>2. Len(texts) \in Nat /\ Len(sent) \in Nat
    BY SeqsAreIndexed
  <2> HIDE DEF said
  <2>3. Len(said) = Len(texts)
    BY <2>1, <2>2, FunctionIsSeq
  <2> QED BY <2>1, <2>2, <2>3
<1> HIDE DEF said
<1>3. /\ IsSeq(sent') /\ Len(sent') = Len(sent) + Len(said) /\ \A i \in 1..Len(sent) : sent'[i] = sent[i]
      /\ \A i \in 1..Len(said) : sent'[Len(sent) + i] = said[i]
  BY <1>1, ConcatIsSeq
<1>4. IsSeq(turns') /\ Len(turns') = Len(turns) + 1
  BY <1>1, AppendIsSeq
<1>5. ASSUME Len(texts) # 0 PROVE \E i \in 1..Len(sent') : sent'[i].as = as
  <2>1. 1 \in 1..Len(said) /\ Len(sent) + 1 \in 1..Len(sent')
    BY <1>2, <1>3, <1>5
  <2> QED BY <1>2, <1>3, <2>1
<1>6. Extends(sent, sent')
  BY <1>2, <1>3 DEF Extends
<1> QED BY <1>3, <1>4, <1>5, <1>6

LEMMA DispatchShows ==
    ASSUME NEW u, NEW t, NEW counts, IsUi(u, counts), IsSeq(turns), IsSeq(sent), IsFiniteSet(inbox), Dispatch(u, t)
    PROVE  /\ IsUi(ui', counts) /\ IsSeq(turns') /\ IsSeq(sent') /\ IsFiniteSet(inbox') /\ Extends(sent, sent')
           /\ \/ \/ \E i \in 1..Len(sent') : sent'[i].as = "answer"
                 \/ \E c \in Children : counts[c] # 0
              \/ /\ (Shown(ui') <=> Shown(u)) /\ waiting' = waiting /\ ui'.grant = u.grant
                 /\ \/ HasActiveRun(u) /\ ui'.phase = u.phase /\ turns' = turns
                    \/ ~HasActiveRun(u) /\ ui'.phase = "running" /\ Len(turns') = Len(turns) + 1
<1>0. Extends(sent, sent) /\ Len(sent) \in Nat
  BY SeqsAreIndexed DEF Extends
<1>1. CASE u.phase = "input" /\ u.question # NoRequest
  <2> DEFINE closed == [u EXCEPT !.question = NoRequest]
  <2>0. Real(u.question, counts)
    BY <1>1 DEF IsUi
  <2>1. SubmitQuestionAnswer(u, t)
    BY <1>1 DEF Dispatch, HasActiveRun
  <2>2. CASE u.question.by = Root
    <3>1. ui' = [closed EXCEPT !.phase = "running"] /\ Submit(<<t>>, "answer") /\ inbox' = inbox
      BY <2>1, <2>2 DEF SubmitQuestionAnswer
    <3>2. IsUi(ui', counts)
      BY <3>1 DEF IsUi, UiFields
    <3>3. Len(<<t>>) # 0 /\ IsSeq(<<t>>)
      BY OneIsSeq
    <3> QED BY <3>1, <3>2, <3>3, SubmitShows
  <2>3. CASE u.question.by # Root
    <3> DEFINE w == [closed EXCEPT !.before = "none", !.phase = IF u.before = "none" THEN "running" ELSE u.before]
               said == Said(<<t>>, IF u.question \in waiting THEN "answer" ELSE "too late")
    <3>1. ui' = NextWaiting(w) /\ sent' = sent \o said /\ UNCHANGED <<turns, inbox>>
      BY <2>1, <2>3 DEF SubmitQuestionAnswer
    <3>2. IsUi(w, counts)
      BY DEF IsUi, UiFields
    <3>3. IsSeq(said)
      BY OneIsSeq, SaidIsSeq
    <3>4. \E c \in Children : counts[c] # 0
      BY <2>0, <2>3 DEF Real
    <3> HIDE DEF w, said
    <3>5. IsUi(ui', counts)
      BY <3>1, <3>2, NextWaitingShows
    <3>6. IsSeq(sent') /\ Extends(sent, sent')
      <4>1. Len(said) \in Nat
        BY <3>3, SeqsAreIndexed
      <4> QED BY <1>0, <3>1, <3>3, <4>1, ConcatIsSeq DEF Extends
    <3> QED BY <3>1, <3>4, <3>5, <3>6
  <2> QED BY <2>2, <2>3
<1>2. CASE ~(u.phase = "input" /\ u.question # NoRequest) /\ HasActiveRun(u)
  <2>1. DispatchWhileRunning(u, t)
    BY <1>2 DEF Dispatch
  <2>2. UNCHANGED <<turns, waiting, sent>> /\ inbox' \in {inbox, inbox \cup {t}}
    BY <2>1 DEF DispatchWhileRunning
  <2>3. IsUi(ui', counts) /\ ui'.phase = u.phase /\ ui'.grant = u.grant /\ (Shown(ui') <=> Shown(u))
    <3>1. ui' = u \/ ui' = [u EXCEPT !.queue = Append(u.queue, t)]
      BY <2>1 DEF DispatchWhileRunning
    <3> QED BY <3>1 DEF IsUi, UiFields, Shown
  <2>4. IsFiniteSet(inbox')
    BY <2>2, FS_AddElement
  <2> QED BY <1>0, <1>2, <2>2, <2>3, <2>4
<1>3. CASE ~(u.phase = "input" /\ u.question # NoRequest) /\ ~HasActiveRun(u)
  <2> DEFINE folded == IF u.held THEN u.notices ELSE <<>>
  <2>1. StartTurn(u, t)
    BY <1>3 DEF Dispatch
  <2>2. Submit(<<t>> \o folded, "turn") /\ UNCHANGED <<inbox, waiting>>
    BY <2>1 DEF StartTurn
  <2>3. IsSeq(folded) /\ IsSeq(<<t>> \o folded)
    BY OneIsSeq, EmptyIsSeq, ConcatIsSeq DEF IsUi
  <2>4. ui' = [u EXCEPT !.phase = "running", !.held = FALSE, !.notices = IF u.held THEN <<>> ELSE u.notices]
    BY <2>1 DEF StartTurn
  <2>5. IsUi(ui', counts) /\ ui'.phase = "running" /\ ui'.grant = u.grant /\ (Shown(ui') <=> Shown(u))
    BY <2>4, EmptyIsSeq DEF IsUi, UiFields, Shown
  <2> QED BY <1>3, <2>2, <2>3, <2>5, SubmitShows
<1> QED BY <1>1, <1>2, <1>3

-----------------------------------------------------------------------------
QuestionsAreReal == \A i \in 1..Len(events) : events[i].kind = "question" => Real(events[i].about, asked)

StreamInv ==
    /\ IsSeq(events) /\ IsSeq(sent) /\ IsSeq(turns) /\ IsUi(ui, asked) /\ IsFiniteSet(inbox)
    /\ child \in [Children -> {"running", "stopping", "gone"}]
    /\ asked \in [Children \cup {Root} -> Nat] /\ lookups \in [open : Nat, made : Nat] /\ QuestionsAreReal

IsEnd(e) == e.kind \in {"terminal", "error"}

(* One turn runs, or its end is the last thing on its way to the screen.    *)
OneIsRunning ==
    \/ Len(turns) = 1 /\ \A i \in 1..Len(events) : ~IsEnd(events[i])
    \/ /\ Len(turns) = 0 /\ Len(events) # 0 /\ IsEnd(events[Len(events)])
       /\ \A i \in 1..Len(events) - 1 : ~IsEnd(events[i])

Calm ==
    /\ ui.phase \in {"ready", "running", "approval", "canceling"}
    /\ (\A q \in waiting : q.by = Root) /\ (Len(turns) = 0 => waiting = {})
    /\ lookups.open = 0 /\ (ui.grant => HasActiveRun(ui))
    /\ IF HasActiveRun(ui) THEN OneIsRunning ELSE Len(turns) = 0 /\ Len(events) = 0

(* While nothing else reached the controller, it knows what the turns do.   *)
TurnsAreKnown == Undisturbed => Calm

(* What disturbs does not go away.                                          *)
Asked ==
    \/ Shown(ui) \/ \E i \in 1..Len(events) : events[i].kind = "question"
    \/ \E i \in 1..Len(sent) : sent[i].as = "answer"
    \/ \E c \in Children : asked[c] # 0

LEMMA UndisturbedIs ==
    ASSUME StreamInv, \A c \in Children : child[c] # "gone", lookups.made = 0, ~Asked, ~ending.early
    PROVE  Undisturbed
<1>1. DOMAIN events = 1..Len(events) /\ DOMAIN sent = 1..Len(sent)
  BY SeqsAreIndexed DEF StreamInv
<1> QED BY <1>1 DEF Undisturbed, Asked, Shown

(* A step: the stream stays what it is, and a session that is undisturbed   *)
(* after it was so before, and then knows its turns still.                  *)
GoesOn == StreamInv' /\ (Undisturbed' => Undisturbed /\ (Calm => Calm'))

Onward ==
    /\ \A c \in Children : child[c] = "gone" => child'[c] = "gone"
    /\ \A c \in Children : asked'[c] >= asked[c]
    /\ lookups'.made >= lookups.made
    /\ Asked => Asked'
    /\ ending.early => ending'.early

LEMMA DisturbanceStays == ASSUME StreamInv, StreamInv', Onward, Undisturbed' PROVE Undisturbed
<1>0. DOMAIN events' = 1..Len(events') /\ DOMAIN sent' = 1..Len(sent')
  BY SeqsAreIndexed DEF StreamInv
<1>1. (\A c \in Children : child'[c] # "gone") /\ lookups'.made = 0 /\ ~Asked' /\ ~ending'.early
  BY <1>0 DEF Undisturbed, Asked, Shown
<1>2. lookups.made \in Nat
  BY DEF StreamInv
<1>3. (\A c \in Children : child[c] # "gone") /\ lookups.made = 0 /\ ~Asked /\ ~ending.early
  BY <1>1, <1>2 DEF Onward
<1> QED BY <1>3, UndisturbedIs

LEMMA RealStays ==
    ASSUME NEW q, NEW c1 \in [Children \cup {Root} -> Nat], NEW c2 \in [Children \cup {Root} -> Nat],
           \A c \in Children : c2[c] >= c1[c], Real(q, c1)
    PROVE  Real(q, c2)
<1>1. \A c \in Children : c1[c] \in Nat /\ c2[c] \in Nat
  OBVIOUS
<1> QED BY <1>1 DEF Real

(* Nothing is shown, taken or sent: something is put into the channel.      *)
LEMMA EventIsPut ==
    ASSUME StreamInv, NEW e, events' = Append(events, e), UNCHANGED <<ui, sent>>, IsSeq(turns'), IsFiniteSet(inbox'),
           asked' \in [Children \cup {Root} -> Nat], \A c \in Children : asked'[c] >= asked[c],
           lookups' \in [open : Nat, made : Nat], lookups'.made = lookups.made,
           child' \in [Children -> {"running", "stopping", "gone"}],
           \A c \in Children : child[c] = "gone" => child'[c] = "gone",
           e.kind = "question" => Real(e.about, asked'), ending.early => ending'.early
    PROVE  StreamInv' /\ Onward
<1>1. /\ IsSeq(events') /\ Len(events') = Len(events) + 1 /\ events'[Len(events) + 1] = e
      /\ \A i \in 1..Len(events) : events'[i] = events[i]
      /\ Len(events) \in Nat
  BY AppendIsSeq, SeqsAreIndexed DEF StreamInv
<1>2. \A q : Real(q, asked) => Real(q, asked')
  BY RealStays DEF StreamInv
<1>3. IsUi(ui, asked')
  BY <1>2 DEF StreamInv, IsUi
<1>4. QuestionsAreReal'
  <2> SUFFICES ASSUME NEW i \in 1..Len(events'), events'[i].kind = "question" PROVE Real(events'[i].about, asked')
    BY DEF QuestionsAreReal
  <2>1. i \in 1..Len(events) \/ i = Len(events) + 1
    BY <1>1
  <2> QED BY <1>1, <1>2, <2>1 DEF StreamInv, QuestionsAreReal
<1>5. StreamInv'
  BY <1>1, <1>3, <1>4 DEF StreamInv
<1>6. Asked => Asked'
  <2>1. (\E i \in 1..Len(events) : events[i].kind = "question") => \E i \in 1..Len(events') : events'[i].kind = "question"
    BY <1>1
  <2>2. \A c \in Children : asked[c] \in Nat /\ asked'[c] \in Nat
    BY DEF StreamInv
  <2>3. \A c \in Children : asked[c] # 0 => asked'[c] # 0
    BY <2>2
  <2> QED BY <2>1, <2>3 DEF Asked
<1>7. lookups'.made >= lookups.made
  BY DEF StreamInv
<1> QED BY <1>5, <1>6, <1>7 DEF Onward
-----------------------------------------------------------------------------
(* The service and the children.                                            *)

LEMMA CalmTurnRuns ==
    ASSUME Calm, Len(turns) # 0
    PROVE  HasActiveRun(ui) /\ Len(turns) = 1 /\ \A i \in 1..Len(events) : ~IsEnd(events[i])
BY DEF Calm, OneIsRunning

(* What a running turn reports before its end.                              *)
LEMMA RunningReports ==
    ASSUME StreamInv, Calm, Len(turns) # 0, NEW e, ~IsEnd(e), events' = Append(events, e),
           UNCHANGED <<ui, turns>>, lookups' = lookups, \A q \in waiting' : q.by = Root
    PROVE  Calm'
<1>1. HasActiveRun(ui) /\ Len(turns) = 1 /\ \A i \in 1..Len(events) : ~IsEnd(events[i])
  BY CalmTurnRuns
<1>2. /\ Len(events') = Len(events) + 1 /\ events'[Len(events) + 1] = e /\ Len(events) \in Nat
      /\ \A i \in 1..Len(events) : events'[i] = events[i]
  BY AppendIsSeq, SeqsAreIndexed DEF StreamInv
<1>3. \A i \in 1..Len(events') : ~IsEnd(events'[i])
  <2> SUFFICES ASSUME NEW i \in 1..Len(events') PROVE ~IsEnd(events'[i])
    OBVIOUS
  <2>1. i \in 1..Len(events) \/ i = Len(events) + 1
    BY <1>2
  <2> QED BY <1>1, <1>2, <2>1
<1>4. OneIsRunning'
  BY <1>1, <1>3 DEF OneIsRunning, IsEnd
<1> QED BY <1>1, <1>4 DEF Calm, HasActiveRun

LEMMA AsksApprovalGoesOn ==
    ASSUME StreamInv, NEW a \in Children \cup {Root}, AsksApproval(a)
    PROVE  GoesOn
<1> DEFINE r == [by |-> a, kind |-> "approval", n |-> asked[a] + 1]
<1>1. /\ events' = Append(events, Event("approval", r)) /\ waiting' = waiting \cup {r}
      /\ asked' = [asked EXCEPT ![a] = @ + 1] /\ UNCHANGED <<ui, turns, ending, inbox, child, lookups, sent, typed>>
      /\ (a = Root => turns # <<>>) /\ r.by = a
  BY DEF AsksApproval, TurnWorks
<1>2. asked' \in [Children \cup {Root} -> Nat] /\ \A c \in Children : asked'[c] >= asked[c]
  BY <1>1 DEF StreamInv
<1>3. Event("approval", r).kind = "approval"
  BY DEF Event
<1> HIDE DEF r
<1>4. StreamInv' /\ Onward
  BY <1>1, <1>2, <1>3, EventIsPut DEF StreamInv
<1>5. ASSUME Undisturbed', Calm PROVE Calm'
  <2>1. a = Root
    <3>1. a \in Children => asked'[a] = 0
      BY <1>5 DEF Undisturbed
    <3>2. asked[a] \in Nat /\ asked'[a] = asked[a] + 1
      BY <1>1 DEF StreamInv
    <3> QED BY <3>1, <3>2
  <2>2. Len(turns) # 0
    BY <1>1, <2>1, SeqsAreIndexed DEF StreamInv
  <2>3. \A q \in waiting' : q.by = Root
    BY <1>1, <1>5, <2>1 DEF Calm
  <2> QED BY <1>1, <1>3, <1>5, <2>2, <2>3, RunningReports DEF IsEnd
<1> QED BY <1>4, <1>5, DisturbanceStays DEF GoesOn

LEMMA ChildAsksGoesOn ==
    ASSUME StreamInv, NEW c \in Children, ChildAsks(c)
    PROVE  GoesOn
<1> DEFINE r == [by |-> c, kind |-> "question", n |-> asked[c] + 1]
<1>1. /\ events' = Append(events, Event("question", r))
      /\ asked' = [asked EXCEPT ![c] = @ + 1] /\ UNCHANGED <<ui, turns, ending, inbox, child, lookups, sent, typed>>
      /\ r.by = c /\ r # NoRequest
  BY DEF ChildAsks, NoRequest
<1>2. asked' \in [Children \cup {Root} -> Nat] /\ \A d \in Children : asked'[d] >= asked[d]
  BY <1>1 DEF StreamInv
<1>3. asked'[c] # 0
  <2>1. asked[c] \in Nat /\ asked'[c] = asked[c] + 1
    BY <1>1 DEF StreamInv
  <2> QED BY <2>1
<1>4. Event("question", r).about = r
  BY DEF Event
<1> HIDE DEF r
<1>5. Real(Event("question", r).about, asked')
  BY <1>1, <1>3, <1>4 DEF Real
<1>6. StreamInv' /\ Onward
  BY <1>1, <1>2, <1>5, EventIsPut DEF StreamInv
<1>7. ~Undisturbed'
  BY <1>3 DEF Undisturbed
<1> QED BY <1>6, <1>7 DEF GoesOn

LEMMA TimesOutGoesOn ==
    ASSUME StreamInv, NEW r \in waiting, ApprovalTimesOut(r)
    PROVE  GoesOn
<1>1. /\ events' = Append(events, Event("expired", r)) /\ waiting' = waiting \ {r}
      /\ UNCHANGED <<ui, turns, ending, inbox, child, asked, lookups, sent, typed>>
  BY DEF ApprovalTimesOut
<1>2. Event("expired", r).kind = "expired"
  BY DEF Event
<1>3. \A c \in Children : asked[c] >= asked[c]
  BY DEF StreamInv
<1>4. StreamInv' /\ Onward
  BY <1>1, <1>2, <1>3, EventIsPut DEF StreamInv
<1>5. ASSUME Calm PROVE Calm'
  <2>1. Len(turns) # 0
    BY <1>5 DEF Calm
  <2> QED BY <1>1, <1>2, <1>5, <2>1, RunningReports DEF Calm, IsEnd
<1> QED BY <1>4, <1>5, DisturbanceStays DEF GoesOn

LEMMA ChildEndsGoesOn == ASSUME StreamInv, NEW c \in Children, ChildEnds(c) PROVE GoesOn
<1>1. /\ events' = Append(events, Event("settled", ReportOf(c))) /\ child' = [child EXCEPT ![c] = "gone"]
      /\ UNCHANGED <<ui, turns, ending, inbox, waiting, asked, lookups, sent, typed>>
  BY DEF ChildEnds
<1>2. Event("settled", ReportOf(c)).kind = "settled"
  BY DEF Event
<1>3. \A d \in Children : asked[d] >= asked[d]
  BY DEF StreamInv
<1>4. child' \in [Children -> {"running", "stopping", "gone"}] /\ child'[c] = "gone"
  BY <1>1 DEF StreamInv
<1>5. StreamInv' /\ Onward
  BY <1>1, <1>2, <1>3, <1>4, EventIsPut DEF StreamInv
<1>6. ~Undisturbed'
  BY <1>4 DEF Undisturbed
<1> QED BY <1>5, <1>6 DEF GoesOn

LEMMA LookupFailsGoesOn == ASSUME StreamInv, LookupFails PROVE GoesOn
<1>1. /\ lookups.open > 0 /\ lookups' = [lookups EXCEPT !.open = @ - 1] /\ events' = Append(events, Event("error", FALSE))
      /\ UNCHANGED <<ui, turns, ending, inbox, child, waiting, asked, sent, typed>>
  BY DEF LookupFails
<1>2. Event("error", FALSE).kind = "error"
  BY DEF Event
<1>3. /\ lookups' \in [open : Nat, made : Nat] /\ lookups'.made = lookups.made
      /\ \A c \in Children : asked[c] >= asked[c]
  BY <1>1 DEF StreamInv
<1>4. StreamInv' /\ Onward
  BY <1>1, <1>2, <1>3, EventIsPut DEF StreamInv
<1>5. ~Calm
  BY <1>1 DEF Calm, StreamInv
<1> QED BY <1>4, <1>5, DisturbanceStays DEF GoesOn

(* The end of a turn is put behind everything else.                         *)
LEMMA TurnIsOver ==
    ASSUME StreamInv, Calm, turns # <<>>, turns' = Tail(turns), NEW e, IsEnd(e), events' = Append(events, e),
           \A q \in waiting : q.by # Root, UNCHANGED <<ui, waiting, lookups>>
    PROVE  Calm'
<1>1. Len(turns) # 0 /\ Len(turns) \in Nat /\ Len(events) \in Nat
  BY SeqsAreIndexed DEF StreamInv
<1>2. HasActiveRun(ui) /\ Len(turns) = 1 /\ \A i \in 1..Len(events) : ~IsEnd(events[i])
  BY <1>1, CalmTurnRuns
<1>3. Len(turns') = 0
  BY <1>2, TailIsSeq DEF StreamInv
<1>4. waiting = {}
  BY DEF Calm
<1>5. /\ Len(events') = Len(events) + 1 /\ events'[Len(events) + 1] = e
      /\ \A i \in 1..Len(events) : events'[i] = events[i]
  BY AppendIsSeq DEF StreamInv
<1>6. Len(events') # 0 /\ IsEnd(events'[Len(events')])
  BY <1>1, <1>5
<1>7. ASSUME NEW i \in 1..Len(events') - 1 PROVE ~IsEnd(events'[i])
  <2>1. i \in 1..Len(events)
    BY <1>1, <1>5
  <2> QED BY <1>2, <1>5, <2>1
<1>8. OneIsRunning'
  BY <1>3, <1>6, <1>7 DEF OneIsRunning, IsEnd
<1> QED BY <1>2, <1>4, <1>8 DEF Calm, HasActiveRun

(* A turn that ends is there still, and asks for no approval.               *)
EndInv ==
    /\ turns \in Seq(BOOLEAN) /\ ending \in [at : {"no", "told", "closed"}, stopped : BOOLEAN, early : BOOLEAN]
    /\ ending.at # "no" => turns # <<>> /\ \A q \in waiting : q.by # Root

LEMMA TurnBreaksGoesOn == ASSUME StreamInv, NEW twice \in BOOLEAN, TurnBreaks(twice) PROVE GoesOn
<1> DEFINE e == Event("error", FALSE)
<1>1. /\ turns # <<>> /\ events' = Append(events, e) /\ \A q \in waiting : q.by # Root
      /\ \/ turns' = Tail(turns) /\ ending' = ending
         \/ turns' = turns /\ ending'.early
      /\ UNCHANGED <<ui, inbox, child, waiting, asked, lookups, sent, typed>>
  BY DEF TurnBreaks, TurnWorks
<1>2. e.kind = "error"
  BY DEF Event
<1> HIDE DEF e
<1>3. (\A c \in Children : asked[c] >= asked[c]) /\ (ending.early => ending'.early)
  BY <1>1 DEF StreamInv
<1>4. IsSeq(turns')
  BY <1>1, TailIsSeq DEF StreamInv
<1>5. StreamInv' /\ Onward
  BY <1>1, <1>2, <1>3, <1>4, EventIsPut DEF StreamInv
<1>6. ASSUME Calm, Undisturbed' PROVE Calm'
  <2>1. turns' = Tail(turns)
    BY <1>1, <1>6 DEF Undisturbed
  <2> QED BY <1>1, <1>2, <1>6, <2>1, TurnIsOver DEF IsEnd
<1> QED BY <1>5, <1>6, DisturbanceStays DEF GoesOn

(* The loop is over; what it announces disturbs.                            *)
LEMMA LoopEndsGoesOn == ASSUME StreamInv, EndInv, NEW asks \in BOOLEAN, LoopEnds(asks) PROVE GoesOn
<1> DEFINE q == [by |-> Root, kind |-> "question", n |-> asked[Root] + 1]
<1>0. UNCHANGED <<ui, turns, inbox, child, waiting, lookups, sent, typed>>
  BY DEF LoopEnds
<1>1. CASE ~asks
  <2>0. UNCHANGED <<asked, events>> /\ ending' = [ending EXCEPT !.at = "told", !.stopped = Head(turns)]
    BY <1>1 DEF LoopEnds, TurnWorks
  <2>1. UNCHANGED <<asked, events>> /\ ending'.early = ending.early
    BY <2>0 DEF EndInv
  <2>2. StreamInv'
    BY <1>0, <2>1 DEF StreamInv, QuestionsAreReal
  <2>3. Undisturbed' => Undisturbed
    BY <1>0, <2>1 DEF Undisturbed
  <2>4. Calm => Calm'
    BY <1>0, <2>1 DEF Calm, OneIsRunning
  <2> QED BY <2>2, <2>3, <2>4 DEF GoesOn
<1>2. CASE asks
  <2>1. PICK read \in BOOLEAN :
          /\ events' = Append(events, IF read THEN Event("question", q) ELSE Event("error", FALSE))
          /\ ending' = [at |-> "told", stopped |-> FALSE, early |-> ending.early \/ ~read]
    BY <1>2 DEF LoopEnds
  <2>2. asked' = [asked EXCEPT ![Root] = @ + 1]
    BY <1>2 DEF LoopEnds
  <2>3. /\ asked' \in [Children \cup {Root} -> Nat] /\ \A c \in Children : asked'[c] >= asked[c]
    BY <2>2, ScreenAssumption DEF StreamInv
  <2> DEFINE e == IF read THEN Event("question", q) ELSE Event("error", FALSE)
  <2>4. /\ e.kind = "question" => Real(e.about, asked')
        /\ read => e.kind = "question"
    <3>1. q # NoRequest /\ q.by = Root
      BY DEF NoRequest
    <3> HIDE DEF q
    <3>2. e.kind = "question" => read /\ e.about = q
      BY DEF Event
    <3>3. read => e.kind = "question"
      BY DEF Event
    <3> QED BY <3>1, <3>2, <3>3 DEF Real
  <2>5. (ending.early => ending'.early) /\ (~read => ending'.early)
    BY <2>1
  <2>6. events' = Append(events, e)
    BY <2>1
  <2> HIDE DEF e, q
  <2>7. StreamInv'
    <3>1. IsSeq(turns') /\ IsFiniteSet(inbox') /\ lookups' \in [open : Nat, made : Nat]
          /\ child' \in [Children -> {"running", "stopping", "gone"}]
      BY <1>0 DEF StreamInv
    <3> QED BY <1>0, <2>3, <2>4, <2>5, <2>6, <3>1, EventIsPut
  <2>8. ~Undisturbed'
    <3>1. CASE ~read
      BY <2>5, <3>1 DEF Undisturbed
    <3>2. CASE read
      <4>1. Len(events') = Len(events) + 1 /\ events'[Len(events) + 1] = e /\ Len(events) \in Nat
        BY <2>6, AppendIsSeq, SeqsAreIndexed DEF StreamInv
      <4>2. DOMAIN events' = 1..Len(events')
        BY <2>7, SeqsAreIndexed DEF StreamInv
      <4>3. Len(events) + 1 \in DOMAIN events'
        BY <4>1, <4>2
      <4> QED BY <2>4, <3>2, <4>1, <4>3 DEF Undisturbed
    <3> QED BY <3>1, <3>2
  <2> QED BY <2>7, <2>8 DEF GoesOn
<1> QED BY <1>1, <1>2

LEMMA InboxClosesGoesOn == ASSUME StreamInv, EndInv, InboxCloses PROVE GoesOn
<1>1. /\ UNCHANGED <<ui, turns, inbox, child, waiting, asked, lookups, events, sent, typed>>
      /\ ending'.early = ending.early
  BY DEF InboxCloses, EndInv
<1>2. StreamInv'
  BY <1>1 DEF StreamInv, QuestionsAreReal
<1>3. Undisturbed' => Undisturbed
  BY <1>1 DEF Undisturbed
<1>4. Calm => Calm'
  BY <1>1 DEF Calm, OneIsRunning
<1> QED BY <1>2, <1>3, <1>4 DEF GoesOn

LEMMA CarryUnreadGoesOn == ASSUME StreamInv, EndInv, CarryUnread PROVE GoesOn
<1>1. PICK t \in inbox : inbox' = inbox \ {t} /\ events' = Append(events, Event("unread", t))
  BY DEF CarryUnread
<1>2. UNCHANGED <<ui, turns, ending, child, waiting, asked, lookups, sent, typed>> /\ turns # <<>>
  BY DEF CarryUnread, EndInv
<1>3. Event("unread", t).kind = "unread"
  BY DEF Event
<1>4. IsFiniteSet(inbox') /\ \A c \in Children : asked[c] >= asked[c]
  BY <1>1, FS_Subset DEF StreamInv
<1>5. StreamInv' /\ Onward
  BY <1>1, <1>2, <1>3, <1>4, EventIsPut DEF StreamInv
<1>6. ASSUME Calm PROVE Calm'
  <2>1. Len(turns) # 0
    BY <1>2, SeqsAreIndexed DEF StreamInv
  <2> QED BY <1>1, <1>2, <1>3, <1>6, <2>1, RunningReports DEF Calm, IsEnd
<1> QED BY <1>5, <1>6, DisturbanceStays DEF GoesOn

LEMMA TurnEndsGoesOn == ASSUME StreamInv, EndInv, TurnEnds PROVE GoesOn
<1> DEFINE e == Event("terminal", ending.stopped)
<1>1. /\ turns # <<>> /\ turns' = Tail(turns) /\ events' = Append(events, e) /\ \A q \in waiting : q.by # Root
      /\ ending'.early = ending.early /\ UNCHANGED <<ui, inbox, child, waiting, asked, lookups, sent, typed>>
  BY DEF TurnEnds, EndInv, Running
<1>2. e.kind = "terminal"
  BY DEF Event
<1> HIDE DEF e
<1>3. IsSeq(turns') /\ \A c \in Children : asked[c] >= asked[c]
  BY <1>1, TailIsSeq DEF StreamInv
<1>4. StreamInv' /\ Onward
  BY <1>1, <1>2, <1>3, EventIsPut DEF StreamInv
<1>5. Calm => Calm'
  BY <1>1, <1>2, TurnIsOver DEF IsEnd
<1> QED BY <1>4, <1>5, DisturbanceStays DEF GoesOn

LEMMA TurnMovesGoesOn == ASSUME StreamInv, EndInv, TurnMoves PROVE GoesOn
BY LoopEndsGoesOn, InboxClosesGoesOn, CarryUnreadGoesOn, TurnEndsGoesOn DEF TurnMoves

-----------------------------------------------------------------------------
(* The end of a turn, by itself.                                            *)
LEMMA EndStarts == ASSUME ScreenInit PROVE EndInv
<1>1. <<>> \in Seq(BOOLEAN)
  OBVIOUS
<1> QED BY <1>1 DEF ScreenInit, EndInv, Running

LEMMA DispatchWaits == ASSUME NEW u, NEW t, Dispatch(u, t) PROVE waiting' \subseteq waiting
<1>1. SubmitQuestionAnswer(u, t) \/ DispatchWhileRunning(u, t) \/ StartTurn(u, t)
  BY DEF Dispatch
<1> QED BY <1>1 DEF SubmitQuestionAnswer, DispatchWhileRunning, StartTurn

LEMMA DispatchSpawns ==
    ASSUME NEW u, NEW t, turns \in Seq(BOOLEAN), Dispatch(u, t)
    PROVE  turns' \in Seq(BOOLEAN) /\ (turns # <<>> => turns' # <<>>) /\ waiting' \subseteq waiting
<1>1. SubmitQuestionAnswer(u, t) \/ DispatchWhileRunning(u, t) \/ StartTurn(u, t)
  BY DEF Dispatch
<1>2. turns' = turns \/ turns' = Append(turns, FALSE)
  BY <1>1 DEF SubmitQuestionAnswer, DispatchWhileRunning, StartTurn, Submit
<1>3. Append(turns, FALSE) \in Seq(BOOLEAN) /\ Append(turns, FALSE) # <<>>
  <2> DEFINE l == Append(turns, FALSE)
  <2>1. l \in Seq(BOOLEAN) /\ Len(l) # 0
    OBVIOUS
  <2> HIDE DEF l
  <2>2. l # <<>>
    BY <2>1
  <2> QED BY <2>1, <2>2 DEF l
<1> QED BY <1>2, <1>3, DispatchWaits

LEMMA EndIsKept ==
    ASSUME EndInv, ending' = ending, turns' \in Seq(BOOLEAN), turns # <<>> => turns' # <<>>, waiting' \subseteq waiting
    PROVE  EndInv'
BY DEF EndInv

LEMMA EndStays == ASSUME EndInv, [ScreenNext]_screenVars PROVE EndInv'
<1>0. turns \in Seq(BOOLEAN)
  BY DEF EndInv
<1>1. CASE \E a \in Children \cup {Root} : AsksApproval(a)
  <2>1. PICK a \in Children \cup {Root} : AsksApproval(a)
    BY <1>1
  <2> DEFINE r == [by |-> a, kind |-> "approval", n |-> asked[a] + 1]
  <2>2. /\ UNCHANGED <<ending, turns>> /\ waiting' = waiting \cup {r} /\ r.by = a
        /\ (a = Root => ending.at = "no")
    BY <2>1 DEF AsksApproval, TurnWorks
  <2> HIDE DEF r
  <2> QED BY <2>2 DEF EndInv
<1>2. CASE \E c \in Children : ChildAsks(c)
  <2>1. PICK c \in Children : ChildAsks(c)
    BY <1>2
  <2> DEFINE r == [by |-> c, kind |-> "question", n |-> asked[c] + 1]
  <2>2. /\ UNCHANGED <<ending, turns>> /\ waiting' = waiting \cup {r} /\ r.by = c /\ c # Root
    BY <2>1, ScreenAssumption DEF ChildAsks
  <2> HIDE DEF r
  <2> QED BY <2>2 DEF EndInv
<1>3. CASE (\E c \in Children : ChildEnds(c)) \/ (\E r \in waiting : ApprovalTimesOut(r))
  <2>1. UNCHANGED <<ending, turns>> /\ waiting' \subseteq waiting
    BY <1>3 DEF ChildEnds, ApprovalTimesOut
  <2> QED BY <1>0, <2>1, EndIsKept
<1>4. CASE TurnReads \/ CarryUnread \/ LookupFails \/ UserLooksUp \/ DeliverWaitingSteers \/ \E b \in BOOLEAN : UserAnswers(b)
  <2>1. UNCHANGED <<ending, turns>> /\ waiting' \subseteq waiting
    BY <1>4 DEF TurnReads, CarryUnread, LookupFails, UserLooksUp, DeliverWaitingSteers, UserAnswers
  <2> QED BY <1>0, <2>1, EndIsKept
<1>5. CASE \E b \in BOOLEAN : LoopEnds(b)
  <2>1. PICK b \in BOOLEAN : LoopEnds(b)
    BY <1>5
  <2>2. turns # <<>> /\ (\A q \in waiting : q.by # Root) /\ UNCHANGED <<turns, waiting>>
    BY <2>1 DEF LoopEnds, TurnWorks
  <2>3. Head(turns) \in BOOLEAN
    BY <1>0, <2>2
  <2>4. ending' \in [at : {"no", "told", "closed"}, stopped : BOOLEAN, early : BOOLEAN]
    <3>1. CASE ~b
      BY <2>1, <2>3, <3>1 DEF LoopEnds, EndInv
    <3>2. CASE b
      <4>1. PICK read \in BOOLEAN : ending' = [at |-> "told", stopped |-> FALSE, early |-> ending.early \/ ~read]
        BY <2>1, <3>2 DEF LoopEnds
      <4>2. (ending.early \/ ~read) \in BOOLEAN
        OBVIOUS
      <4> QED BY <4>1, <4>2
    <3> QED BY <3>1, <3>2
  <2> QED BY <1>0, <2>2, <2>4 DEF EndInv
<1>6. CASE InboxCloses
  BY <1>6 DEF InboxCloses, EndInv
<1>7. CASE TurnEnds
  <2>1. turns # <<>> /\ turns' = Tail(turns) /\ ending' = [Running EXCEPT !.early = ending.early]
    BY <1>7 DEF TurnEnds, EndInv
  <2>2. Tail(turns) \in Seq(BOOLEAN)
    BY <1>0, <2>1
  <2> QED BY <2>1, <2>2 DEF EndInv, Running
<1>8. CASE \E b \in BOOLEAN : TurnBreaks(b)
  <2>1. /\ turns # <<>> /\ ending.at = "no" /\ (\A q \in waiting : q.by # Root) /\ waiting' = waiting
        /\ \/ turns' = Tail(turns) /\ ending' = ending
           \/ turns' = turns /\ ending' = [at |-> "closed", stopped |-> FALSE, early |-> TRUE]
    BY <1>8 DEF TurnBreaks, TurnWorks
  <2>2. Tail(turns) \in Seq(BOOLEAN)
    <3>1. turns # <<>>
      BY <2>1
    <3> QED BY <1>0, <3>1
  <2>3. CASE turns' = Tail(turns) /\ ending' = ending
    BY <2>1, <2>2, <2>3 DEF EndInv
  <2>4. CASE turns' = turns /\ ending' = [at |-> "closed", stopped |-> FALSE, early |-> TRUE]
    <3>1. ending' \in [at : {"no", "told", "closed"}, stopped : BOOLEAN, early : BOOLEAN]
      BY <2>4
    <3> QED BY <1>0, <2>1, <2>4, <3>1 DEF EndInv
  <2> QED BY <2>1, <2>3, <2>4
<1>9. CASE OnApproval \/ OnExpired \/ OnQuestion \/ OnUnread \/ OnError
  <2>1. UNCHANGED <<ending, turns>> /\ waiting' = waiting
    BY <1>9 DEF OnApproval, OnExpired, OnQuestion, OnUnread, OnError, Take, Becomes
  <2> QED BY <1>0, <2>1, EndIsKept
<1>10. CASE OnSettled
  <2>1. ending' = ending /\ ((\E u, t : Dispatch(u, t)) \/ UNCHANGED <<turns, waiting>>)
    BY <1>10 DEF OnSettled, Take, Becomes
  <2> QED BY <1>0, <2>1, DispatchSpawns, EndIsKept
<1>11. CASE OnTerminal
  <2>1. ending' = ending /\ ((\E u, t : Dispatch(u, t)) \/ UNCHANGED <<turns, waiting>>)
    BY <1>11 DEF OnTerminal, Take, Becomes, RunNextQueued, ReadNextNotice
  <2> QED BY <1>0, <2>1, DispatchSpawns, EndIsKept
<1>12. CASE DeliverWaiting \/ UserTypes
  <2>1. ending' = ending /\ \E u, t : Dispatch(u, t)
    BY <1>12 DEF DeliverWaiting, UserTypes, RunNextQueued, ReadNextNotice
  <2> QED BY <1>0, <2>1, DispatchSpawns, EndIsKept
<1>13. CASE Interrupt
  <2>1. ending' = ending /\ turns' = [i \in DOMAIN turns |-> turns[i] \/ i = Len(turns)] /\ waiting' = {}
    BY <1>13 DEF Interrupt
  <2>2. turns' \in [1..Len(turns) -> BOOLEAN] /\ Len(turns) \in Nat
    BY <1>0, <2>1
  <2>3. turns' \in Seq(BOOLEAN) /\ (turns # <<>> => turns' # <<>>)
    BY <1>0, <2>2
  <2> QED BY <2>1, <2>3, EndIsKept
<1>14. CASE UNCHANGED screenVars
  BY <1>14 DEF screenVars, EndInv
<1> QED BY <1>1, <1>2, <1>3, <1>4, <1>5, <1>6, <1>7, <1>8, <1>9, <1>10, <1>11, <1>12, <1>13, <1>14
        DEF ScreenNext, TurnMoves, HandleEvent

-----------------------------------------------------------------------------
(* The controller handles an event, or starts what waits.                   *)
LEMMA StaysOnward ==
    ASSUME StreamInv, IsSeq(events'), IsUi(ui', asked), IsSeq(turns'), IsSeq(sent'), IsFiniteSet(inbox'),
           Extends(sent, sent'), UNCHANGED <<child, asked, lookups, ending>>, QuestionsAreReal', Shown(ui) => Asked',
           (\E i \in 1..Len(events) : events[i].kind = "question") => Asked'
    PROVE  StreamInv' /\ Onward
<1>1. StreamInv'
  BY DEF StreamInv
<1>2. (\E i \in 1..Len(sent) : sent[i].as = "answer") => \E i \in 1..Len(sent') : sent'[i].as = "answer"
  <2>1. Len(sent) \in Nat /\ Len(sent') \in Nat
    BY SeqsAreIndexed DEF StreamInv
  <2> QED BY <2>1 DEF Extends
<1>3. Asked => Asked'
  BY <1>2 DEF Asked
<1>4. lookups.made \in Nat /\ \A c \in Children : asked[c] \in Nat
  BY DEF StreamInv
<1> QED BY <1>1, <1>3, <1>4 DEF Onward

LEMMA EventIsTaken ==
    ASSUME StreamInv, events # <<>>, events' = Tail(events), UNCHANGED <<child, asked, lookups, ending>>, IsUi(ui', asked),
           IsSeq(turns'), IsSeq(sent'), IsFiniteSet(inbox'), Extends(sent, sent'),
           Shown(ui) => Asked', Head(events).kind = "question" => Asked'
    PROVE  StreamInv' /\ Onward
<1>1. /\ IsSeq(events') /\ Len(events') = Len(events) - 1 /\ Head(events) = events[1] /\ Len(events) \in Nat
      /\ \A i \in 1..Len(events) - 1 : events'[i] = events[i + 1]
  BY TailIsSeq, SeqsAreIndexed DEF StreamInv
<1>2. \A i \in 1..Len(events') : i + 1 \in 1..Len(events) /\ events'[i] = events[i + 1]
  BY <1>1
<1>3. QuestionsAreReal'
  BY <1>2 DEF QuestionsAreReal, StreamInv
<1>4. ASSUME NEW i \in 1..Len(events), events[i].kind = "question" PROVE Asked'
  <2>1. CASE i = 1
    BY <1>1, <1>4, <2>1
  <2>2. CASE i # 1
    <3>1. i - 1 \in 1..Len(events') /\ events'[i - 1] = events[i]
      BY <1>1, <2>2
    <3> QED BY <1>4, <3>1 DEF Asked
  <2> QED BY <2>1, <2>2
<1> QED BY <1>1, <1>3, <1>4, StaysOnward

LEMMA SentStays == ASSUME StreamInv, sent' = sent PROVE IsSeq(sent') /\ Extends(sent, sent')
<1>1. Len(sent) \in Nat
  BY SeqsAreIndexed DEF StreamInv
<1> QED BY <1>1 DEF StreamInv, Extends

(* The end of the turn stays the last event.                                *)
LEMMA EndIsLast ==
    ASSUME StreamInv, OneIsRunning, events # <<>>, ~IsEnd(Head(events)), events' = Tail(events), Len(turns') = Len(turns)
    PROVE  OneIsRunning'
<1>1. /\ Len(events') = Len(events) - 1 /\ Head(events) = events[1] /\ Len(events) \in Nat /\ Len(events) # 0
      /\ \A i \in 1..Len(events) - 1 : events'[i] = events[i + 1]
  BY TailIsSeq, SeqsAreIndexed DEF StreamInv
<1>2. \A i \in 1..Len(events') : i + 1 \in 1..Len(events) /\ events'[i] = events[i + 1]
  BY <1>1
<1>3. CASE Len(turns) = 1 /\ \A i \in 1..Len(events) : ~IsEnd(events[i])
  BY <1>2, <1>3 DEF OneIsRunning, IsEnd
<1>4. CASE /\ Len(turns) = 0 /\ Len(events) # 0 /\ IsEnd(events[Len(events)])
           /\ \A i \in 1..Len(events) - 1 : ~IsEnd(events[i])
  <2>1. Len(events) # 1
    BY <1>1, <1>4
  <2>2. Len(events') # 0 /\ Len(events') + 1 = Len(events) /\ Len(events') \in 1..Len(events')
    BY <1>1, <2>1
  <2>3. events'[Len(events')] = events[Len(events)]
    BY <1>2, <2>2
  <2>4. \A i \in 1..Len(events') - 1 : i + 1 \in 1..Len(events) - 1 /\ events'[i] = events[i + 1]
    BY <1>1
  <2> QED BY <1>4, <2>2, <2>3, <2>4 DEF OneIsRunning, IsEnd
<1> QED BY <1>3, <1>4 DEF OneIsRunning

(* An event of a running turn changes what the screen shows.                *)
LEMMA EventIsShown ==
    ASSUME StreamInv, Calm, events # <<>>, ~IsEnd(Head(events)), events' = Tail(events),
           UNCHANGED <<turns, waiting, lookups>>, HasActiveRun(ui')
    PROVE  Calm'
<1>1. Len(events) # 0
  BY SeqsAreIndexed DEF StreamInv
<1>2. OneIsRunning
  BY <1>1 DEF Calm
<1>3. OneIsRunning'
  BY <1>2, EndIsLast
<1> QED BY <1>3 DEF Calm, HasActiveRun

LEMMA CalmEventRuns == ASSUME StreamInv, Calm, events # <<>> PROVE HasActiveRun(ui)
<1>1. Len(events) # 0
  BY SeqsAreIndexed DEF StreamInv
<1> QED BY <1>1 DEF Calm

LEMMA UndisturbedShows == ASSUME Undisturbed PROVE ~Shown(ui)
BY DEF Undisturbed, Shown

LEMMA OnApprovalGoesOn == ASSUME StreamInv, OnApproval PROVE GoesOn
<1>1. /\ events # <<>> /\ Head(events).kind = "approval" /\ events' = Tail(events)
      /\ UNCHANGED <<child, asked, lookups, ending, turns, inbox, waiting, sent>> /\ ui' = OfferApproval(ui, Head(events).about)
  BY DEF OnApproval, Take, Becomes
<1>2. IsUi(ui', asked) /\ ui'.phase \in {ui.phase, "approval"} /\ (Shown(ui') <=> Shown(ui))
  BY <1>1, OfferApprovalShows DEF StreamInv
<1>3. Shown(ui) => Asked'
  BY <1>2 DEF Asked
<1>4. StreamInv' /\ Onward
  BY <1>1, <1>2, <1>3, SentStays, EventIsTaken DEF StreamInv
<1>5. ASSUME Calm PROVE Calm'
  <2>1. HasActiveRun(ui')
    BY <1>1, <1>2, <1>5, CalmEventRuns DEF HasActiveRun
  <2> QED BY <1>1, <1>5, <2>1, EventIsShown DEF IsEnd
<1> QED BY <1>4, <1>5, DisturbanceStays DEF GoesOn

LEMMA OnExpiredGoesOn == ASSUME StreamInv, OnExpired PROVE GoesOn
<1> DEFINE r == Head(events).about
           w == [ui EXCEPT !.approval = NoRequest, !.phase = IF ui.phase = "approval" THEN "running" ELSE ui.phase]
           kept == LeavingOut(ui.approvals, r)
<1>1. /\ events # <<>> /\ Head(events).kind = "expired" /\ events' = Tail(events)
      /\ UNCHANGED <<child, asked, lookups, ending, turns, inbox, waiting, sent>>
      /\ IF ui.approval = r THEN ui' = NextWaiting(w) ELSE ui' = [ui EXCEPT !.approvals = kept]
  BY DEF OnExpired, Take, Becomes
<1>2. /\ IsUi(w, asked) /\ (Shown(w) <=> Shown(ui)) /\ w.phase = IF ui.phase = "approval" THEN "running" ELSE ui.phase
  BY DEF StreamInv, IsUi, UiFields, Shown
<1> HIDE DEF w, kept
<1>3. IsUi(ui', asked) /\ (Shown(ui') <=> Shown(ui)) /\ (~Shown(ui) /\ HasActiveRun(ui) => HasActiveRun(ui'))
  <2>1. CASE ui.approval = r
    <3>1. ui' = NextWaiting(w)
      BY <1>1, <2>1
    <3>2. IsUi(ui', asked) /\ (Shown(ui') <=> Shown(w)) /\ (~Shown(w) => ui'.phase \in {w.phase, "approval"})
      BY <1>2, <3>1, NextWaitingShows
    <3> QED BY <1>2, <3>2 DEF HasActiveRun
  <2>2. CASE ui.approval # r
    <3>1. ui' = [ui EXCEPT !.approvals = kept]
      BY <1>1, <2>2
    <3> QED BY <3>1 DEF StreamInv, IsUi, UiFields, Shown, HasActiveRun
  <2> QED BY <2>1, <2>2
<1>4. Shown(ui) => Asked'
  BY <1>3 DEF Asked
<1>5. StreamInv' /\ Onward
  BY <1>1, <1>3, <1>4, SentStays, EventIsTaken DEF StreamInv
<1>6. ASSUME Calm, Undisturbed PROVE Calm'
  <2>1. HasActiveRun(ui')
    BY <1>1, <1>3, <1>6, CalmEventRuns, UndisturbedShows
  <2> QED BY <1>1, <1>6, <2>1, EventIsShown DEF IsEnd
<1> QED BY <1>5, <1>6, DisturbanceStays DEF GoesOn

LEMMA OnQuestionGoesOn == ASSUME StreamInv, OnQuestion PROVE GoesOn
<1>1. /\ events # <<>> /\ Head(events).kind = "question" /\ events' = Tail(events)
      /\ UNCHANGED <<child, asked, lookups, ending, turns, inbox, waiting, sent>> /\ ui' = OfferQuestion(ui, Head(events).about)
  BY DEF OnQuestion, Take, Becomes
<1>2. Real(Head(events).about, asked)
  <2>1. Head(events) = events[1] /\ 1 \in 1..Len(events)
    BY <1>1, TailIsSeq, SeqsAreIndexed DEF StreamInv
  <2> QED BY <1>1, <2>1 DEF StreamInv, QuestionsAreReal
<1>3. IsUi(ui', asked) /\ Shown(ui')
  BY <1>1, <1>2, OfferQuestionShows DEF StreamInv
<1>4. StreamInv' /\ Onward
  BY <1>1, <1>3, SentStays, EventIsTaken DEF StreamInv, Asked
<1>5. ~Undisturbed'
  BY <1>3 DEF Undisturbed, Shown
<1> QED BY <1>4, <1>5 DEF GoesOn

LEMMA OnUnreadGoesOn == ASSUME StreamInv, OnUnread PROVE GoesOn
<1> DEFINE queue == Append(ui.queue, Head(events).about)
<1>1. /\ events # <<>> /\ Head(events).kind = "unread" /\ events' = Tail(events)
      /\ UNCHANGED <<child, asked, lookups, ending, turns, inbox, waiting, sent>> /\ ui' = [ui EXCEPT !.queue = queue]
  BY DEF OnUnread, Take, Becomes
<1> HIDE DEF queue
<1>2. IsUi(ui', asked) /\ (Shown(ui') <=> Shown(ui)) /\ ui'.phase = ui.phase
  BY <1>1 DEF StreamInv, IsUi, UiFields, Shown
<1>3. Shown(ui) => Asked'
  BY <1>2 DEF Asked
<1>4. StreamInv' /\ Onward
  BY <1>1, <1>2, <1>3, SentStays, EventIsTaken DEF StreamInv
<1>5. ASSUME Calm PROVE Calm'
  <2>1. HasActiveRun(ui')
    BY <1>1, <1>2, <1>5, CalmEventRuns DEF HasActiveRun
  <2> QED BY <1>1, <1>5, <2>1, EventIsShown DEF IsEnd
<1> QED BY <1>4, <1>5, DisturbanceStays DEF GoesOn

LEMMA OnSettledGoesOn == ASSUME StreamInv, OnSettled PROVE GoesOn
<1> DEFINE t == Head(events).about
           notices == Append(ui.notices, t)
<1>1. /\ events # <<>> /\ Head(events).kind = "settled" /\ events' = Tail(events) /\ UNCHANGED <<child, asked, lookups, ending>>
      /\ \/ FreeForAutomaticTurn(ui) /\ Dispatch(ui, t)
         \/ ui' = [ui EXCEPT !.notices = notices] /\ UNCHANGED <<turns, inbox, waiting, sent>>
  BY DEF OnSettled, Take, Becomes
<1>2. IsSeq(notices)
  BY AppendIsSeq DEF StreamInv, IsUi
<1> HIDE DEF t, notices
<1>3. CASE FreeForAutomaticTurn(ui) /\ Dispatch(ui, t)
  <2>1. /\ IsUi(ui', asked) /\ IsSeq(turns') /\ IsSeq(sent') /\ IsFiniteSet(inbox') /\ Extends(sent, sent')
        /\ \/ \E i \in 1..Len(sent') : sent'[i].as = "answer"
           \/ \E c \in Children : asked[c] # 0
           \/ Shown(ui') <=> Shown(ui)
    BY <1>3, DispatchShows DEF StreamInv
  <2>2. Shown(ui) => Asked'
    BY <1>1, <2>1 DEF Asked
  <2>3. StreamInv' /\ Onward
    BY <1>1, <2>1, <2>2, EventIsTaken
  <2>4. ~Calm
    BY <1>1, <1>3, CalmEventRuns DEF FreeForAutomaticTurn
  <2> QED BY <2>3, <2>4, DisturbanceStays DEF GoesOn
<1>4. CASE ui' = [ui EXCEPT !.notices = notices] /\ UNCHANGED <<turns, inbox, waiting, sent>>
  <2>1. IsUi(ui', asked) /\ (Shown(ui') <=> Shown(ui)) /\ ui'.phase = ui.phase
    BY <1>2, <1>4 DEF StreamInv, IsUi, UiFields, Shown
  <2>2. Shown(ui) => Asked'
    BY <2>1 DEF Asked
  <2>3. StreamInv' /\ Onward
    BY <1>1, <1>4, <2>1, <2>2, SentStays, EventIsTaken DEF StreamInv
  <2>4. ASSUME Calm PROVE Calm'
    <3>1. HasActiveRun(ui')
      BY <1>1, <2>1, <2>4, CalmEventRuns DEF HasActiveRun
    <3> QED BY <1>1, <1>4, <2>4, <3>1, EventIsShown DEF IsEnd
  <2> QED BY <2>3, <2>4, DisturbanceStays DEF GoesOn
<1> QED BY <1>1, <1>3, <1>4

(* A turn starts in a free session.                                         *)
LEMMA TurnStarts ==
    ASSUME NEW n, n = Len(turns), n = 0, Len(turns') = n + 1, ui'.phase = "running", ~ui'.grant, waiting = {},
           UNCHANGED <<waiting, lookups>>, lookups.open = 0, Len(events') = 0
    PROVE  Calm'
<1>1. HasActiveRun(ui')
  BY DEF HasActiveRun
<1>2. OneIsRunning'
  BY DEF OneIsRunning
<1> QED BY <1>1, <1>2 DEF Calm

(* What waits runs next.                                                    *)
LEMMA TurnEndIsTheOnlyEvent ==
    ASSUME StreamInv, Calm, events # <<>>, IsEnd(Head(events)), events' = Tail(events)
    PROVE  Len(turns) = 0 /\ Len(events') = 0 /\ waiting = {} /\ lookups.open = 0
<1>1. Len(events') = Len(events) - 1 /\ Head(events) = events[1] /\ Len(events) \in Nat /\ Len(events) # 0
  BY TailIsSeq, SeqsAreIndexed DEF StreamInv
<1>2. OneIsRunning
  BY <1>1 DEF Calm
<1>3. Len(turns) = 0 /\ \A i \in 1..Len(events) - 1 : ~IsEnd(events[i])
  <2>1. 1 \in 1..Len(events)
    BY <1>1
  <2> QED BY <1>1, <1>2, <2>1 DEF OneIsRunning
<1>4. Len(events) = 1
  <2>1. 1 \notin 1..Len(events) - 1
    BY <1>1, <1>3
  <2> QED BY <1>1, <2>1
<1> QED BY <1>1, <1>3, <1>4 DEF Calm

LEMMA OnErrorGoesOn == ASSUME StreamInv, OnError PROVE GoesOn
<1> DEFINE u == FinishRun(ui)
<1>1. /\ events # <<>> /\ Head(events).kind = "error" /\ events' = Tail(events)
      /\ UNCHANGED <<child, asked, lookups, ending, turns, inbox, waiting, sent>> /\ ui' = [u EXCEPT !.grant = FALSE]
  BY DEF OnError, Take, Becomes
<1>2. IsUi(u, asked) /\ (Shown(u) <=> Shown(ui)) /\ (~Shown(ui) => u.phase = "ready")
  BY FinishRunShows DEF StreamInv
<1> HIDE DEF u
<1>3. IsUi(ui', asked) /\ (Shown(ui') <=> Shown(ui)) /\ ui'.phase = u.phase /\ ui'.grant = FALSE
  BY <1>1, <1>2 DEF IsUi, UiFields, Shown
<1>4. Shown(ui) => Asked'
  BY <1>3 DEF Asked
<1>5. StreamInv' /\ Onward
  BY <1>1, <1>3, <1>4, SentStays, EventIsTaken DEF StreamInv
<1>6. ASSUME Calm, Undisturbed PROVE Calm'
  <2>1. Len(turns) = 0 /\ Len(events') = 0 /\ waiting = {} /\ lookups.open = 0
    BY <1>1, <1>6, TurnEndIsTheOnlyEvent DEF IsEnd
  <2>2. ui'.phase = "ready" /\ ~HasActiveRun(ui')
    BY <1>2, <1>3, <1>6, UndisturbedShows DEF HasActiveRun
  <2> QED BY <1>1, <1>3, <2>1, <2>2 DEF Calm
<1> QED BY <1>5, <1>6, DisturbanceStays DEF GoesOn

LEMMA OnTerminalGoesOn == ASSUME StreamInv, OnTerminal PROVE GoesOn
<1> DEFINE f == FinishRun(ui)
           u == [f EXCEPT !.held = @ \/ Head(events).about, !.grant = FALSE]
           q == [u EXCEPT !.queue = Tail(u.queue)]
           n == [u EXCEPT !.notices = Tail(u.notices)]
<1>1. events # <<>> /\ Head(events).kind = "terminal" /\ events' = Tail(events) /\ UNCHANGED <<child, asked, lookups, ending>>
  BY DEF OnTerminal, Take
<1>2. \/ Dispatch(q, Head(u.queue))
      \/ u.notices # <<>> /\ Dispatch(n, Head(u.notices))
      \/ ui' = u /\ UNCHANGED <<turns, inbox, waiting, sent>>
  BY DEF OnTerminal, RunNextQueued, ReadNextNotice, Becomes
<1>3. IsUi(f, asked) /\ (Shown(f) <=> Shown(ui)) /\ (~Shown(ui) => f.phase = "ready")
  BY FinishRunShows DEF StreamInv
<1> HIDE DEF f
<1>4. /\ DOMAIN u = UiFields /\ u.questions = f.questions /\ u.question = f.question /\ u.notices = f.notices
      /\ u.phase = f.phase /\ u.grant = FALSE
  BY <1>3 DEF IsUi, UiFields
<1> HIDE DEF u
<1>5. IsUi(u, asked) /\ (Shown(u) <=> Shown(ui)) /\ (~Shown(ui) => u.phase = "ready")
  BY <1>3, <1>4 DEF IsUi, Shown
<1>6. ASSUME NEW v, NEW t, IsUi(v, asked), (Shown(v) <=> Shown(ui)), v.phase = u.phase, v.grant = FALSE, Dispatch(v, t)
      PROVE  GoesOn
  <2>1. /\ IsUi(ui', asked) /\ IsSeq(turns') /\ IsSeq(sent') /\ IsFiniteSet(inbox') /\ Extends(sent, sent')
        /\ \/ \/ \E i \in 1..Len(sent') : sent'[i].as = "answer"
              \/ \E c \in Children : asked[c] # 0
           \/ /\ (Shown(ui') <=> Shown(v)) /\ waiting' = waiting /\ ui'.grant = v.grant
              /\ \/ HasActiveRun(v) /\ ui'.phase = v.phase /\ turns' = turns
                 \/ ~HasActiveRun(v) /\ ui'.phase = "running" /\ Len(turns') = Len(turns) + 1
    BY <1>6, DispatchShows DEF StreamInv
  <2>2. Shown(ui) => Asked'
    BY <1>1, <1>6, <2>1 DEF Asked
  <2>3. StreamInv' /\ Onward
    BY <1>1, <2>1, <2>2, EventIsTaken
  <2>4. ASSUME Calm, Undisturbed' PROVE Calm'
    <3>1. Undisturbed /\ ~Shown(ui)
      BY <2>3, <2>4, DisturbanceStays, UndisturbedShows
    <3>2. ~HasActiveRun(v)
      BY <1>5, <1>6, <3>1 DEF HasActiveRun
    <3>3. ~((\E i \in 1..Len(sent') : sent'[i].as = "answer") \/ \E c \in Children : asked[c] # 0)
      BY <1>1, <2>1, <2>4, SeqsAreIndexed DEF Undisturbed
    <3>4. /\ waiting' = waiting /\ ui'.grant = FALSE /\ ui'.phase = "running" /\ Len(turns') = Len(turns) + 1
      BY <1>6, <2>1, <3>2, <3>3
    <3>5. Len(turns) = 0 /\ Len(events') = 0 /\ waiting = {} /\ lookups.open = 0
      BY <1>1, <2>4, TurnEndIsTheOnlyEvent DEF IsEnd
    <3> QED BY <1>1, <3>4, <3>5, TurnStarts
  <2> QED BY <2>3, <2>4, DisturbanceStays DEF GoesOn
<1>7. CASE Dispatch(q, Head(u.queue))
  <2>1. IsUi(q, asked) /\ (Shown(q) <=> Shown(ui)) /\ q.phase = u.phase /\ q.grant = FALSE
    BY <1>4, <1>5 DEF IsUi, UiFields, Shown
  <2> HIDE DEF q
  <2> QED BY <1>6, <1>7, <2>1
<1>8. CASE u.notices # <<>> /\ Dispatch(n, Head(u.notices))
  <2>1. IsSeq(Tail(u.notices))
    BY <1>5, <1>8, TailIsSeq DEF IsUi
  <2>2. IsUi(n, asked) /\ (Shown(n) <=> Shown(ui)) /\ n.phase = u.phase /\ n.grant = FALSE
    BY <1>4, <1>5, <2>1 DEF IsUi, UiFields, Shown
  <2> HIDE DEF n
  <2> QED BY <1>6, <1>8, <2>2
<1>9. CASE ui' = u /\ UNCHANGED <<turns, inbox, waiting, sent>>
  <2>1. Shown(ui) => Asked'
    BY <1>5, <1>9 DEF Asked
  <2>2. StreamInv' /\ Onward
    BY <1>1, <1>5, <1>9, <2>1, SentStays, EventIsTaken DEF StreamInv
  <2>3. ASSUME Calm, Undisturbed PROVE Calm'
    <3>1. Len(turns) = 0 /\ Len(events') = 0 /\ waiting = {} /\ lookups.open = 0
      BY <1>1, <2>3, TurnEndIsTheOnlyEvent DEF IsEnd
    <3>2. ui'.phase = "ready" /\ ~HasActiveRun(ui') /\ ui'.grant = FALSE
      BY <1>4, <1>5, <1>9, <2>3, UndisturbedShows DEF HasActiveRun
    <3> QED BY <1>1, <1>9, <3>1, <3>2 DEF Calm
  <2> QED BY <2>2, <2>3, DisturbanceStays DEF GoesOn
<1> QED BY <1>2, <1>7, <1>8, <1>9

-----------------------------------------------------------------------------
(* The free session and the user.                                           *)
LEMMA NothingIsPut ==
    ASSUME StreamInv, UNCHANGED <<events, child, asked, lookups, ending>>, IsUi(ui', asked), IsSeq(turns'), IsSeq(sent'),
           IsFiniteSet(inbox'), Extends(sent, sent'), Shown(ui) => Asked'
    PROVE  StreamInv' /\ Onward
<1>1. IsSeq(events') /\ QuestionsAreReal'
  BY DEF StreamInv, QuestionsAreReal
<1>2. (\E i \in 1..Len(events) : events[i].kind = "question") => Asked'
  BY DEF Asked
<1> QED BY <1>1, <1>2, StaysOnward

LEMMA TurnReadsGoesOn == ASSUME StreamInv, TurnReads PROVE GoesOn
<1>1. PICK t \in inbox : inbox' = inbox \ {t} /\ sent' = Append(sent, [text |-> t, as |-> "steer"])
  BY DEF TurnReads
<1>2. UNCHANGED <<ui, turns, ending, child, waiting, asked, lookups, events>>
  BY DEF TurnReads
<1>3. IsFiniteSet(inbox')
  BY <1>1, FS_Subset DEF StreamInv
<1>4. IsSeq(sent') /\ Extends(sent, sent')
  <2>1. Len(sent) \in Nat
    BY SeqsAreIndexed DEF StreamInv
  <2> QED BY <1>1, <2>1, AppendIsSeq DEF StreamInv, Extends
<1>5. StreamInv' /\ Onward
  BY <1>2, <1>3, <1>4, NothingIsPut DEF StreamInv, Asked
<1>6. Calm => Calm'
  BY <1>2 DEF Calm, OneIsRunning
<1> QED BY <1>5, <1>6, DisturbanceStays DEF GoesOn

LEMMA DispatchGoesOn ==
    ASSUME StreamInv, NEW u, NEW t, IsUi(u, asked), Shown(u) <=> Shown(ui), u.phase = ui.phase, u.grant = ui.grant,
           Dispatch(u, t), UNCHANGED <<child, asked, lookups, events, ending>>
    PROVE  GoesOn
<1>1. /\ IsUi(ui', asked) /\ IsSeq(turns') /\ IsSeq(sent') /\ IsFiniteSet(inbox') /\ Extends(sent, sent')
      /\ \/ \/ \E i \in 1..Len(sent') : sent'[i].as = "answer"
            \/ \E c \in Children : asked[c] # 0
         \/ /\ (Shown(ui') <=> Shown(u)) /\ waiting' = waiting /\ ui'.grant = u.grant
            /\ \/ HasActiveRun(u) /\ ui'.phase = u.phase /\ turns' = turns
               \/ ~HasActiveRun(u) /\ ui'.phase = "running" /\ Len(turns') = Len(turns) + 1
  BY DispatchShows DEF StreamInv
<1>2. Shown(ui) => Asked'
  BY <1>1 DEF Asked
<1>3. StreamInv' /\ Onward
  BY <1>1, <1>2, NothingIsPut
<1>4. ASSUME Calm, Undisturbed' PROVE Calm'
  <2>1. ~((\E i \in 1..Len(sent') : sent'[i].as = "answer") \/ \E c \in Children : asked[c] # 0)
    BY <1>1, <1>4, SeqsAreIndexed DEF Undisturbed
  <2>2. HasActiveRun(u) <=> HasActiveRun(ui)
    BY DEF HasActiveRun
  <2>3. CASE HasActiveRun(ui)
    <3>1. waiting' = waiting /\ ui'.phase = ui.phase /\ turns' = turns
      BY <1>1, <2>1, <2>2, <2>3
    <3> QED BY <1>4, <2>3, <3>1 DEF Calm, HasActiveRun, OneIsRunning
  <2>4. CASE ~HasActiveRun(ui)
    <3>1. waiting' = waiting /\ ui'.phase = "running" /\ Len(turns') = Len(turns) + 1 /\ ui'.grant = ui.grant
      BY <1>1, <2>1, <2>2, <2>4
    <3>2. Len(turns) = 0 /\ Len(events) = 0 /\ waiting = {} /\ ~ui.grant /\ lookups.open = 0
      BY <1>4, <2>4 DEF Calm
    <3> QED BY <3>1, <3>2, TurnStarts
  <2> QED BY <2>3, <2>4
<1> QED BY <1>3, <1>4, DisturbanceStays DEF GoesOn

LEMMA DeliverWaitingGoesOn == ASSUME StreamInv, DeliverWaiting PROVE GoesOn
<1> DEFINE q == [ui EXCEPT !.queue = Tail(ui.queue)]
           n == [ui EXCEPT !.notices = Tail(ui.notices)]
<1>1. /\ UNCHANGED <<child, asked, lookups, events, ending>>
      /\ \/ Dispatch(q, Head(ui.queue))
         \/ ui.notices # <<>> /\ Dispatch(n, Head(ui.notices))
  BY DEF DeliverWaiting, RunNextQueued, ReadNextNotice
<1>2. CASE Dispatch(q, Head(ui.queue))
  <2>1. IsUi(q, asked) /\ (Shown(q) <=> Shown(ui)) /\ q.phase = ui.phase /\ q.grant = ui.grant
    BY DEF StreamInv, IsUi, UiFields, Shown
  <2> HIDE DEF q
  <2> QED BY <1>1, <1>2, <2>1, DispatchGoesOn
<1>3. CASE ui.notices # <<>> /\ Dispatch(n, Head(ui.notices))
  <2>1. IsSeq(Tail(ui.notices))
    BY <1>3, TailIsSeq DEF StreamInv, IsUi
  <2>2. IsUi(n, asked) /\ (Shown(n) <=> Shown(ui)) /\ n.phase = ui.phase /\ n.grant = ui.grant
    BY <2>1 DEF StreamInv, IsUi, UiFields, Shown
  <2> HIDE DEF n
  <2> QED BY <1>1, <1>3, <2>2, DispatchGoesOn
<1> QED BY <1>1, <1>2, <1>3

LEMMA UserTypesGoesOn == ASSUME StreamInv, UserTypes PROVE GoesOn
<1>1. Dispatch(ui, Typed(typed + 1)) /\ UNCHANGED <<child, asked, lookups, events, ending>>
  BY DEF UserTypes
<1> QED BY <1>1, DispatchGoesOn DEF StreamInv

LEMMA DeliverWaitingSteersGoesOn == ASSUME StreamInv, DeliverWaitingSteers PROVE GoesOn
<1>1. /\ ui' = [ui EXCEPT !.queue = Tail(ui.queue)] /\ inbox' = inbox \cup {Head(ui.queue)}
      /\ UNCHANGED <<turns, ending, child, waiting, asked, lookups, events, sent, typed>>
  BY DEF DeliverWaitingSteers
<1>2. IsUi(ui', asked) /\ (Shown(ui') <=> Shown(ui)) /\ ui'.phase = ui.phase /\ ui'.grant = ui.grant
  BY <1>1 DEF StreamInv, IsUi, UiFields, Shown
<1>3. IsFiniteSet(inbox')
  BY <1>1, FS_AddElement DEF StreamInv
<1>4. Shown(ui) => Asked'
  BY <1>2 DEF Asked
<1>5. StreamInv' /\ Onward
  BY <1>1, <1>2, <1>3, <1>4, SentStays, NothingIsPut DEF StreamInv
<1>6. Calm => Calm'
  BY <1>1, <1>2 DEF Calm, HasActiveRun, OneIsRunning
<1> QED BY <1>5, <1>6, DisturbanceStays DEF GoesOn

LEMMA UserAnswersGoesOn == ASSUME StreamInv, NEW all \in BOOLEAN, UserAnswers(all) PROVE GoesOn
<1> DEFINE w == [ui EXCEPT !.approval = NoRequest, !.phase = "running"]
           v == NextWaiting(w)
<1>1. /\ ui.phase = "approval" /\ waiting' = waiting \ {ui.approval} /\ ui' = [v EXCEPT !.grant = v.grant \/ all]
      /\ UNCHANGED <<turns, ending, inbox, child, asked, lookups, events, sent, typed>>
  BY DEF UserAnswers
<1>2. IsUi(w, asked) /\ (Shown(w) <=> Shown(ui)) /\ w.phase = "running"
  BY DEF StreamInv, IsUi, UiFields, Shown
<1> HIDE DEF w
<1>3. IsUi(v, asked) /\ (Shown(v) <=> Shown(ui)) /\ (~Shown(ui) => v.phase \in {"running", "approval"})
  BY <1>2, NextWaitingShows
<1> HIDE DEF v
<1>4. IsUi(ui', asked) /\ (Shown(ui') <=> Shown(ui)) /\ ui'.phase = v.phase
  BY <1>1, <1>3 DEF IsUi, UiFields, Shown
<1>5. Shown(ui) => Asked'
  BY <1>4 DEF Asked
<1>6. StreamInv' /\ Onward
  BY <1>1, <1>4, <1>5, SentStays, NothingIsPut DEF StreamInv
<1>7. ASSUME Calm, Undisturbed PROVE Calm'
  <2>1. ui'.phase \in {"running", "approval"} /\ HasActiveRun(ui') /\ HasActiveRun(ui)
    BY <1>1, <1>3, <1>4, <1>7, UndisturbedShows DEF HasActiveRun
  <2> QED BY <1>1, <1>7, <2>1 DEF Calm, OneIsRunning
<1> QED BY <1>6, <1>7, DisturbanceStays DEF GoesOn

LEMMA UserLooksUpGoesOn == ASSUME StreamInv, UserLooksUp PROVE GoesOn
<1>1. /\ lookups' = [open |-> lookups.open + 1, made |-> lookups.made + 1]
      /\ UNCHANGED <<ui, turns, ending, inbox, child, waiting, asked, events, sent, typed>>
  BY DEF UserLooksUp
<1>2. lookups' \in [open : Nat, made : Nat] /\ lookups'.made # 0
  BY <1>1 DEF StreamInv
<1>3. StreamInv'
  BY <1>1, <1>2 DEF StreamInv, QuestionsAreReal
<1> QED BY <1>2, <1>3 DEF GoesOn, Undisturbed

LEMMA InterruptGoesOn == ASSUME StreamInv, IsFiniteSet(waiting), Interrupt PROVE GoesOn
<1> DEFINE refused == {r \in waiting : r.kind = "approval"}
           more == [i \in 1..Cardinality(refused) |-> Event("expired", SetToSeq(refused)[i])]
<1>1. /\ HasActiveRun(ui) /\ ui' = [ui EXCEPT !.phase = "canceling"]
      /\ turns' = [i \in DOMAIN turns |-> turns[i] \/ i = Len(turns)] /\ waiting' = {}
      /\ child' = [c \in Children |-> IF child[c] = "running" THEN "stopping" ELSE child[c]]
      /\ events' = events \o more /\ UNCHANGED <<ending, inbox, asked, lookups, sent, typed>>
  BY DEF Interrupt
<1>2. Cardinality(refused) \in Nat /\ (waiting = {} => Cardinality(refused) = 0)
  BY FS_Subset, FS_CardinalityType, FS_EmptySet
<1>3. IsSeq(more) /\ Len(more) = Cardinality(refused) /\ \A i \in 1..Len(more) : more[i].kind = "expired"
  <2>1. more = [i \in 1..Cardinality(refused) |-> more[i]]
    OBVIOUS
  <2>2. \A i \in 1..Cardinality(refused) : more[i].kind = "expired"
    BY DEF Event
  <2> HIDE DEF more
  <2>3. IsSeq(more) /\ Len(more) = Cardinality(refused)
    BY <1>2, <2>1, FunctionIsSeq
  <2> QED BY <2>2, <2>3
<1> HIDE DEF more
<1>4. /\ IsSeq(events') /\ Len(events') = Len(events) + Len(more) /\ Len(events) \in Nat
      /\ \A i \in 1..Len(events) : events'[i] = events[i]
      /\ \A i \in 1..Len(more) : events'[Len(events) + i] = more[i]
  <2>1. IsSeq(events) /\ Len(events) \in Nat
    BY SeqsAreIndexed DEF StreamInv
  <2>2. /\ IsSeq(events \o more) /\ Len(events \o more) = Len(events) + Len(more)
        /\ \A i \in 1..Len(events) : (events \o more)[i] = events[i]
        /\ \A i \in 1..Len(more) : (events \o more)[Len(events) + i] = more[i]
    <3>1. IsSeq(more)
      BY <1>3
    <3> HIDE DEF refused
    <3> QED BY <2>1, <3>1, ConcatIsSeq
  <2> QED BY <1>1, <2>1, <2>2
<1>5. IsSeq(turns') /\ Len(turns') = Len(turns)
  <2>1. Len(turns) \in Nat /\ DOMAIN turns = 1..Len(turns)
    BY SeqsAreIndexed DEF StreamInv
  <2>2. turns' = [i \in 1..Len(turns) |-> turns'[i]]
    BY <1>1, <2>1
  <2> QED BY <2>1, <2>2, FunctionIsSeq
<1>6. ASSUME NEW i \in 1..Len(events')
      PROVE  \/ i \in 1..Len(events) /\ events'[i] = events[i]
             \/ i \notin 1..Len(events) /\ Len(more) # 0 /\ events'[i].kind = "expired"
  <2>1. CASE i \in 1..Len(events)
    BY <1>4, <2>1
  <2>2. CASE i \notin 1..Len(events)
    <3>1. i - Len(events) \in 1..Len(more) /\ Len(events) + (i - Len(events)) = i /\ Len(more) # 0
      BY <1>2, <1>3, <1>4, <2>2
    <3> QED BY <1>3, <1>4, <2>2, <3>1
  <2> QED BY <2>1, <2>2
<1>7. QuestionsAreReal'
  <2> SUFFICES ASSUME NEW i \in 1..Len(events'), events'[i].kind = "question" PROVE Real(events'[i].about, asked')
    BY DEF QuestionsAreReal
  <2>1. i \in 1..Len(events) /\ events'[i] = events[i]
    BY <1>6
  <2> QED BY <1>1, <2>1 DEF StreamInv, QuestionsAreReal
<1>8. /\ IsUi(ui', asked) /\ (Shown(ui') <=> Shown(ui)) /\ ui'.phase = "canceling" /\ HasActiveRun(ui')
      /\ child' \in [Children -> {"running", "stopping", "gone"}]
      /\ \A c \in Children : child[c] = "gone" => child'[c] = "gone"
  BY <1>1 DEF StreamInv, IsUi, UiFields, Shown, HasActiveRun
<1>9. StreamInv'
  BY <1>1, <1>4, <1>5, <1>7, <1>8 DEF StreamInv
<1>10. Asked => Asked'
  <2>1. (\E i \in 1..Len(events) : events[i].kind = "question") => \E i \in 1..Len(events') : events'[i].kind = "question"
    <3>1. \A i \in 1..Len(events) : i \in 1..Len(events')
      BY <1>2, <1>3, <1>4
    <3> QED BY <1>4, <3>1
  <2> QED BY <1>1, <1>8, <2>1 DEF Asked
<1>11. lookups.made \in Nat /\ \A c \in Children : asked[c] \in Nat
  BY DEF StreamInv
<1>12. Onward
  BY <1>1, <1>8, <1>10, <1>11 DEF Onward
<1>13. ASSUME Calm PROVE Calm'
  <2>1. OneIsRunning
    BY <1>1, <1>13 DEF Calm
  <2>2. CASE Len(turns) = 1 /\ \A i \in 1..Len(events) : ~IsEnd(events[i])
    <3>1. \A i \in 1..Len(events') : ~IsEnd(events'[i])
      BY <1>6, <2>2 DEF IsEnd
    <3> QED BY <1>1, <1>5, <1>8, <1>13, <2>2, <3>1 DEF Calm, OneIsRunning, IsEnd
  <2>3. CASE /\ Len(turns) = 0 /\ Len(events) # 0 /\ IsEnd(events[Len(events)])
             /\ \A i \in 1..Len(events) - 1 : ~IsEnd(events[i])
    <3>1. Len(more) = 0
      BY <1>2, <1>3, <1>13, <2>3 DEF Calm
    <3>2. Len(events') = Len(events) /\ \A i \in 1..Len(events) : events'[i] = events[i]
      BY <1>4, <3>1
    <3>3. Len(events') \in 1..Len(events) /\ \A i \in 1..Len(events') - 1 : i \in 1..Len(events)
      BY <1>4, <2>3, <3>2
    <3>4. IsEnd(events'[Len(events')]) /\ \A i \in 1..Len(events') - 1 : ~IsEnd(events'[i])
      BY <2>3, <3>2, <3>3
    <3> QED BY <1>1, <1>5, <1>8, <1>13, <2>3, <3>2, <3>4 DEF Calm, OneIsRunning, IsEnd
  <2> QED BY <2>1, <2>2, <2>3 DEF OneIsRunning
<1> QED BY <1>9, <1>12, <1>13, DisturbanceStays DEF GoesOn

-----------------------------------------------------------------------------
(* A step adds a request at most.                                           *)
LEMMA WaitingIsFinite == ASSUME IsFiniteSet(waiting), [ScreenNext]_screenVars PROVE IsFiniteSet(waiting')
<1>1. \/ waiting' \subseteq waiting
      \/ \E r : waiting' = waiting \cup {r}
  <2>1. ASSUME NEW a \in Children \cup {Root}, AsksApproval(a) PROVE \E r : waiting' = waiting \cup {r}
    BY <2>1 DEF AsksApproval
  <2>2. ASSUME NEW c \in Children, ChildAsks(c) PROVE \E r : waiting' = waiting \cup {r}
    BY <2>2 DEF ChildAsks
  <2>3. ASSUME NEW c \in Children, ChildEnds(c) PROVE waiting' \subseteq waiting
    BY <2>3 DEF ChildEnds
  <2>4. ASSUME NEW r \in waiting, ApprovalTimesOut(r) PROVE waiting' \subseteq waiting
    BY <2>4 DEF ApprovalTimesOut
  <2>5. CASE TurnReads \/ TurnMoves \/ \E b \in BOOLEAN : TurnBreaks(b)
    BY <2>5 DEF TurnReads, TurnMoves, LoopEnds, InboxCloses, CarryUnread, TurnEnds, TurnBreaks
  <2>6. ASSUME NEW b \in BOOLEAN, UserAnswers(b) PROVE waiting' \subseteq waiting
    BY <2>6 DEF UserAnswers
  <2>7. CASE LookupFails \/ UserLooksUp \/ Interrupt \/ DeliverWaitingSteers
    BY <2>7 DEF LookupFails, UserLooksUp, Interrupt, DeliverWaitingSteers
  <2>8. CASE OnApproval \/ OnExpired \/ OnQuestion \/ OnUnread \/ OnError
    BY <2>8 DEF OnApproval, OnExpired, OnQuestion, OnUnread, OnError, Becomes
  <2>9. CASE OnSettled
    BY <2>9, DispatchWaits DEF OnSettled, Becomes
  <2>10. CASE OnTerminal
    <3>1. (\E u, t : Dispatch(u, t)) \/ waiting' = waiting
      BY <2>10 DEF OnTerminal, RunNextQueued, ReadNextNotice, Becomes
    <3> QED BY <3>1, DispatchWaits
  <2>11. CASE DeliverWaiting
    BY <2>11, DispatchWaits DEF DeliverWaiting, RunNextQueued, ReadNextNotice
  <2>12. CASE UserTypes
    BY <2>12, DispatchWaits DEF UserTypes
  <2>13. CASE UNCHANGED screenVars
    BY <2>13 DEF screenVars
  <2> QED BY <2>1, <2>2, <2>3, <2>4, <2>5, <2>6, <2>7, <2>8, <2>9, <2>10, <2>11, <2>12, <2>13 DEF ScreenNext, HandleEvent
<1> QED BY <1>1, FS_Subset, FS_AddElement

ScreenInv == StreamInv /\ EndInv /\ IsFiniteSet(waiting) /\ TurnsAreKnown

LEMMA ScreenStarts == ASSUME ScreenInit PROVE ScreenInv
<1>1. events = <<>> /\ sent = <<>> /\ turns = <<>> /\ inbox = {} /\ waiting = {}
  BY DEF ScreenInit
<1>2. /\ IsSeq(events) /\ IsSeq(sent) /\ IsSeq(turns) /\ Len(events) = 0 /\ Len(turns) = 0 /\ IsFiniteSet(inbox)
      /\ IsFiniteSet(waiting)
  BY <1>1, EmptyIsSeq, FS_EmptySet
<1>3. /\ child \in [Children -> {"running", "stopping", "gone"}]
      /\ asked \in [Children \cup {Root} -> Nat] /\ lookups \in [open : Nat, made : Nat] /\ lookups.open = 0
  BY DEF ScreenInit
<1>4. /\ DOMAIN ui = UiFields /\ ui.questions = <<>> /\ ui.notices = <<>> /\ ui.question = NoRequest
      /\ ui.phase = "ready" /\ ui.grant = FALSE
  BY DEF ScreenInit, UiFields
<1>5. IsUi(ui, asked)
  <2>1. IsSeq(ui.questions) /\ IsSeq(ui.notices) /\ Len(ui.questions) = 0
    BY <1>4, EmptyIsSeq
  <2> QED BY <1>4, <2>1 DEF IsUi
<1>6. StreamInv
  BY <1>2, <1>3, <1>5 DEF StreamInv, QuestionsAreReal
<1>7. Calm
  BY <1>1, <1>2, <1>3, <1>4 DEF Calm, HasActiveRun
<1>8. EndInv
  BY EndStarts
<1> QED BY <1>2, <1>6, <1>7, <1>8 DEF ScreenInv, TurnsAreKnown

LEMMA ScreenGoesOn == ASSUME StreamInv, EndInv, IsFiniteSet(waiting), [ScreenNext]_screenVars PROVE GoesOn
<1>1. CASE UNCHANGED screenVars
  <2>1. StreamInv'
    BY <1>1 DEF screenVars, StreamInv, QuestionsAreReal
  <2>2. Undisturbed' => Undisturbed
    BY <1>1 DEF screenVars, Undisturbed
  <2>3. Calm => Calm'
    BY <1>1 DEF screenVars, Calm, OneIsRunning
  <2> QED BY <2>1, <2>2, <2>3 DEF GoesOn
<1>2. CASE OnApproval \/ OnExpired \/ OnQuestion \/ OnUnread \/ OnSettled \/ OnTerminal \/ OnError
  BY <1>2, OnApprovalGoesOn, OnExpiredGoesOn, OnQuestionGoesOn, OnUnreadGoesOn, OnSettledGoesOn, OnTerminalGoesOn,
     OnErrorGoesOn
<1>3. CASE \/ TurnReads \/ TurnMoves \/ DeliverWaiting \/ DeliverWaitingSteers \/ UserTypes \/ Interrupt \/ UserLooksUp \/ LookupFails
  BY <1>3, TurnReadsGoesOn, TurnMovesGoesOn, DeliverWaitingGoesOn, DeliverWaitingSteersGoesOn, UserTypesGoesOn, InterruptGoesOn,
     UserLooksUpGoesOn, LookupFailsGoesOn
<1>4. CASE \E a \in Children \cup {Root} : AsksApproval(a)
  BY <1>4, AsksApprovalGoesOn
<1>5. CASE \E c \in Children : ChildAsks(c) \/ ChildEnds(c)
  BY <1>5, ChildAsksGoesOn, ChildEndsGoesOn
<1>6. CASE \E r \in waiting : ApprovalTimesOut(r)
  BY <1>6, TimesOutGoesOn
<1>7. CASE \E b \in BOOLEAN : TurnBreaks(b) \/ UserAnswers(b)
  BY <1>7, TurnBreaksGoesOn, UserAnswersGoesOn
<1> QED BY <1>1, <1>2, <1>3, <1>4, <1>5, <1>6, <1>7 DEF ScreenNext, HandleEvent

LEMMA ScreenStep == ASSUME ScreenInv, [ScreenNext]_screenVars PROVE ScreenInv'
<1>1. GoesOn
  BY ScreenGoesOn DEF ScreenInv
<1>2. IsFiniteSet(waiting')
  BY WaitingIsFinite DEF ScreenInv
<1>3. EndInv'
  BY EndStays DEF ScreenInv
<1> QED BY <1>1, <1>2, <1>3 DEF ScreenInv, GoesOn, TurnsAreKnown

LEMMA ScreenInvMeans == ASSUME ScreenInv PROVE OneTurnAtATime /\ RunningHasATurn /\ GrantWithinTurn
<1> SUFFICES ASSUME Undisturbed
             PROVE  /\ Len(turns) <= 1 /\ (ui.phase \in {"running", "canceling"} => turns # <<>> \/ Ending)
                    /\ (ui.grant => turns # <<>> \/ Ending)
  BY DEF OneTurnAtATime, RunningHasATurn, GrantWithinTurn
<1>1. Calm
  BY DEF ScreenInv, TurnsAreKnown
<1>2. Len(turns) \in Nat /\ Len(events) \in Nat /\ DOMAIN events = 1..Len(events)
  BY SeqsAreIndexed DEF ScreenInv, StreamInv
<1>3. OneIsRunning => turns # <<>> \/ Ending
  <2>1. CASE Len(turns) = 1
    BY <2>1
  <2>2. CASE Len(events) # 0 /\ IsEnd(events[Len(events)])
    <3>1. Len(events) \in DOMAIN events
      BY <1>2, <2>2
    <3> QED BY <2>2, <3>1 DEF Ending, IsEnd
  <2> QED BY <2>1, <2>2 DEF OneIsRunning
<1>4. HasActiveRun(ui) => OneIsRunning
  BY <1>1 DEF Calm
<1>5. Len(turns) <= 1
  <2>1. Len(turns) = 0 \/ Len(turns) = 1
    BY <1>1 DEF Calm, OneIsRunning
  <2> DEFINE n == Len(turns)
  <2>2. n \in Nat /\ (n = 0 \/ n = 1)
    BY <1>2, <2>1
  <2> HIDE DEF n
  <2>3. n <= 1
    BY <2>2
  <2> QED BY <2>3 DEF n
<1>6. ui.phase \in {"running", "canceling"} => HasActiveRun(ui)
  BY DEF HasActiveRun
<1>7. ui.grant => HasActiveRun(ui)
  BY <1>1 DEF Calm
<1> QED BY <1>3, <1>4, <1>5, <1>6, <1>7

(* A second turn is never started beside a running one, the controller says *)
(* a run is active only while one is, and a grant ends with its turn, as    *)
(* long as nothing but the turns reached the controller: for every number   *)
(* of requests, lines and lookups (controller.rs, has_active_run,           *)
(* apply_event, submit).                                                    *)
THEOREM TurnsComeOneByOne == ScreenSpec => [](OneTurnAtATime /\ RunningHasATurn /\ GrantWithinTurn)
<1>1. ScreenInit => ScreenInv
  BY ScreenStarts
<1>2. ScreenInv /\ [ScreenNext]_screenVars => ScreenInv'
  BY ScreenStep
<1>3. ScreenInv => OneTurnAtATime /\ RunningHasATurn /\ GrantWithinTurn
  BY ScreenInvMeans
<1> QED BY <1>1, <1>2, <1>3, PTL DEF ScreenSpec

-----------------------------------------------------------------------------
(* The panels of a controller, and what it says it does.                    *)
Asks(kind) == {r \in Requests : r.kind = kind}

UiStates ==
    [phase : {"ready", "running", "approval", "input", "canceling"},
     approval : Asks("approval") \cup {NoRequest}, approvals : Seq(Asks("approval")),
     question : Asks("question") \cup {NoRequest}, questions : Seq(Asks("question")),
     before : {"none", "ready", "running", "canceling"}, held : BOOLEAN, queue : Seq(Texts), notices : Seq(Texts),
     grant : BOOLEAN]

(* The phase of a panel has its panel.                                      *)
PanelIsShown(u) ==
    /\ u.phase = "approval" => u.approval # NoRequest
    /\ u.phase = "input" => u.question # NoRequest

IsScreen(u) == u \in UiStates /\ PanelIsShown(u)

(* What is asked and seen at u is seen at v, or waits there.                *)
KeepsAsked(u, v) ==
    \A r \in Requests : /\ r \in Open(u) => r \in Open(v)
                        /\ r \in Behind(u) => r \in Open(v) \cup Behind(v)

SameTexts(u, v) == v.queue = u.queue /\ v.notices = u.notices

LEMMA RequestsAreSome == NoRequest \notin Requests
BY DEF Requests, NoRequest

LEMMA AsksAreRequests == ASSUME NEW kind PROVE Asks(kind) \subseteq Requests
BY DEF Asks

LEMMA UiIs ==
    ASSUME NEW u \in UiStates
    PROVE  u = [phase |-> u.phase, approval |-> u.approval, approvals |-> u.approvals, question |-> u.question,
                questions |-> u.questions, before |-> u.before, held |-> u.held, queue |-> u.queue,
                notices |-> u.notices, grant |-> u.grant]
BY DEF UiStates

LEMMA OfferApprovalKeeps ==
    ASSUME NEW u, IsScreen(u), NEW r \in Asks("approval"), NEW v, v = OfferApproval(u, r)
    PROVE  IsScreen(v) /\ KeepsAsked(u, v) /\ SameTexts(u, v) /\ v.held = u.held /\ r \in Open(v) \cup Behind(v)
<1>0. /\ u = [phase |-> u.phase, approval |-> u.approval, approvals |-> u.approvals, question |-> u.question,
              questions |-> u.questions, before |-> u.before, held |-> u.held, queue |-> u.queue,
              notices |-> u.notices, grant |-> u.grant]
      /\ u \in UiStates
  BY UiIs DEF IsScreen
<1>1. CASE PanelOpen(u)
  <2>1. v = [u EXCEPT !.approvals = Append(u.approvals, r)]
    BY <1>1 DEF OfferApproval
  <2>2. u.approvals \in Seq(Asks("approval"))
    BY <1>0 DEF UiStates
  <2> DEFINE l == Append(u.approvals, r)
  <2>3. l \in Seq(Asks("approval")) /\ ToSet(l) = ToSet(u.approvals) \cup {r}
    BY <2>2, AppendAdds
  <2> HIDE DEF l
  <2>4. v = [u EXCEPT !.approvals = l]
    BY <2>1 DEF l
  <2>5. v \in UiStates
    BY <1>0, <2>3, <2>4 DEF UiStates
  <2>6. /\ v.approval = u.approval /\ v.question = u.question /\ v.questions = u.questions /\ v.approvals = l
        /\ v.queue = u.queue /\ v.notices = u.notices /\ v.held = u.held /\ v.phase = u.phase
    BY <1>0, <2>4
  <2> QED BY <2>3, <2>5, <2>6 DEF IsScreen, PanelIsShown, KeepsAsked, SameTexts, Open, Behind
<1>2. CASE ~PanelOpen(u)
  <2>1. v = [u EXCEPT !.approval = r, !.phase = "approval"]
    BY <1>2 DEF OfferApproval
  <2>2. v \in UiStates
    BY <1>0, <2>1 DEF UiStates
  <2>3. /\ v.approval = r /\ v.question = u.question /\ v.questions = u.questions /\ v.approvals = u.approvals
        /\ v.queue = u.queue /\ v.notices = u.notices /\ v.held = u.held /\ v.phase = "approval"
    BY <1>0, <2>1
  <2>4. u.approval = NoRequest /\ u.question = NoRequest
    BY <1>2 DEF PanelOpen
  <2> QED BY <2>2, <2>3, <2>4, RequestsAreSome, AsksAreRequests
          DEF IsScreen, PanelIsShown, KeepsAsked, SameTexts, Open, Behind
<1> QED BY <1>1, <1>2

LEMMA OfferQuestionKeeps ==
    ASSUME NEW u, IsScreen(u), NEW q \in Asks("question"), NEW v, v = OfferQuestion(u, q)
    PROVE  IsScreen(v) /\ KeepsAsked(u, v) /\ SameTexts(u, v) /\ v.held = u.held /\ q \in Open(v) \cup Behind(v)
<1>0. /\ u = [phase |-> u.phase, approval |-> u.approval, approvals |-> u.approvals, question |-> u.question,
              questions |-> u.questions, before |-> u.before, held |-> u.held, queue |-> u.queue,
              notices |-> u.notices, grant |-> u.grant]
      /\ u \in UiStates
  BY UiIs DEF IsScreen
<1>1. CASE PanelOpen(u)
  <2>1. v = [u EXCEPT !.questions = Append(u.questions, q)]
    BY <1>1 DEF OfferQuestion
  <2>2. u.questions \in Seq(Asks("question"))
    BY <1>0 DEF UiStates
  <2> DEFINE l == Append(u.questions, q)
  <2>3. l \in Seq(Asks("question")) /\ ToSet(l) = ToSet(u.questions) \cup {q}
    BY <2>2, AppendAdds
  <2> HIDE DEF l
  <2>4. v = [u EXCEPT !.questions = l]
    BY <2>1 DEF l
  <2>5. v \in UiStates
    BY <1>0, <2>3, <2>4 DEF UiStates
  <2>6. /\ v.approval = u.approval /\ v.question = u.question /\ v.approvals = u.approvals /\ v.questions = l
        /\ v.queue = u.queue /\ v.notices = u.notices /\ v.held = u.held /\ v.phase = u.phase
    BY <1>0, <2>4
  <2> QED BY <2>3, <2>5, <2>6 DEF IsScreen, PanelIsShown, KeepsAsked, SameTexts, Open, Behind
<1>2. CASE ~PanelOpen(u)
  <2> DEFINE b == IF q.by = Root THEN u.before ELSE u.phase
  <2>1. v = [u EXCEPT !.question = q, !.phase = "input", !.before = b]
    BY <1>2 DEF OfferQuestion
  <2>2. u.approval = NoRequest /\ u.question = NoRequest
    BY <1>2 DEF PanelOpen
  <2>3. u.phase \in {"ready", "running", "canceling"}
    BY <1>0, <2>2 DEF IsScreen, PanelIsShown, UiStates
  <2>4. b \in {"none", "ready", "running", "canceling"}
    BY <1>0, <2>3 DEF UiStates
  <2> HIDE DEF b
  <2>5. v \in UiStates
    BY <1>0, <2>1, <2>4 DEF UiStates
  <2>6. /\ v.approval = u.approval /\ v.question = q /\ v.questions = u.questions /\ v.approvals = u.approvals
        /\ v.queue = u.queue /\ v.notices = u.notices /\ v.held = u.held /\ v.phase = "input"
    BY <1>0, <2>1
  <2> QED BY <2>2, <2>5, <2>6, RequestsAreSome, AsksAreRequests
          DEF IsScreen, PanelIsShown, KeepsAsked, SameTexts, Open, Behind
<1> QED BY <1>1, <1>2

LEMMA NextWaitingKeeps ==
    ASSUME NEW u, IsScreen(u), NEW v, v = NextWaiting(u)
    PROVE  IsScreen(v) /\ KeepsAsked(u, v) /\ SameTexts(u, v) /\ v.held = u.held
<1>0. /\ u = [phase |-> u.phase, approval |-> u.approval, approvals |-> u.approvals, question |-> u.question,
              questions |-> u.questions, before |-> u.before, held |-> u.held, queue |-> u.queue,
              notices |-> u.notices, grant |-> u.grant]
      /\ u \in UiStates
  BY UiIs DEF IsScreen
<1>1. CASE ~PanelOpen(u) /\ u.approvals # <<>>
  <2> DEFINE l == Tail(u.approvals)
             r == Head(u.approvals)
             w == [u EXCEPT !.approvals = l]
  <2>1. v = OfferApproval(w, r)
    BY <1>1 DEF NextWaiting
  <2>2. l \in Seq(Asks("approval")) /\ r \in Asks("approval") /\ ToSet(u.approvals) = {r} \cup ToSet(l)
    BY <1>0, <1>1, HeadAndTail DEF UiStates
  <2> HIDE DEF l, r
  <2>3. w \in UiStates
    BY <1>0, <2>2 DEF UiStates
  <2>4. /\ w.approval = u.approval /\ w.question = u.question /\ w.questions = u.questions /\ w.approvals = l
        /\ SameTexts(u, w) /\ w.held = u.held /\ w.phase = u.phase
    BY <1>0 DEF SameTexts
  <2> HIDE DEF w
  <2>5. IsScreen(w)
    BY <2>3, <2>4 DEF IsScreen, PanelIsShown
  <2>6. IsScreen(v) /\ KeepsAsked(w, v) /\ SameTexts(w, v) /\ v.held = w.held /\ r \in Open(v) \cup Behind(v)
    BY <2>1, <2>2, <2>5, OfferApprovalKeeps
  <2>7. Open(w) = Open(u) /\ Behind(u) = Behind(w) \cup {r}
    BY <2>2, <2>4 DEF Open, Behind
  <2> QED BY <2>4, <2>6, <2>7 DEF KeepsAsked, SameTexts
<1>2. CASE ~PanelOpen(u) /\ u.approvals = <<>> /\ u.questions # <<>>
  <2> DEFINE l == Tail(u.questions)
             r == Head(u.questions)
             w == [u EXCEPT !.questions = l]
  <2>1. v = OfferQuestion(w, r)
    BY <1>2 DEF NextWaiting
  <2>2. l \in Seq(Asks("question")) /\ r \in Asks("question") /\ ToSet(u.questions) = {r} \cup ToSet(l)
    BY <1>0, <1>2, HeadAndTail DEF UiStates
  <2> HIDE DEF l, r
  <2>3. w \in UiStates
    BY <1>0, <2>2 DEF UiStates
  <2>4. /\ w.approval = u.approval /\ w.question = u.question /\ w.questions = l /\ w.approvals = u.approvals
        /\ SameTexts(u, w) /\ w.held = u.held /\ w.phase = u.phase
    BY <1>0 DEF SameTexts
  <2> HIDE DEF w
  <2>5. IsScreen(w)
    BY <2>3, <2>4 DEF IsScreen, PanelIsShown
  <2>6. IsScreen(v) /\ KeepsAsked(w, v) /\ SameTexts(w, v) /\ v.held = w.held /\ r \in Open(v) \cup Behind(v)
    BY <2>1, <2>2, <2>5, OfferQuestionKeeps
  <2>7. Open(w) = Open(u) /\ Behind(u) = Behind(w) \cup {r}
    BY <2>2, <2>4 DEF Open, Behind
  <2> QED BY <2>4, <2>6, <2>7 DEF KeepsAsked, SameTexts
<1>3. CASE PanelOpen(u) \/ (~PanelOpen(u) /\ u.approvals = <<>> /\ u.questions = <<>>)
  <2>1. v = u
    BY <1>3 DEF NextWaiting
  <2> QED BY <2>1 DEF KeepsAsked, SameTexts
<1> QED BY <1>1, <1>2, <1>3

(* A panel is closed: what it asked is gone, the rest is kept.              *)
LEMMA FinishRunKeeps ==
    ASSUME NEW u, IsScreen(u), NEW v, v = FinishRun(u)
    PROVE  IsScreen(v) /\ SameTexts(u, v) /\ v.held = u.held
<1>0. /\ u = [phase |-> u.phase, approval |-> u.approval, approvals |-> u.approvals, question |-> u.question,
              questions |-> u.questions, before |-> u.before, held |-> u.held, queue |-> u.queue,
              notices |-> u.notices, grant |-> u.grant]
      /\ u \in UiStates
  BY UiIs DEF IsScreen
<1> DEFINE p == IF u.question # NoRequest THEN "input" ELSE "ready"
           none == <<>>
<1>1. v = [u EXCEPT !.approval = NoRequest, !.approvals = none, !.phase = p]
  BY DEF FinishRun
<1>2. none \in Seq(Asks("approval")) /\ p \in {"input", "ready"} /\ (p = "input" => u.question # NoRequest)
  OBVIOUS
<1> HIDE DEF p, none
<1>3. v \in UiStates
  BY <1>0, <1>1, <1>2 DEF UiStates
<1>4. v.phase = p /\ v.question = u.question /\ v.queue = u.queue /\ v.notices = u.notices /\ v.held = u.held
  BY <1>0, <1>1
<1> QED BY <1>2, <1>3, <1>4 DEF IsScreen, PanelIsShown, SameTexts

-----------------------------------------------------------------------------
(* Where a text is, besides the channel.                                    *)
Ways == {"turn", "answer", "too late", "steer"}
Sents == [text : Texts, as : Ways]
SentOf(t) == [text : {t}, as : Ways]

CopiesAt(u, box, said, t) ==
    CountIn(u.queue, {t}) + CountIn(u.notices, {t}) + Cardinality(box \cap {t}) + CountIn(said, SentOf(t))

(* One more copy of t, and of nothing else.                                 *)
OneMore(x, t) == IF x = t THEN 1 ELSE 0

LEMMA BoxCounts == ASSUME NEW box, NEW t PROVE Cardinality(box \cap {t}) = IF t \in box THEN 1 ELSE 0
<1>1. box \cap {t} = IF t \in box THEN {t} ELSE {}
  OBVIOUS
<1> QED BY <1>1, FS_EmptySet, FS_Singleton

LEMMA BoxGrows ==
    ASSUME NEW box, NEW t, t \notin box, NEW x
    PROVE  Cardinality((box \cup {t}) \cap {x}) = Cardinality(box \cap {x}) + OneMore(x, t)
<1>1. CASE x = t
  BY <1>1, BoxCounts DEF OneMore
<1>2. CASE x # t
  <2>1. (box \cup {t}) \cap {x} = box \cap {x}
    BY <1>2
  <2> QED BY <1>2, <2>1, BoxCounts DEF OneMore
<1> QED BY <1>1, <1>2

LEMMA BoxShrinks ==
    ASSUME NEW box, NEW t \in box, NEW x
    PROVE  Cardinality(box \cap {x}) = Cardinality((box \ {t}) \cap {x}) + OneMore(x, t)
<1> DEFINE rest == box \ {t}
<1>1. box = rest \cup {t} /\ t \notin rest
  OBVIOUS
<1> HIDE DEF rest
<1>2. Cardinality((rest \cup {t}) \cap {x}) = Cardinality(rest \cap {x}) + OneMore(x, t)
  BY <1>1, BoxGrows
<1> QED BY <1>1, <1>2 DEF rest

LEMMA CopiesAreNumbers ==
    ASSUME NEW u \in UiStates, NEW box, NEW said \in Seq(Sents), NEW t
    PROVE  /\ CountIn(u.queue, {t}) \in Nat /\ CountIn(u.notices, {t}) \in Nat /\ Cardinality(box \cap {t}) \in Nat
           /\ CountIn(said, SentOf(t)) \in Nat /\ CopiesAt(u, box, said, t) \in Nat
<1>1. u.queue \in Seq(Texts) /\ u.notices \in Seq(Texts)
  BY DEF UiStates
<1>2. CountIn(u.queue, {t}) \in Nat /\ CountIn(u.notices, {t}) \in Nat
  BY <1>1, CountsAreNumbers
<1>3. CountIn(said, SentOf(t)) \in Nat
  BY CountsAreNumbers
<1>4. Cardinality(box \cap {t}) \in Nat
  BY BoxCounts
<1> QED BY <1>2, <1>3, <1>4 DEF CopiesAt

LEMMA SaidCounts ==
    ASSUME NEW texts \in Seq(Texts), NEW as \in Ways
    PROVE  /\ Said(texts, as) \in Seq(Sents)
           /\ \A x : CountIn(Said(texts, as), SentOf(x)) = CountIn(texts, {x})
<1> DEFINE f == Said(texts, as)
<1>1. DOMAIN texts = 1..Len(texts) /\ Len(texts) \in Nat /\ \A i \in 1..Len(texts) : texts[i] \in Texts
  OBVIOUS
<1>2. f = [i \in 1..Len(texts) |-> [text |-> texts[i], as |-> as]]
  BY DEF Said
<1>3. \A i \in 1..Len(texts) : [text |-> texts[i], as |-> as] \in Sents
  BY <1>1 DEF Sents
<1> HIDE DEF f
<1>4. f \in Seq(Sents)
  <2>1. DOMAIN f = 1..Len(texts) /\ f = [i \in 1..Len(texts) |-> f[i]]
    BY <1>2
  <2>2. \A i \in 1..Len(texts) : f[i] \in Sents
    BY <1>2, <1>3
  <2>3. f \in [1..Len(texts) -> Sents]
    BY <2>1, <2>2
  <2> QED BY <1>1, <2>3
<1>5. ASSUME NEW x PROVE CountIn(f, SentOf(x)) = CountIn(texts, {x})
  <2>1. DOMAIN f = DOMAIN texts
    BY <1>1, <1>2
  <2>2. \A i \in DOMAIN texts : f[i] \in SentOf(x) <=> texts[i] \in {x}
    BY <1>1, <1>2 DEF SentOf
  <2> QED BY <2>1, <2>2, PlacesCount
<1> QED BY <1>4, <1>5 DEF f

LEMMA SaysMore ==
    ASSUME NEW texts \in Seq(Texts), NEW as \in Ways, NEW said \in Seq(Sents)
    PROVE  /\ said \o Said(texts, as) \in Seq(Sents)
           /\ \A x : CountIn(said \o Said(texts, as), SentOf(x)) = CountIn(said, SentOf(x)) + CountIn(texts, {x})
<1> DEFINE new == Said(texts, as)
           more == said \o new
<1>1. new \in Seq(Sents) /\ \A x : CountIn(new, SentOf(x)) = CountIn(texts, {x})
  BY SaidCounts
<1> HIDE DEF new
<1>3. more \in Seq(Sents)
  BY <1>1
<1>4. \A x : CountIn(more, SentOf(x)) = CountIn(said, SentOf(x)) + CountIn(new, SentOf(x))
  BY <1>1, CountsAdd
<1> HIDE DEF more
<1>5. more \in Seq(Sents) /\ \A x : CountIn(more, SentOf(x)) = CountIn(said, SentOf(x)) + CountIn(texts, {x})
  BY <1>1, <1>3, <1>4
<1> QED BY <1>5 DEF more, new

LEMMA OneText ==
    ASSUME NEW t \in Texts
    PROVE  <<t>> \in Seq(Texts) /\ \A x : CountIn(<<t>>, {x}) = OneMore(x, t)
<1>1. <<t>> \in Seq(Texts)
  OBVIOUS
<1>2. \A x : CountIn(<<t>>, {x}) = IF t \in {x} THEN 1 ELSE 0
  BY OneIsCounted
<1> QED BY <1>1, <1>2 DEF OneMore

-----------------------------------------------------------------------------
(* What somebody waits on before and after a step keeps its place, seen     *)
(* from u.                                                                  *)
AsksStay(u) ==
    \A r \in waiting \cap waiting' :
        /\ r \in Open(u) => r \in Open(ui')
        /\ r \in Behind(u) => r \in Open(ui') \cup Behind(ui')

(* The part of the session a dispatched text changes.                       *)
SessionTyped ==
    /\ turns \in Seq(BOOLEAN) /\ inbox \subseteq Texts /\ IsFiniteSet(inbox) /\ sent \in Seq(Sents)
    /\ waiting \subseteq Requests /\ IsFiniteSet(waiting) /\ \A r \in waiting : r.by = Root => r.kind = "approval"

(* The controller was u and more texts are about than CopiesAt says.        *)
Dispatched(u, t) ==
    /\ IsScreen(ui') /\ SessionTyped' /\ waiting' \subseteq waiting /\ AsksStay(u)
    /\ \A x \in Texts : CopiesAt(ui', inbox', sent', x) = CopiesAt(u, inbox, sent, x) + OneMore(x, t)

LEMMA QuestionIsAnswered ==
    ASSUME NEW u, IsScreen(u), NEW t \in Texts, SessionTyped, u.question # NoRequest, SubmitQuestionAnswer(u, t)
    PROVE  Dispatched(u, t)
<1> DEFINE closed == [u EXCEPT !.question = NoRequest]
<1>0. /\ u = [phase |-> u.phase, approval |-> u.approval, approvals |-> u.approvals, question |-> u.question,
              questions |-> u.questions, before |-> u.before, held |-> u.held, queue |-> u.queue,
              notices |-> u.notices, grant |-> u.grant]
      /\ u \in UiStates
  BY UiIs DEF IsScreen
<1>1. u.question \in Asks("question")
  BY <1>0 DEF UiStates
<1>2. <<t>> \in Seq(Texts) /\ \A x : CountIn(<<t>>, {x}) = OneMore(x, t)
  BY OneText
<1>3. ASSUME NEW as \in Ways, sent' = sent \o Said(<<t>>, as)
      PROVE  sent' \in Seq(Sents) /\ \A x : CountIn(sent', SentOf(x)) = CountIn(sent, SentOf(x)) + OneMore(x, t)
  <2> DEFINE one == <<t>>
  <2>1. one \in Seq(Texts) /\ sent \in Seq(Sents) /\ sent' = sent \o Said(one, as)
    BY <1>2, <1>3 DEF SessionTyped
  <2>2. \A x : CountIn(one, {x}) = OneMore(x, t)
    BY <1>2
  <2> HIDE DEF one
  <2> DEFINE more == sent \o Said(one, as)
  <2>3. more \in Seq(Sents) /\ \A x : CountIn(more, SentOf(x)) = CountIn(sent, SentOf(x)) + CountIn(one, {x})
    BY <2>1, SaysMore
  <2>4. sent' = more
    BY <2>1
  <2> HIDE DEF more
  <2> QED BY <2>2, <2>3, <2>4
<1>4. ASSUME SameTexts(u, ui'), inbox' = inbox, sent' \in Seq(Sents),
             \A x : CountIn(sent', SentOf(x)) = CountIn(sent, SentOf(x)) + OneMore(x, t)
      PROVE  \A x \in Texts : CopiesAt(ui', inbox', sent', x) = CopiesAt(u, inbox, sent, x) + OneMore(x, t)
  <2> TAKE x \in Texts
  <2>1. /\ CountIn(u.queue, {x}) \in Nat /\ CountIn(u.notices, {x}) \in Nat /\ Cardinality(inbox \cap {x}) \in Nat
        /\ CountIn(sent, SentOf(x)) \in Nat
    BY <1>0, CopiesAreNumbers DEF SessionTyped
  <2> QED BY <1>4, <2>1 DEF CopiesAt, OneMore, SameTexts
<1>5. CASE u.question.by = Root
  <2>1. ui' = [closed EXCEPT !.phase = "running"] /\ Submit(<<t>>, "answer") /\ UNCHANGED <<inbox, waiting>>
    BY <1>5 DEF SubmitQuestionAnswer
  <2>2. ui' \in UiStates
    BY <1>0, <2>1 DEF UiStates
  <2>3. /\ ui'.phase = "running" /\ ui'.approval = u.approval /\ ui'.approvals = u.approvals /\ ui'.questions = u.questions
        /\ SameTexts(u, ui')
    BY <1>0, <2>1 DEF SameTexts
  <2>4. IsScreen(ui')
    BY <2>2, <2>3 DEF IsScreen, PanelIsShown
  <2>5. turns' = Append(turns, FALSE) /\ sent' = sent \o Said(<<t>>, "answer") /\ "answer" \in Ways
    BY <2>1 DEF Submit, Ways
  <2>6. turns' \in Seq(BOOLEAN)
    BY <2>5 DEF SessionTyped
  <2>7. sent' \in Seq(Sents) /\ \A x : CountIn(sent', SentOf(x)) = CountIn(sent, SentOf(x)) + OneMore(x, t)
    BY <1>3, <2>5
  <2>8. \A x \in Texts : CopiesAt(ui', inbox', sent', x) = CopiesAt(u, inbox, sent, x) + OneMore(x, t)
    BY <1>4, <2>1, <2>3, <2>7
  <2>9. AsksStay(u)
    <3>1. \A r \in waiting : r # u.question
      BY <1>1, <1>5 DEF SessionTyped, Asks
    <3> QED BY <2>3, <3>1 DEF AsksStay, Open, Behind
  <2>10. SessionTyped'
    BY <2>1, <2>6, <2>7 DEF SessionTyped
  <2> QED BY <2>1, <2>4, <2>8, <2>9, <2>10 DEF Dispatched
<1>6. CASE u.question.by # Root
  <2> DEFINE p == IF u.before = "none" THEN "running" ELSE u.before
             w == [closed EXCEPT !.before = "none", !.phase = p]
             as == IF u.question \in waiting THEN "answer" ELSE "too late"
  <2>1. /\ ui' = NextWaiting(w) /\ waiting' = waiting \ {u.question} /\ sent' = sent \o Said(<<t>>, as)
        /\ UNCHANGED <<turns, inbox>>
    BY <1>6 DEF SubmitQuestionAnswer
  <2>2. p \in {"running", "ready", "canceling"} /\ as \in Ways
    BY <1>0 DEF UiStates, Ways
  <2> HIDE DEF p, as
  <2>3. w \in UiStates
    BY <1>0, <2>2 DEF UiStates
  <2>4. /\ w.phase = p /\ w.approval = u.approval /\ w.approvals = u.approvals /\ w.questions = u.questions
        /\ SameTexts(u, w)
    BY <1>0 DEF SameTexts
  <2> HIDE DEF w
  <2>5. IsScreen(w)
    BY <2>2, <2>3, <2>4 DEF IsScreen, PanelIsShown
  <2>6. IsScreen(ui') /\ KeepsAsked(w, ui') /\ SameTexts(w, ui')
    BY <2>1, <2>5, NextWaitingKeeps
  <2>7. sent' \in Seq(Sents) /\ \A x : CountIn(sent', SentOf(x)) = CountIn(sent, SentOf(x)) + OneMore(x, t)
    BY <1>3, <2>1, <2>2
  <2>8. \A x \in Texts : CopiesAt(ui', inbox', sent', x) = CopiesAt(u, inbox, sent, x) + OneMore(x, t)
    <3>1. SameTexts(u, ui')
      BY <2>4, <2>6 DEF SameTexts
    <3> QED BY <1>4, <2>1, <2>7, <3>1
  <2>9. AsksStay(u)
    <3> SUFFICES ASSUME NEW r \in waiting \cap waiting'
                 PROVE  /\ r \in Open(u) => r \in Open(ui')
                        /\ r \in Behind(u) => r \in Open(ui') \cup Behind(ui')
      BY DEF AsksStay
    <3>1. r \in Requests /\ r # u.question
      BY <2>1 DEF SessionTyped
    <3>2. (r \in Open(u) => r \in Open(w)) /\ (r \in Behind(u) => r \in Behind(w))
      BY <2>4, <3>1 DEF Open, Behind
    <3> QED BY <2>6, <3>1, <3>2 DEF KeepsAsked
  <2>10. SessionTyped'
    <3>1. IsFiniteSet(waiting')
      BY <2>1, FS_Subset DEF SessionTyped
    <3> QED BY <2>1, <2>7, <3>1 DEF SessionTyped
  <2> QED BY <2>1, <2>6, <2>8, <2>9, <2>10 DEF Dispatched
<1> QED BY <1>5, <1>6

LEMMA RunningTurnTakes ==
    ASSUME NEW u, IsScreen(u), NEW t \in Texts, t \notin inbox, SessionTyped, DispatchWhileRunning(u, t)
    PROVE  Dispatched(u, t)
<1>0. /\ u = [phase |-> u.phase, approval |-> u.approval, approvals |-> u.approvals, question |-> u.question,
              questions |-> u.questions, before |-> u.before, held |-> u.held, queue |-> u.queue,
              notices |-> u.notices, grant |-> u.grant]
      /\ u \in UiStates
  BY UiIs DEF IsScreen
<1>1. UNCHANGED <<turns, waiting, sent>>
  BY DEF DispatchWhileRunning
<1>2. ASSUME NEW x \in Texts
      PROVE  /\ CountIn(u.queue, {x}) \in Nat /\ CountIn(u.notices, {x}) \in Nat /\ Cardinality(inbox \cap {x}) \in Nat
             /\ CountIn(sent, SentOf(x)) \in Nat
  BY <1>0, CopiesAreNumbers DEF SessionTyped
<1>3. CASE inbox' = inbox \cup {t} /\ ui' = u
  <2>1. SessionTyped'
    BY <1>1, <1>3, FS_AddElement DEF SessionTyped
  <2>2. ASSUME NEW x \in Texts PROVE CopiesAt(ui', inbox', sent', x) = CopiesAt(u, inbox, sent, x) + OneMore(x, t)
    <3>1. Cardinality(inbox' \cap {x}) = Cardinality(inbox \cap {x}) + OneMore(x, t)
      BY <1>3, BoxGrows
    <3> QED BY <1>1, <1>2, <1>3, <3>1 DEF CopiesAt, OneMore
  <2> QED BY <1>1, <1>3, <2>1, <2>2 DEF Dispatched, AsksStay
<1>4. CASE ui' = [u EXCEPT !.queue = Append(u.queue, t)] /\ inbox' = inbox
  <2> DEFINE l == Append(u.queue, t)
  <2>0. u.queue \in Seq(Texts)
    BY <1>0 DEF UiStates
  <2>1. l \in Seq(Texts)
    BY <2>0
  <2>2. ASSUME NEW x PROVE CountIn(l, {x}) = CountIn(u.queue, {x}) + OneMore(x, t)
    <3>1. CountIn(l, {x}) = CountIn(u.queue, {x}) + (IF t \in {x} THEN 1 ELSE 0)
      BY <2>0, AppendCounts
    <3> HIDE DEF l
    <3> QED BY <3>1 DEF OneMore
  <2> HIDE DEF l
  <2>3. ui' = [u EXCEPT !.queue = l]
    BY <1>4 DEF l
  <2>4. ui' \in UiStates
    BY <1>0, <2>1, <2>3 DEF UiStates
  <2>5. /\ ui'.phase = u.phase /\ ui'.approval = u.approval /\ ui'.approvals = u.approvals /\ ui'.question = u.question
        /\ ui'.questions = u.questions /\ ui'.queue = l /\ ui'.notices = u.notices
    BY <1>0, <2>3
  <2>6. IsScreen(ui') /\ AsksStay(u)
    BY <2>4, <2>5 DEF IsScreen, PanelIsShown, AsksStay, Open, Behind
  <2>7. ASSUME NEW x \in Texts PROVE CopiesAt(ui', inbox', sent', x) = CopiesAt(u, inbox, sent, x) + OneMore(x, t)
    <3>1. inbox' = inbox /\ sent' = sent
      BY <1>1, <1>4
    <3>2. OneMore(x, t) \in Nat
      BY DEF OneMore
    <3> QED BY <1>2, <2>2, <2>5, <3>1, <3>2 DEF CopiesAt
  <2>8. SessionTyped'
    BY <1>1, <1>4 DEF SessionTyped
  <2> QED BY <1>1, <2>6, <2>7, <2>8 DEF Dispatched
<1> QED BY <1>3, <1>4 DEF DispatchWhileRunning

LEMMA NewTurnTakes ==
    ASSUME NEW u, IsScreen(u), NEW t \in Texts, SessionTyped, StartTurn(u, t)
    PROVE  Dispatched(u, t)
<1> DEFINE folded == IF u.held THEN u.notices ELSE <<>>
           left == IF u.held THEN <<>> ELSE u.notices
           said == <<t>> \o folded
<1>0. /\ u = [phase |-> u.phase, approval |-> u.approval, approvals |-> u.approvals, question |-> u.question,
              questions |-> u.questions, before |-> u.before, held |-> u.held, queue |-> u.queue,
              notices |-> u.notices, grant |-> u.grant]
      /\ u \in UiStates
  BY UiIs DEF IsScreen
<1>1. /\ ui' = [u EXCEPT !.phase = "running", !.held = FALSE, !.notices = left]
      /\ Submit(said, "turn") /\ UNCHANGED <<inbox, waiting>>
  BY DEF StartTurn
<1>2. u.notices \in Seq(Texts) /\ folded \in Seq(Texts) /\ left \in Seq(Texts)
  BY <1>0 DEF UiStates
<1>3. ASSUME NEW x PROVE CountIn(u.notices, {x}) = CountIn(folded, {x}) + CountIn(left, {x})
  <2>1. CountIn(<<>>, {x}) = 0 /\ CountIn(u.notices, {x}) \in Nat
    BY <1>2, NothingIsCounted, CountsAreNumbers
  <2> DEFINE none == <<>>
  <2>2. CountIn(none, {x}) = 0
    BY <2>1
  <2> HIDE DEF none
  <2>3. CASE u.held
    <3>1. folded = u.notices /\ left = none
      BY <2>3 DEF none
    <3> HIDE DEF folded, left
    <3> QED BY <2>1, <2>2, <3>1
  <2>4. CASE ~u.held
    <3>1. folded = none /\ left = u.notices
      BY <2>4 DEF none
    <3> HIDE DEF folded, left
    <3> QED BY <2>1, <2>2, <3>1
  <2> QED BY <2>3, <2>4
<1> HIDE DEF folded, left
<1>4. said \in Seq(Texts) /\ \A x : CountIn(said, {x}) = OneMore(x, t) + CountIn(folded, {x})
  <2> DEFINE one == <<t>>
  <2>1. one \in Seq(Texts) /\ \A x : CountIn(one, {x}) = OneMore(x, t)
    BY OneText
  <2>2. said = one \o folded
    OBVIOUS
  <2> HIDE DEF one, said
  <2>3. said \in Seq(Texts)
    BY <1>2, <2>1, <2>2
  <2>4. \A x : CountIn(said, {x}) = CountIn(one, {x}) + CountIn(folded, {x})
    BY <1>2, <2>1, <2>2, CountsAdd
  <2> QED BY <2>1, <2>3, <2>4
<1> HIDE DEF said
<1>5. turns' = Append(turns, FALSE) /\ sent' = sent \o Said(said, "turn") /\ "turn" \in Ways
  BY <1>1 DEF Submit, Ways
<1>6. sent' \in Seq(Sents) /\ \A x : CountIn(sent', SentOf(x)) = CountIn(sent, SentOf(x)) + CountIn(said, {x})
  <2>1. sent \in Seq(Sents)
    BY DEF SessionTyped
  <2> DEFINE more == sent \o Said(said, "turn")
  <2>2. more \in Seq(Sents) /\ \A x : CountIn(more, SentOf(x)) = CountIn(sent, SentOf(x)) + CountIn(said, {x})
    BY <1>4, <1>5, <2>1, SaysMore
  <2>3. sent' = more
    BY <1>5
  <2> HIDE DEF more
  <2> QED BY <2>2, <2>3
<1>7. turns' \in Seq(BOOLEAN)
  BY <1>5 DEF SessionTyped
<1>8. ui' \in UiStates
  BY <1>0, <1>1, <1>2 DEF UiStates
<1>9. /\ ui'.phase = "running" /\ ui'.approval = u.approval /\ ui'.approvals = u.approvals /\ ui'.question = u.question
      /\ ui'.questions = u.questions /\ ui'.queue = u.queue /\ ui'.notices = left
  BY <1>0, <1>1
<1>10. IsScreen(ui') /\ AsksStay(u)
  BY <1>8, <1>9 DEF IsScreen, PanelIsShown, AsksStay, Open, Behind
<1>11. ASSUME NEW x \in Texts PROVE CopiesAt(ui', inbox', sent', x) = CopiesAt(u, inbox, sent, x) + OneMore(x, t)
  <2>1. /\ CountIn(u.queue, {x}) \in Nat /\ CountIn(u.notices, {x}) \in Nat /\ Cardinality(inbox \cap {x}) \in Nat
        /\ CountIn(sent, SentOf(x)) \in Nat
    BY <1>0, CopiesAreNumbers DEF SessionTyped
  <2>2. CountIn(folded, {x}) \in Nat /\ CountIn(left, {x}) \in Nat
    BY <1>2, CountsAreNumbers
  <2>3. OneMore(x, t) \in Nat /\ inbox' = inbox
    BY <1>1 DEF OneMore
  <2>4. /\ CountIn(u.notices, {x}) = CountIn(folded, {x}) + CountIn(left, {x})
        /\ CountIn(sent', SentOf(x)) = CountIn(sent, SentOf(x)) + OneMore(x, t) + CountIn(folded, {x})
        /\ CountIn(ui'.queue, {x}) = CountIn(u.queue, {x}) /\ CountIn(ui'.notices, {x}) = CountIn(left, {x})
    <3>1. CountIn(sent', SentOf(x)) = CountIn(sent, SentOf(x)) + CountIn(said, {x})
      BY <1>6
    <3>2. CountIn(said, {x}) = OneMore(x, t) + CountIn(folded, {x})
      BY <1>4
    <3>3. CountIn(sent', SentOf(x)) = CountIn(sent, SentOf(x)) + OneMore(x, t) + CountIn(folded, {x})
      BY <2>1, <2>2, <2>3, <3>1, <3>2
    <3>4. CountIn(u.notices, {x}) = CountIn(folded, {x}) + CountIn(left, {x})
      BY <1>3
    <3> QED BY <1>9, <3>3, <3>4
  <2> QED BY <2>1, <2>2, <2>3, <2>4 DEF CopiesAt
<1>12. SessionTyped'
  BY <1>1, <1>6, <1>7 DEF SessionTyped
<1> QED BY <1>1, <1>10, <1>11, <1>12 DEF Dispatched

LEMMA DispatchKeeps ==
    ASSUME NEW u, IsScreen(u), NEW t \in Texts, t \notin inbox, SessionTyped, Dispatch(u, t)
    PROVE  Dispatched(u, t)
<1>1. CASE u.phase = "input" /\ u.question # NoRequest
  BY <1>1, QuestionIsAnswered DEF Dispatch, HasActiveRun
<1>2. CASE ~(u.phase = "input" /\ u.question # NoRequest) /\ HasActiveRun(u)
  BY <1>2, RunningTurnTakes DEF Dispatch
<1>3. CASE ~(u.phase = "input" /\ u.question # NoRequest) /\ ~HasActiveRun(u)
  BY <1>3, NewTurnTakes DEF Dispatch
<1> QED BY <1>1, <1>2, <1>3

(* The first in a queue is dispatched: it is nowhere else.                  *)
Moved(u) ==
    /\ IsScreen(ui') /\ SessionTyped' /\ waiting' \subseteq waiting /\ AsksStay(u)
    /\ \A x \in Texts : CopiesAt(ui', inbox', sent', x) = CopiesAt(u, inbox, sent, x)

LEMMA NextQueuedMoves ==
    ASSUME NEW u, IsScreen(u), u.queue # <<>>, SessionTyped, \A x \in Texts : CopiesAt(u, inbox, sent, x) <= 1,
           RunNextQueued(u)
    PROVE  Moved(u)
<1> DEFINE l == Tail(u.queue)
           t == Head(u.queue)
           w == [u EXCEPT !.queue = l]
<1>0. /\ u = [phase |-> u.phase, approval |-> u.approval, approvals |-> u.approvals, question |-> u.question,
              questions |-> u.questions, before |-> u.before, held |-> u.held, queue |-> u.queue,
              notices |-> u.notices, grant |-> u.grant]
      /\ u \in UiStates /\ u.queue \in Seq(Texts)
  BY UiIs DEF IsScreen, UiStates
<1>1. l \in Seq(Texts) /\ t \in Texts
  BY <1>0
<1>2. ASSUME NEW x PROVE CountIn(u.queue, {x}) = CountIn(l, {x}) + OneMore(x, t)
  <2>1. CountIn(u.queue, {x}) = CountIn(l, {x}) + (IF t \in {x} THEN 1 ELSE 0)
    BY <1>0, TailCounts
  <2> HIDE DEF l, t
  <2> QED BY <2>1 DEF OneMore
<1>3. Dispatch(w, t)
  BY DEF RunNextQueued
<1> HIDE DEF l, t
<1>4. w \in UiStates
  BY <1>0, <1>1 DEF UiStates
<1>5. /\ w.phase = u.phase /\ w.approval = u.approval /\ w.approvals = u.approvals /\ w.question = u.question
      /\ w.questions = u.questions /\ w.queue = l /\ w.notices = u.notices
  BY <1>0
<1> HIDE DEF w
<1>6. IsScreen(w) /\ Open(w) = Open(u) /\ Behind(w) = Behind(u)
  BY <1>4, <1>5 DEF IsScreen, PanelIsShown, Open, Behind
<1>7. ASSUME NEW x \in Texts
      PROVE  /\ CopiesAt(u, inbox, sent, x) = CopiesAt(w, inbox, sent, x) + OneMore(x, t)
             /\ CopiesAt(w, inbox, sent, x) \in Nat /\ Cardinality(inbox \cap {x}) <= CopiesAt(w, inbox, sent, x)
  <2>1. /\ CountIn(w.queue, {x}) \in Nat /\ CountIn(w.notices, {x}) \in Nat /\ Cardinality(inbox \cap {x}) \in Nat
        /\ CountIn(sent, SentOf(x)) \in Nat
    BY <1>4, CopiesAreNumbers DEF SessionTyped
  <2>2. CountIn(u.queue, {x}) = CountIn(w.queue, {x}) + OneMore(x, t) /\ u.notices = w.notices
    BY <1>2, <1>5
  <2> QED BY <2>1, <2>2 DEF CopiesAt, OneMore
<1>8. t \notin inbox
  <2>1. CopiesAt(u, inbox, sent, t) <= 1 /\ CopiesAt(u, inbox, sent, t) = CopiesAt(w, inbox, sent, t) + 1
    BY <1>1, <1>7 DEF OneMore
  <2>2. Cardinality(inbox \cap {t}) = IF t \in inbox THEN 1 ELSE 0
    BY BoxCounts
  <2>3. CopiesAt(w, inbox, sent, t) \in Nat /\ Cardinality(inbox \cap {t}) <= CopiesAt(w, inbox, sent, t)
    BY <1>1, <1>7
  <2> QED BY <2>1, <2>2, <2>3
<1>9. Dispatched(w, t)
  BY <1>1, <1>3, <1>6, <1>8, DispatchKeeps
<1> QED BY <1>6, <1>7, <1>9 DEF Dispatched, Moved, AsksStay

LEMMA NextNoticeMoves ==
    ASSUME NEW u, IsScreen(u), u.notices # <<>>, SessionTyped, \A x \in Texts : CopiesAt(u, inbox, sent, x) <= 1,
           ReadNextNotice(u)
    PROVE  Moved(u)
<1> DEFINE l == Tail(u.notices)
           t == Head(u.notices)
           w == [u EXCEPT !.notices = l]
<1>0. /\ u = [phase |-> u.phase, approval |-> u.approval, approvals |-> u.approvals, question |-> u.question,
              questions |-> u.questions, before |-> u.before, held |-> u.held, queue |-> u.queue,
              notices |-> u.notices, grant |-> u.grant]
      /\ u \in UiStates /\ u.notices \in Seq(Texts)
  BY UiIs DEF IsScreen, UiStates
<1>1. l \in Seq(Texts) /\ t \in Texts
  BY <1>0
<1>2. ASSUME NEW x PROVE CountIn(u.notices, {x}) = CountIn(l, {x}) + OneMore(x, t)
  <2>1. CountIn(u.notices, {x}) = CountIn(l, {x}) + (IF t \in {x} THEN 1 ELSE 0)
    BY <1>0, TailCounts
  <2> HIDE DEF l, t
  <2> QED BY <2>1 DEF OneMore
<1>3. Dispatch(w, t)
  BY DEF ReadNextNotice
<1> HIDE DEF l, t
<1>4. w \in UiStates
  BY <1>0, <1>1 DEF UiStates
<1>5. /\ w.phase = u.phase /\ w.approval = u.approval /\ w.approvals = u.approvals /\ w.question = u.question
      /\ w.questions = u.questions /\ w.queue = u.queue /\ w.notices = l
  BY <1>0
<1> HIDE DEF w
<1>6. IsScreen(w) /\ Open(w) = Open(u) /\ Behind(w) = Behind(u)
  BY <1>4, <1>5 DEF IsScreen, PanelIsShown, Open, Behind
<1>7. ASSUME NEW x \in Texts
      PROVE  /\ CopiesAt(u, inbox, sent, x) = CopiesAt(w, inbox, sent, x) + OneMore(x, t)
             /\ CopiesAt(w, inbox, sent, x) \in Nat /\ Cardinality(inbox \cap {x}) <= CopiesAt(w, inbox, sent, x)
  <2>1. /\ CountIn(w.queue, {x}) \in Nat /\ CountIn(w.notices, {x}) \in Nat /\ Cardinality(inbox \cap {x}) \in Nat
        /\ CountIn(sent, SentOf(x)) \in Nat
    BY <1>4, CopiesAreNumbers DEF SessionTyped
  <2>2. CountIn(u.notices, {x}) = CountIn(w.notices, {x}) + OneMore(x, t) /\ u.queue = w.queue
    BY <1>2, <1>5
  <2> QED BY <2>1, <2>2 DEF CopiesAt, OneMore
<1>8. t \notin inbox
  <2>1. CopiesAt(u, inbox, sent, t) <= 1 /\ CopiesAt(u, inbox, sent, t) = CopiesAt(w, inbox, sent, t) + 1
    BY <1>1, <1>7 DEF OneMore
  <2>2. Cardinality(inbox \cap {t}) = IF t \in inbox THEN 1 ELSE 0
    BY BoxCounts
  <2>3. CopiesAt(w, inbox, sent, t) \in Nat /\ Cardinality(inbox \cap {t}) <= CopiesAt(w, inbox, sent, t)
    BY <1>1, <1>7
  <2> QED BY <2>1, <2>2, <2>3
<1>9. Dispatched(w, t)
  BY <1>1, <1>3, <1>6, <1>8, DispatchKeeps
<1> QED BY <1>6, <1>7, <1>9 DEF Dispatched, Moved, AsksStay

-----------------------------------------------------------------------------
(* The whole session.                                                       *)
ScreenEvents ==
    [kind : {"approval", "expired"}, about : Asks("approval")] \cup [kind : {"question"}, about : Asks("question")]
      \cup [kind : {"unread", "settled"}, about : Texts] \cup [kind : {"terminal", "error"}, about : BOOLEAN]

(* The events that bring t.                                                 *)
Carriers(t) == [kind : {"unread", "settled"}, about : {t}]

Carried(e, t) == IF e \in Carriers(t) THEN 1 ELSE 0

(* Typed so far, or the report of a child that is gone.                     *)
Made(t) == IF (t.from = "user" /\ t.id <= typed) \/ (t.from = "child" /\ child[t.id] = "gone") THEN 1 ELSE 0

EventsTyped ==
    /\ child \in [Children -> {"running", "stopping", "gone"}]
    /\ asked \in [Children \cup {Root} -> 0..MaxAsks] /\ events \in Seq(ScreenEvents) /\ typed \in 0..MaxTyped

(* A request was counted when it was made, and nobody waits on one that     *)
(* expired.                                                                 *)
ExpiredAreOver ==
    /\ \A r \in waiting : r.n <= asked[r.by]
    /\ \A e \in ToSet(events) : e.kind = "expired" => e.about.n <= asked[e.about.by] /\ e.about \notin waiting

OneCopy == \A t \in Texts : CopiesAt(ui, inbox, sent, t) + CountIn(events, Carriers(t)) = Made(t)

KeepInv == IsScreen(ui) /\ SessionTyped /\ EventsTyped /\ ExpiredAreOver /\ OneCopy

LEMMA MadeIsNumber == \A t : Made(t) \in {0, 1}
BY DEF Made

LEMMA AtMostOneCopy ==
    ASSUME KeepInv, NEW x \in Texts
    PROVE  /\ CopiesAt(ui, inbox, sent, x) \in Nat /\ CountIn(events, Carriers(x)) \in Nat
           /\ CopiesAt(ui, inbox, sent, x) + CountIn(events, Carriers(x)) = Made(x)
           /\ CopiesAt(ui, inbox, sent, x) <= 1
<1>1. CopiesAt(ui, inbox, sent, x) \in Nat
  BY CopiesAreNumbers DEF KeepInv, IsScreen, SessionTyped
<1>2. CountIn(events, Carriers(x)) \in Nat
  BY CountsAreNumbers DEF KeepInv, EventsTyped
<1>3. CopiesAt(ui, inbox, sent, x) + CountIn(events, Carriers(x)) = Made(x)
  BY DEF KeepInv, OneCopy
<1> QED BY <1>1, <1>2, <1>3, MadeIsNumber

(* A text that an event brings has not reached the turn.                    *)
LEMMA BroughtIsNew ==
    ASSUME KeepInv, events # <<>>, NEW x \in Texts, Head(events) \in Carriers(x)
    PROVE  x \notin inbox
<1>1. events \in Seq(ScreenEvents)
  BY DEF KeepInv, EventsTyped
<1>2. CountIn(events, Carriers(x)) = CountIn(Tail(events), Carriers(x)) + 1
  BY <1>1, TailCounts
<1>3. Tail(events) \in Seq(ScreenEvents)
  BY <1>1
<1>4. CountIn(Tail(events), Carriers(x)) \in Nat
  BY <1>3, CountsAreNumbers
<1>5. CopiesAt(ui, inbox, sent, x) = 0
  BY <1>2, <1>4, AtMostOneCopy, MadeIsNumber
<1>6. /\ CountIn(ui.queue, {x}) \in Nat /\ CountIn(ui.notices, {x}) \in Nat /\ Cardinality(inbox \cap {x}) \in Nat
      /\ CountIn(sent, SentOf(x)) \in Nat
  BY CopiesAreNumbers DEF KeepInv, IsScreen, SessionTyped
<1>7. Cardinality(inbox \cap {x}) = 0
  BY <1>5, <1>6 DEF CopiesAt
<1> QED BY <1>7, BoxCounts

(* Something is put into the channel that brings no text.                   *)
LEMMA NewsIsPut ==
    ASSUME KeepInv, NEW e \in ScreenEvents, e.kind \notin {"unread", "settled"}, events' = Append(events, e),
           UNCHANGED <<ui, inbox, sent, typed>>, turns' \in Seq(BOOLEAN), child' = child,
           waiting' \subseteq Requests, IsFiniteSet(waiting'), \A r \in waiting' : r.by = Root => r.kind = "approval",
           asked' \in [Children \cup {Root} -> 0..MaxAsks], \A r \in waiting' : r.n <= asked'[r.by],
           \A d \in ToSet(events) \cup {e} : d.kind = "expired" => d.about.n <= asked'[d.about.by] /\ d.about \notin waiting'
    PROVE  KeepInv' /\ AsksStay(ui)
<1>1. events \in Seq(ScreenEvents)
  BY DEF KeepInv, EventsTyped
<1>2. events' \in Seq(ScreenEvents) /\ ToSet(events') = ToSet(events) \cup {e}
  BY <1>1, AppendAdds
<1>3. EventsTyped'
  BY <1>2 DEF KeepInv, EventsTyped
<1>4. ExpiredAreOver'
  BY <1>2 DEF ExpiredAreOver
<1>5. OneCopy'
  <2> SUFFICES ASSUME NEW t \in Texts PROVE (CopiesAt(ui, inbox, sent, t) + CountIn(events, Carriers(t)) = Made(t))'
    BY DEF OneCopy
  <2>1. e \notin Carriers(t)
    BY DEF Carriers
  <2>2. CountIn(events', Carriers(t)) = CountIn(events, Carriers(t)) + 0
    BY <1>1, <2>1, AppendCounts
  <2>3. CountIn(events, Carriers(t)) \in Nat /\ CopiesAt(ui, inbox, sent, t) + CountIn(events, Carriers(t)) = Made(t)
    BY AtMostOneCopy
  <2>4. Made(t)' = Made(t) /\ CopiesAt(ui', inbox', sent', t) = CopiesAt(ui, inbox, sent, t)
    BY DEF Made
  <2> QED BY <2>2, <2>3, <2>4
<1>6. SessionTyped'
  BY DEF KeepInv, SessionTyped
<1>7. AsksStay(ui)
  BY DEF AsksStay
<1> QED BY <1>3, <1>4, <1>5, <1>6, <1>7 DEF KeepInv

(* An event is taken: what it brought is somewhere else.                    *)
LEMMA NewsIsTaken ==
    ASSUME KeepInv, events # <<>>, events' = Tail(events), UNCHANGED <<child, asked, typed>>, IsScreen(ui'), SessionTyped',
           waiting' \subseteq waiting,
           \A x \in Texts : CopiesAt(ui', inbox', sent', x) = CopiesAt(ui, inbox, sent, x) + Carried(Head(events), x)
    PROVE  KeepInv'
<1>1. events \in Seq(ScreenEvents)
  BY DEF KeepInv, EventsTyped
<1>2. events' \in Seq(ScreenEvents) /\ ToSet(events) = {Head(events)} \cup ToSet(events')
  BY <1>1, HeadAndTail
<1>3. EventsTyped'
  BY <1>2 DEF KeepInv, EventsTyped
<1>4. ExpiredAreOver'
  BY <1>2 DEF KeepInv, ExpiredAreOver
<1>5. OneCopy'
  <2> SUFFICES ASSUME NEW t \in Texts PROVE (CopiesAt(ui, inbox, sent, t) + CountIn(events, Carriers(t)) = Made(t))'
    BY DEF OneCopy
  <2>1. CountIn(events, Carriers(t)) = CountIn(events', Carriers(t)) + Carried(Head(events), t)
    BY <1>1, TailCounts DEF Carried
  <2>2. CountIn(events', Carriers(t)) \in Nat
    BY <1>2, CountsAreNumbers
  <2>3. CopiesAt(ui, inbox, sent, t) \in Nat /\ CopiesAt(ui, inbox, sent, t) + CountIn(events, Carriers(t)) = Made(t)
    BY AtMostOneCopy
  <2>4. Made(t)' = Made(t) /\ Carried(Head(events), t) \in Nat
    BY DEF Made, Carried
  <2> QED BY <2>1, <2>2, <2>3, <2>4
<1> QED BY <1>3, <1>4, <1>5 DEF KeepInv

(* The channel stays as it is.                                              *)
LEMMA NoNews ==
    ASSUME KeepInv, UNCHANGED <<child, asked, events>>, typed' \in 0..MaxTyped, IsScreen(ui'), SessionTyped',
           waiting' \subseteq waiting,
           \A x \in Texts : CopiesAt(ui', inbox', sent', x) = CopiesAt(ui, inbox, sent, x) + (Made(x)' - Made(x))
    PROVE  KeepInv'
<1>1. EventsTyped' /\ ExpiredAreOver'
  BY DEF KeepInv, EventsTyped, ExpiredAreOver
<1>2. OneCopy'
  <2> SUFFICES ASSUME NEW t \in Texts PROVE (CopiesAt(ui, inbox, sent, t) + CountIn(events, Carriers(t)) = Made(t))'
    BY DEF OneCopy
  <2>1. /\ CopiesAt(ui, inbox, sent, t) \in Nat /\ CountIn(events, Carriers(t)) \in Nat
        /\ CopiesAt(ui, inbox, sent, t) + CountIn(events, Carriers(t)) = Made(t)
    BY AtMostOneCopy
  <2>2. Made(t) \in {0, 1} /\ Made(t)' \in {0, 1}
    BY MadeIsNumber DEF Made
  <2> QED BY <2>1, <2>2
<1> QED BY <1>1, <1>2 DEF KeepInv

-----------------------------------------------------------------------------
(* The service and the children.                                            *)
AskStep ==
    \A r \in waiting \cap waiting' :
        \/ events # <<>> /\ Head(events).kind \in {"terminal", "error"}
        \/ /\ r \in Open(ui) => r \in Open(ui')
           /\ r \in Behind(ui) => r \in Open(ui') \cup Behind(ui')

Keeps == KeepInv' /\ AskStep

LEMMA StaysKeeps == ASSUME KeepInv', AsksStay(ui) PROVE Keeps
BY DEF Keeps, AskStep, AsksStay

LEMMA QuietKeeps ==
    ASSUME KeepInv, UNCHANGED <<child, asked, events, typed>>, IsScreen(ui'), SessionTyped', waiting' \subseteq waiting,
           AsksStay(ui), \A x \in Texts : CopiesAt(ui', inbox', sent', x) = CopiesAt(ui, inbox, sent, x)
    PROVE  Keeps
<1>1. typed' \in 0..MaxTyped
  BY DEF KeepInv, EventsTyped
<1>2. \A x \in Texts : CopiesAt(ui', inbox', sent', x) = CopiesAt(ui, inbox, sent, x) + (Made(x)' - Made(x))
  <2> TAKE x \in Texts
  <2>1. Made(x)' = Made(x) /\ Made(x) \in {0, 1}
    BY MadeIsNumber DEF Made
  <2> QED BY <2>1, AtMostOneCopy
<1>3. KeepInv'
  BY <1>1, <1>2, NoNews
<1> QED BY <1>3, StaysKeeps

(* Nothing that is shown, kept or sent changes.                             *)
LEMMA NothingMoves ==
    ASSUME KeepInv, UNCHANGED <<ui, turns, inbox, child, waiting, asked, events, sent, typed>>
    PROVE  Keeps
<1>1. IsScreen(ui') /\ SessionTyped' /\ AsksStay(ui)
  BY DEF KeepInv, SessionTyped, AsksStay
<1> QED BY <1>1, QuietKeeps

LEMMA NewRequest ==
    ASSUME KeepInv, NEW a \in Children \cup {Root}, NEW kind \in {"approval", "question"}, NEW r,
           r = [by |-> a, kind |-> kind, n |-> asked[a] + 1], asked[a] < MaxAsks, a = Root => kind = "approval",
           waiting' = waiting \cup {r}, asked' = [asked EXCEPT ![a] = @ + 1], events' = Append(events, Event(kind, r)),
           UNCHANGED <<ui, turns, inbox, child, lookups, sent, typed>>
    PROVE  Keeps
<1>1. asked \in [Children \cup {Root} -> 0..MaxAsks] /\ MaxAsks \in Nat /\ asked[a] \in Nat /\ asked[a] + 1 \in 1..MaxAsks
  BY ScreenAssumption DEF KeepInv, EventsTyped
<1>2. r \in Asks(kind)
  BY <1>1 DEF Asks, Requests
<1>3. Event(kind, r) \in ScreenEvents /\ Event(kind, r).kind = kind
  BY <1>2 DEF Event, ScreenEvents
<1>4. asked' \in [Children \cup {Root} -> 0..MaxAsks] /\ asked'[a] = asked[a] + 1
      /\ \A b \in Children \cup {Root} : asked'[b] >= asked[b]
  BY <1>1
<1>5. /\ waiting' \subseteq Requests /\ IsFiniteSet(waiting') /\ \A q \in waiting' : q.by = Root => q.kind = "approval"
  <2>1. r \in Requests
    BY <1>2, AsksAreRequests
  <2>2. waiting \subseteq Requests /\ IsFiniteSet(waiting) /\ \A q \in waiting : q.by = Root => q.kind = "approval"
    BY DEF KeepInv, SessionTyped
  <2>3. IsFiniteSet(waiting')
    BY <2>2, FS_AddElement
  <2> QED BY <2>1, <2>2, <2>3
<1>6. ASSUME NEW d \in ToSet(events), d.kind = "expired"
      PROVE  d.about.n <= asked'[d.about.by] /\ d.about \notin waiting'
  <2>1. d \in ScreenEvents
    BY ElementsAreTyped DEF KeepInv, EventsTyped
  <2>2. d.about \in Asks("approval")
    BY <1>6, <2>1 DEF ScreenEvents
  <2>3. d.about.by \in Children \cup {Root} /\ d.about.n \in Nat
    BY <2>2 DEF Asks, Requests
  <2>4. d.about.n <= asked[d.about.by] /\ d.about \notin waiting
    BY <1>6 DEF KeepInv, ExpiredAreOver
  <2>5. asked[d.about.by] \in Nat /\ asked'[d.about.by] \in Nat
    BY <1>1, <1>4, <2>3
  <2>6. d.about # r
    BY <1>1, <2>4
  <2> QED BY <1>4, <2>3, <2>4, <2>5, <2>6
<1>7. turns' \in Seq(BOOLEAN)
  BY DEF KeepInv, SessionTyped
<1>8. ASSUME NEW q \in waiting' PROVE q.n <= asked'[q.by]
  <2>1. CASE q = r
    BY <1>4, <2>1
  <2>2. CASE q \in waiting
    <3>1. q.by \in Children \cup {Root} /\ q.n \in Nat
      BY <2>2 DEF KeepInv, SessionTyped, Requests
    <3>2. q.n <= asked[q.by] /\ asked[q.by] \in Nat /\ asked'[q.by] \in Nat
      BY <1>1, <1>4, <2>2, <3>1 DEF KeepInv, ExpiredAreOver
    <3> QED BY <1>4, <3>1, <3>2
  <2> QED BY <2>1, <2>2
<1>9. KeepInv' /\ AsksStay(ui)
  BY <1>3, <1>4, <1>5, <1>6, <1>7, <1>8, NewsIsPut
<1> QED BY <1>9, StaysKeeps

LEMMA AsksApprovalKeeps == ASSUME KeepInv, NEW a \in Children \cup {Root}, AsksApproval(a) PROVE Keeps
BY NewRequest DEF AsksApproval

LEMMA ChildAsksKeeps == ASSUME KeepInv, NEW c \in Children, ChildAsks(c) PROVE Keeps
<1>1. c # Root
  BY ScreenAssumption
<1> QED BY <1>1, NewRequest DEF ChildAsks

(* Nothing is asked: what expired stays so.                                 *)
LEMMA StillOver ==
    ASSUME KeepInv, asked' = asked, waiting' \subseteq waiting, NEW d \in ToSet(events), d.kind = "expired"
    PROVE  d.about.n <= asked'[d.about.by] /\ d.about \notin waiting'
BY DEF KeepInv, ExpiredAreOver

LEMMA TimesOutKeeps == ASSUME KeepInv, NEW r \in waiting, ApprovalTimesOut(r) PROVE Keeps
<1>1. /\ r.kind = "approval" /\ waiting' = waiting \ {r} /\ events' = Append(events, Event("expired", r))
      /\ UNCHANGED <<ui, turns, inbox, child, asked, lookups, sent, typed>>
  BY DEF ApprovalTimesOut
<1>2. r \in Asks("approval")
  BY <1>1 DEF KeepInv, SessionTyped, Asks
<1> DEFINE e == Event("expired", r)
<1>3. e \in ScreenEvents /\ e.kind = "expired" /\ e.about = r
  BY <1>2 DEF Event, ScreenEvents
<1>4. waiting' \subseteq Requests /\ IsFiniteSet(waiting') /\ \A q \in waiting' : q.by = Root => q.kind = "approval"
  <2>1. IsFiniteSet(waiting')
    BY <1>1, FS_RemoveElement DEF KeepInv, SessionTyped
  <2> QED BY <1>1, <2>1 DEF KeepInv, SessionTyped
<1>5. \A q \in waiting : q.n <= asked'[q.by]
  BY <1>1 DEF KeepInv, ExpiredAreOver
<1> HIDE DEF e
<1>6. \A d \in ToSet(events) \cup {e} : d.kind = "expired" => d.about.n <= asked'[d.about.by] /\ d.about \notin waiting'
  BY <1>1, <1>3, <1>5, StillOver
<1>7. turns' \in Seq(BOOLEAN) /\ asked' \in [Children \cup {Root} -> 0..MaxAsks]
  BY <1>1 DEF KeepInv, SessionTyped, EventsTyped
<1>8. KeepInv' /\ AsksStay(ui)
  BY <1>1, <1>3, <1>4, <1>5, <1>6, <1>7, NewsIsPut DEF e
<1> QED BY <1>8, StaysKeeps

(* What else puts one event into the channel.                               *)
LEMMA OnlyNews ==
    ASSUME KeepInv, NEW e \in ScreenEvents, e.kind \in {"terminal", "error"}, events' = Append(events, e),
           UNCHANGED <<ui, inbox, child, waiting, asked, sent, typed>>, turns' \in Seq(BOOLEAN)
    PROVE  Keeps
<1>1. \A d \in ToSet(events) \cup {e} : d.kind = "expired" => d.about.n <= asked'[d.about.by] /\ d.about \notin waiting'
  BY StillOver
<1>2. /\ waiting' \subseteq Requests /\ IsFiniteSet(waiting') /\ \A q \in waiting' : q.by = Root => q.kind = "approval"
      /\ asked' \in [Children \cup {Root} -> 0..MaxAsks] /\ \A q \in waiting' : q.n <= asked'[q.by]
  BY DEF KeepInv, SessionTyped, EventsTyped, ExpiredAreOver
<1>3. KeepInv' /\ AsksStay(ui)
  BY <1>1, <1>2, NewsIsPut
<1> QED BY <1>3, StaysKeeps

LEMMA TurnBreaksKeeps == ASSUME KeepInv, NEW twice \in BOOLEAN, TurnBreaks(twice) PROVE Keeps
<1>1. Event("error", FALSE) \in ScreenEvents /\ Event("error", FALSE).kind = "error"
  BY DEF Event, ScreenEvents
<1>2. /\ turns # <<>> /\ (turns' = turns \/ turns' = Tail(turns)) /\ events' = Append(events, Event("error", FALSE))
      /\ UNCHANGED <<ui, inbox, child, waiting, asked, lookups, sent, typed>>
  BY DEF TurnBreaks, TurnWorks
<1>3. turns' \in Seq(BOOLEAN)
  <2>1. turns \in Seq(BOOLEAN) /\ turns # <<>>
    BY <1>2 DEF KeepInv, SessionTyped
  <2>2. Tail(turns) \in Seq(BOOLEAN)
    BY <2>1
  <2> QED BY <1>2, <2>1, <2>2
<1> QED BY <1>1, <1>2, <1>3, OnlyNews

LEMMA TurnEndsKeeps == ASSUME KeepInv, EndInv, TurnEnds PROVE Keeps
<1> DEFINE e == Event("terminal", ending.stopped)
<1>1. turns # <<>> /\ ending.stopped \in BOOLEAN
  BY DEF EndInv, TurnEnds
<1>2. e \in ScreenEvents /\ e.kind = "terminal"
  BY <1>1 DEF Event, ScreenEvents
<1>3. turns' = Tail(turns) /\ events' = Append(events, e) /\ UNCHANGED <<ui, inbox, child, waiting, asked, sent, typed>>
  BY DEF TurnEnds
<1> HIDE DEF e
<1>4. turns' \in Seq(BOOLEAN)
  BY <1>1, <1>3 DEF KeepInv, SessionTyped
<1> QED BY <1>2, <1>3, <1>4, OnlyNews

(* A question of the turn, or the error in its place.                       *)
LEMMA QuestionIsCounted ==
    ASSUME KeepInv, NEW e \in ScreenEvents, e.kind \in {"question", "error"}, events' = Append(events, e),
           asked[Root] < MaxAsks, asked' = [asked EXCEPT ![Root] = @ + 1],
           UNCHANGED <<ui, turns, inbox, child, waiting, sent, typed>>
    PROVE  Keeps
<1>1. asked \in [Children \cup {Root} -> 0..MaxAsks] /\ MaxAsks \in Nat
  BY ScreenAssumption DEF KeepInv, EventsTyped
<1>2. asked' \in [Children \cup {Root} -> 0..MaxAsks] /\ \A b \in Children \cup {Root} : asked'[b] >= asked[b]
  BY <1>1
<1>3. ASSUME NEW r \in Requests, r.n <= asked[r.by] PROVE r.n <= asked'[r.by]
  <2>1. r.by \in Children \cup {Root} /\ r.n \in Nat
    BY DEF Requests
  <2>2. asked[r.by] \in Nat /\ asked'[r.by] \in Nat
    BY <1>1, <1>2, <2>1
  <2> QED BY <1>2, <1>3, <2>1, <2>2
<1>4. \A r \in waiting' : r.n <= asked'[r.by]
  BY <1>3 DEF KeepInv, SessionTyped, ExpiredAreOver
<1>5. ASSUME NEW d \in ToSet(events) \cup {e}, d.kind = "expired"
      PROVE  d.about.n <= asked'[d.about.by] /\ d.about \notin waiting'
  <2>1. d \in ToSet(events)
    BY <1>5
  <2>2. d \in ScreenEvents
    BY <2>1, ElementsAreTyped DEF KeepInv, EventsTyped
  <2>3. d.about \in Requests
    BY <1>5, <2>2 DEF ScreenEvents, Asks
  <2>4. d.about.n <= asked[d.about.by] /\ d.about \notin waiting
    BY <1>5, <2>1 DEF KeepInv, ExpiredAreOver
  <2> QED BY <1>3, <2>3, <2>4
<1>6. /\ waiting' \subseteq Requests /\ IsFiniteSet(waiting') /\ \A q \in waiting' : q.by = Root => q.kind = "approval"
      /\ turns' \in Seq(BOOLEAN)
  BY DEF KeepInv, SessionTyped
<1>7. KeepInv' /\ AsksStay(ui)
  BY <1>2, <1>4, <1>5, <1>6, NewsIsPut
<1> QED BY <1>7, StaysKeeps

LEMMA LoopEndsKeeps == ASSUME KeepInv, NEW asks \in BOOLEAN, LoopEnds(asks) PROVE Keeps
<1> DEFINE ask == [by |-> Root, kind |-> "question", n |-> asked[Root] + 1]
           q == Event("question", ask)
           none == Event("error", FALSE)
<1>1. UNCHANGED <<ui, turns, inbox, child, waiting, sent, typed>>
  BY DEF LoopEnds
<1>2. CASE asks
  <2>1. asked[Root] < MaxAsks /\ asked' = [asked EXCEPT ![Root] = @ + 1] /\ (events' = Append(events, q) \/ events' = Append(events, none))
    BY <1>2 DEF LoopEnds
  <2>2. asked[Root] \in Nat /\ asked[Root] + 1 \in 1..MaxAsks
    BY <2>1, ScreenAssumption DEF KeepInv, EventsTyped
  <2>3. ask \in Asks("question")
    BY <2>2 DEF Asks, Requests
  <2> HIDE DEF ask
  <2>4. q \in ScreenEvents /\ q.kind = "question" /\ none \in ScreenEvents /\ none.kind = "error"
    BY <2>3 DEF Event, ScreenEvents
  <2> HIDE DEF q, none
  <2> QED BY <1>1, <2>1, <2>4, QuestionIsCounted
<1>3. CASE ~asks
  <2>1. asked' = asked /\ events' = events
    BY <1>3 DEF LoopEnds
  <2> QED BY <1>1, <2>1, NothingMoves
<1> QED BY <1>2, <1>3

LEMMA InboxClosesKeeps == ASSUME KeepInv, InboxCloses PROVE Keeps
BY NothingMoves DEF InboxCloses

(* What the turn reads is sent.                                             *)
LEMMA TurnReadsKeeps == ASSUME KeepInv, TurnReads PROVE Keeps
<1>1. PICK t \in inbox : inbox' = inbox \ {t} /\ sent' = Append(sent, [text |-> t, as |-> "steer"])
  BY DEF TurnReads
<1>2. UNCHANGED <<ui, turns, child, waiting, asked, events, typed>>
  BY DEF TurnReads
<1>3. inbox \subseteq Texts /\ sent \in Seq(Sents) /\ t \in Texts /\ ui \in UiStates
  BY <1>1 DEF KeepInv, SessionTyped, IsScreen
<1> DEFINE s == [text |-> t, as |-> "steer"]
<1>4. s \in Sents
  BY <1>3 DEF Sents, Ways
<1>5. ASSUME NEW x PROVE s \in SentOf(x) <=> x = t
  <2>1. \A r \in SentOf(x) : r.text = x
    BY DEF SentOf
  <2> QED BY <1>4, <2>1 DEF SentOf, Ways
<1>6. sent' = Append(sent, s)
  BY <1>1
<1> HIDE DEF s
<1>7. sent' \in Seq(Sents)
  BY <1>3, <1>4, <1>6
<1>8. IsFiniteSet(inbox')
  BY <1>1, FS_RemoveElement DEF KeepInv, SessionTyped
<1>9. IsScreen(ui') /\ SessionTyped' /\ AsksStay(ui)
  BY <1>1, <1>2, <1>3, <1>7, <1>8 DEF KeepInv, SessionTyped, AsksStay
<1>10. ASSUME NEW x \in Texts PROVE CopiesAt(ui', inbox', sent', x) = CopiesAt(ui, inbox, sent, x)
  <2>1. CountIn(sent', SentOf(x)) = CountIn(sent, SentOf(x)) + OneMore(x, t)
    <3>1. CountIn(sent', SentOf(x)) = CountIn(sent, SentOf(x)) + (IF s \in SentOf(x) THEN 1 ELSE 0)
      BY <1>3, <1>4, <1>6, AppendCounts
    <3> QED BY <1>5, <3>1 DEF OneMore
  <2>2. Cardinality(inbox \cap {x}) = Cardinality(inbox' \cap {x}) + OneMore(x, t)
    BY <1>1, BoxShrinks
  <2>3. /\ CountIn(ui.queue, {x}) \in Nat /\ CountIn(ui.notices, {x}) \in Nat /\ Cardinality(inbox' \cap {x}) \in Nat
        /\ CountIn(sent, SentOf(x)) \in Nat /\ OneMore(x, t) \in Nat
    <3>1. /\ CountIn(ui.queue, {x}) \in Nat /\ CountIn(ui.notices, {x}) \in Nat /\ CountIn(sent, SentOf(x)) \in Nat
      BY <1>3, CopiesAreNumbers
    <3>2. Cardinality(inbox' \cap {x}) \in Nat
      BY BoxCounts
    <3> QED BY <3>1, <3>2 DEF OneMore
  <2> QED BY <1>2, <2>1, <2>2, <2>3 DEF CopiesAt
<1> QED BY <1>2, <1>9, <1>10, QuietKeeps

(* What nobody read comes back.                                             *)
LEMMA CarryUnreadKeeps == ASSUME KeepInv, CarryUnread PROVE Keeps
<1>1. PICK t \in inbox : inbox' = inbox \ {t} /\ events' = Append(events, Event("unread", t))
  BY DEF CarryUnread
<1>2. UNCHANGED <<ui, turns, child, waiting, asked, sent, typed>>
  BY DEF CarryUnread
<1>3. /\ inbox \subseteq Texts /\ sent \in Seq(Sents) /\ t \in Texts /\ ui \in UiStates /\ events \in Seq(ScreenEvents)
  BY <1>1 DEF KeepInv, SessionTyped, IsScreen, EventsTyped
<1> DEFINE e == Event("unread", t)
<1>4. e \in ScreenEvents /\ e.kind = "unread" /\ \A x : e \in Carriers(x) <=> x = t
  BY <1>3 DEF Event, ScreenEvents, Carriers
<1>5. events' = Append(events, e)
  BY <1>1
<1> HIDE DEF e
<1>6. events' \in Seq(ScreenEvents) /\ ToSet(events') = ToSet(events) \cup {e}
  BY <1>3, <1>4, <1>5, AppendAdds
<1>7. EventsTyped' /\ ExpiredAreOver'
  BY <1>2, <1>4, <1>6 DEF KeepInv, EventsTyped, ExpiredAreOver
<1>8. OneCopy'
  <2> SUFFICES ASSUME NEW x \in Texts PROVE (CopiesAt(ui, inbox, sent, x) + CountIn(events, Carriers(x)) = Made(x))'
    BY DEF OneCopy
  <2>1. CountIn(events', Carriers(x)) = CountIn(events, Carriers(x)) + OneMore(x, t)
    <3>1. CountIn(events', Carriers(x)) = CountIn(events, Carriers(x)) + (IF e \in Carriers(x) THEN 1 ELSE 0)
      BY <1>3, <1>4, <1>5, AppendCounts
    <3> QED BY <1>4, <3>1 DEF OneMore
  <2>2. Cardinality(inbox \cap {x}) = Cardinality(inbox' \cap {x}) + OneMore(x, t)
    BY <1>1, BoxShrinks
  <2>3. /\ CountIn(events, Carriers(x)) \in Nat /\ OneMore(x, t) \in Nat
        /\ CopiesAt(ui, inbox, sent, x) + CountIn(events, Carriers(x)) = Made(x)
    BY AtMostOneCopy DEF OneMore
  <2>4. /\ CountIn(ui.queue, {x}) \in Nat /\ CountIn(ui.notices, {x}) \in Nat /\ CountIn(sent, SentOf(x)) \in Nat
    BY <1>3, CopiesAreNumbers
  <2>5. Cardinality(inbox' \cap {x}) \in Nat
    BY BoxCounts
  <2>6. Made(x)' = Made(x) /\ ui' = ui /\ sent' = sent
    BY <1>2 DEF Made
  <2> QED BY <2>1, <2>2, <2>3, <2>4, <2>5, <2>6 DEF CopiesAt
<1>9. IsFiniteSet(inbox')
  BY <1>1, FS_RemoveElement DEF KeepInv, SessionTyped
<1>10. IsScreen(ui') /\ SessionTyped' /\ AsksStay(ui)
  BY <1>1, <1>2, <1>3, <1>9 DEF KeepInv, SessionTyped, AsksStay
<1>11. KeepInv'
  BY <1>7, <1>8, <1>10 DEF KeepInv
<1> QED BY <1>10, <1>11, StaysKeeps

LEMMA TurnMovesKeeps == ASSUME KeepInv, EndInv, TurnMoves PROVE Keeps
BY LoopEndsKeeps, InboxClosesKeeps, CarryUnreadKeeps, TurnEndsKeeps DEF TurnMoves

LEMMA LookupFailsKeeps == ASSUME KeepInv, LookupFails PROVE Keeps
<1>1. Event("error", FALSE) \in ScreenEvents /\ Event("error", FALSE).kind = "error"
  BY DEF Event, ScreenEvents
<1>2. events' = Append(events, Event("error", FALSE)) /\ UNCHANGED <<ui, turns, inbox, child, waiting, asked, sent, typed>>
  BY DEF LookupFails
<1>3. turns' \in Seq(BOOLEAN)
  BY <1>2 DEF KeepInv, SessionTyped
<1> QED BY <1>1, <1>2, <1>3, OnlyNews

(* The report of a child is on its way as soon as the child is gone.        *)
LEMMA ChildEndsKeeps == ASSUME KeepInv, NEW c \in Children, ChildEnds(c) PROVE Keeps
<1> DEFINE t == ReportOf(c)
           e == Event("settled", t)
<1>1. /\ child[c] # "gone" /\ child' = [child EXCEPT ![c] = "gone"] /\ events' = Append(events, e)
      /\ UNCHANGED <<ui, turns, inbox, waiting, asked, lookups, sent, typed>>
  BY DEF ChildEnds
<1>2. t \in Texts /\ t.from = "child" /\ t.id = c
  BY DEF ReportOf, Texts
<1>3. \A x \in Texts : x = t <=> x.from = "child" /\ x.id = c
  BY DEF ReportOf, Texts
<1>4. e.kind = "settled" /\ e.about = t /\ e = [kind |-> "settled", about |-> t]
  BY DEF Event
<1> HIDE DEF t, e
<1>5. e \in ScreenEvents
  BY <1>2, <1>4 DEF ScreenEvents
<1>6. events \in Seq(ScreenEvents) /\ child \in [Children -> {"running", "stopping", "gone"}]
  BY DEF KeepInv, EventsTyped
<1>7. events' \in Seq(ScreenEvents) /\ ToSet(events') = ToSet(events) \cup {e}
  BY <1>1, <1>5, <1>6, AppendAdds
<1>8. EventsTyped'
  BY <1>1, <1>6, <1>7 DEF KeepInv, EventsTyped
<1>9. ExpiredAreOver'
  BY <1>1, <1>4, <1>7 DEF KeepInv, ExpiredAreOver
<1>10. OneCopy'
  <2> SUFFICES ASSUME NEW x \in Texts PROVE (CopiesAt(ui, inbox, sent, x) + CountIn(events, Carriers(x)) = Made(x))'
    BY DEF OneCopy
  <2>1. e \in Carriers(x) <=> x = t
    BY <1>4 DEF Carriers
  <2>2. CountIn(events', Carriers(x)) = CountIn(events, Carriers(x)) + (IF e \in Carriers(x) THEN 1 ELSE 0)
    BY <1>1, <1>5, <1>6, AppendCounts
  <2>3. /\ CountIn(events, Carriers(x)) \in Nat /\ CopiesAt(ui, inbox, sent, x) \in Nat
        /\ CopiesAt(ui, inbox, sent, x) + CountIn(events, Carriers(x)) = Made(x)
    BY AtMostOneCopy
  <2>4. Made(x)' = Made(x) + OneMore(x, t)
    <3>1. CASE x = t
      BY <1>1, <1>2, <1>6, <3>1 DEF Made, OneMore
    <3>2. CASE x # t
      <4>1. x.from = "child" => x.id \in Children /\ x.id # c
        BY <1>3, <3>2 DEF Texts
      <4>2. Made(x)' = Made(x)
        BY <1>1, <1>6, <4>1 DEF Made
      <4> QED BY <3>2, <4>2, MadeIsNumber DEF OneMore
    <3> QED BY <3>1, <3>2
  <2>5. CopiesAt(ui', inbox', sent', x) = CopiesAt(ui, inbox, sent, x)
    BY <1>1
  <2> QED BY <2>1, <2>2, <2>3, <2>4, <2>5 DEF OneMore
<1>11. SessionTyped' /\ AsksStay(ui) /\ IsScreen(ui')
  BY <1>1 DEF KeepInv, SessionTyped, AsksStay
<1>12. KeepInv'
  BY <1>8, <1>9, <1>10, <1>11 DEF KeepInv
<1> QED BY <1>11, <1>12, StaysKeeps

(* The events of f are of a kind, about the elements of U, once each if     *)
(* they bring texts.                                                        *)
AreNews(f, kind, U) ==
    /\ f \in Seq(ScreenEvents) /\ \A e \in ToSet(f) : e.kind = kind /\ e.about \in U
    /\ \A x : CountIn(f, Carriers(x)) = IF kind \in {"unread", "settled"} /\ x \in U THEN 1 ELSE 0

(* An event for each element of a list.                                     *)
LEMMA NewsOfList ==
    ASSUME NEW S, NEW s \in Seq(S), NEW kind, [kind : {kind}, about : S] \subseteq ScreenEvents, NEW f,
           f \in [1..Len(s) -> ScreenEvents], \A i \in 1..Len(s) : f[i].kind = kind /\ f[i].about = s[i],
           \A x : CountIn(s, {x}) = IF x \in ToSet(s) THEN 1 ELSE 0
    PROVE  AreNews(f, kind, ToSet(s))
<1>1. DOMAIN f = 1..Len(s) /\ DOMAIN s = 1..Len(s) /\ f \in Seq(ScreenEvents)
  OBVIOUS
<1>2. \A e \in ToSet(f) : e.kind = kind /\ e.about \in ToSet(s)
  BY <1>1 DEF ToSet
<1>3. ASSUME NEW x PROVE CountIn(f, Carriers(x)) = IF kind \in {"unread", "settled"} /\ x \in ToSet(s) THEN 1 ELSE 0
  <2>1. CASE kind \in {"unread", "settled"}
    <3>1. \A i \in DOMAIN s : f[i] = [kind |-> kind, about |-> s[i]]
      BY <1>1 DEF ScreenEvents
    <3>2. ASSUME NEW i \in DOMAIN s PROVE f[i] \in Carriers(x) <=> s[i] \in {x}
      <4>1. [kind |-> kind, about |-> s[i]] \in Carriers(x) <=> s[i] = x
        BY <2>1 DEF Carriers
      <4> QED BY <3>1, <4>1
    <3>3. CountIn(f, Carriers(x)) = CountIn(s, {x})
      BY <1>1, <3>2, PlacesCount
    <3> QED BY <2>1, <3>3
  <2>2. CASE kind \notin {"unread", "settled"}
    <3>1. {i \in DOMAIN f : f[i] \in Carriers(x)} = {}
      BY <1>1, <2>2 DEF Carriers
    <3>2. CountIn(f, Carriers(x)) = 0
      BY <3>1, FS_EmptySet DEF CountIn
    <3> QED BY <2>2, <3>2
  <2> QED BY <2>1, <2>2
<1> QED BY <1>1, <1>2, <1>3 DEF AreNews

(* An event for each element of a set.                                      *)
NewsOf(kind, U) == [i \in 1..Cardinality(U) |-> Event(kind, SetToSeq(U)[i])]

LEMMA NewsAreListed ==
    ASSUME NEW S, NEW U \in SUBSET S, IsFiniteSet(U), NEW kind, [kind : {kind}, about : S] \subseteq ScreenEvents
    PROVE  AreNews(NewsOf(kind, U), kind, U)
<1> DEFINE s == SetToSeq(U)
           n == Cardinality(U)
           f == [i \in 1..n |-> Event(kind, s[i])]
<1>1. s \in Seq(S) /\ Len(s) = n /\ n \in Nat /\ \A i \in 1..n : s[i] \in U
  BY ListedOnce
<1>2. \A x : CountIn(s, {x}) = IF x \in U THEN 1 ELSE 0
  BY ListedOnce
<1> SUFFICES AreNews(f, kind, U)
  BY DEF NewsOf
<1> HIDE DEF s, n
<1>3. \A i \in 1..n : Event(kind, s[i]) \in ScreenEvents
  BY <1>1 DEF Event
<1>4. f \in [1..Len(s) -> ScreenEvents] /\ \A i \in 1..Len(s) : f[i].kind = kind /\ f[i].about = s[i]
  BY <1>1, <1>3 DEF Event
<1>5. U = ToSet(s)
  <2>1. ToSet(s) \subseteq U
    BY <1>1 DEF ToSet
  <2>2. ASSUME NEW x \in U, x \notin ToSet(s) PROVE FALSE
    <3>1. {i \in DOMAIN s : s[i] \in {x}} = {}
      BY <2>2 DEF ToSet
    <3>2. CountIn(s, {x}) = 0
      BY <3>1, FS_EmptySet DEF CountIn
    <3> QED BY <1>2, <2>2, <3>2
  <2> QED BY <2>1, <2>2
<1>6. \A x : CountIn(s, {x}) = IF x \in ToSet(s) THEN 1 ELSE 0
  BY <1>2, <1>5
<1> HIDE DEF f
<1>7. AreNews(f, kind, ToSet(s))
  BY <1>1, <1>4, <1>6, NewsOfList
<1> QED BY <1>5, <1>7

(* A Ctrl-C refuses what was asked, and nobody waits any more.              *)
LEMMA InterruptKeeps == ASSUME KeepInv, Interrupt PROVE Keeps
<1>0. /\ waiting \subseteq Requests /\ IsFiniteSet(waiting) /\ turns \in Seq(BOOLEAN) /\ ui \in UiStates
      /\ events \in Seq(ScreenEvents) /\ child \in [Children -> {"running", "stopping", "gone"}]
  BY DEF KeepInv, SessionTyped, EventsTyped, IsScreen
<1> DEFINE refused == {r \in waiting : r.kind = "approval"}
           news == NewsOf("expired", refused)
<1>1. /\ ui' = [ui EXCEPT !.phase = "canceling"] /\ waiting' = {} /\ events' = events \o news
      /\ turns' = [i \in DOMAIN turns |-> turns[i] \/ i = Len(turns)]
      /\ child' = [c \in Children |-> IF child[c] = "running" THEN "stopping" ELSE child[c]]
      /\ UNCHANGED <<inbox, asked, lookups, sent, typed>>
  BY DEF Interrupt, NewsOf
<1>2. refused \in SUBSET Asks("approval") /\ IsFiniteSet(refused) /\ refused \subseteq waiting
  BY <1>0, FS_Subset DEF Asks
<1>3. /\ news \in Seq(ScreenEvents) /\ (\A e \in ToSet(news) : e.kind = "expired" /\ e.about \in refused)
      /\ \A x : CountIn(news, Carriers(x)) = 0
  <2>1. [kind : {"expired"}, about : Asks("approval")] \subseteq ScreenEvents
    BY DEF ScreenEvents
  <2> HIDE DEF refused
  <2>2. AreNews(news, "expired", refused)
    BY <1>2, <2>1, NewsAreListed
  <2> HIDE DEF news
  <2> QED BY <2>2 DEF AreNews
<1> HIDE DEF news, refused
<1>4. /\ events' \in Seq(ScreenEvents) /\ ToSet(events') = ToSet(events) \cup ToSet(news)
      /\ \A x : CountIn(events', Carriers(x)) = CountIn(events, Carriers(x)) + CountIn(news, Carriers(x))
  <2> DEFINE l == events \o news
  <2>1. /\ l \in Seq(ScreenEvents) /\ ToSet(l) = ToSet(events) \cup ToSet(news)
        /\ \A x : CountIn(l, Carriers(x)) = CountIn(events, Carriers(x)) + CountIn(news, Carriers(x))
    BY <1>0, <1>3, ConcatAdds, CountsAdd
  <2>2. events' = l
    BY <1>1
  <2> HIDE DEF l
  <2> QED BY <2>1, <2>2
<1>5. child' \in [Children -> {"running", "stopping", "gone"}] /\ \A c \in Children : child'[c] = "gone" <=> child[c] = "gone"
  BY <1>0, <1>1
<1>6. EventsTyped'
  BY <1>1, <1>4, <1>5 DEF KeepInv, EventsTyped
<1>7. ExpiredAreOver'
  BY <1>1, <1>2, <1>3, <1>4 DEF KeepInv, ExpiredAreOver
<1>8. /\ ui' \in UiStates /\ ui'.phase = "canceling" /\ ui'.queue = ui.queue /\ ui'.notices = ui.notices
  BY <1>0, <1>1 DEF UiStates
<1>9. OneCopy'
  <2> SUFFICES ASSUME NEW x \in Texts PROVE (CopiesAt(ui, inbox, sent, x) + CountIn(events, Carriers(x)) = Made(x))'
    BY DEF OneCopy
  <2>1. /\ CountIn(events, Carriers(x)) \in Nat
        /\ CopiesAt(ui, inbox, sent, x) + CountIn(events, Carriers(x)) = Made(x)
    BY AtMostOneCopy
  <2>2. Made(x)' = Made(x)
    <3>1. x.from = "child" => x.id \in Children
      BY DEF Texts
    <3>2. typed' = typed
      BY <1>1
    <3> QED BY <1>5, <3>1, <3>2 DEF Made
  <2>3. CountIn(events', Carriers(x)) = CountIn(events, Carriers(x))
    BY <1>3, <1>4, <2>1
  <2>4. CopiesAt(ui', inbox', sent', x) = CopiesAt(ui, inbox, sent, x)
    BY <1>1, <1>8 DEF CopiesAt
  <2> QED BY <2>1, <2>2, <2>3, <2>4
<1>10. SessionTyped'
  <2>1. turns' \in Seq(BOOLEAN)
    <3>1. turns' \in [1..Len(turns) -> BOOLEAN] /\ Len(turns) \in Nat
      BY <1>0, <1>1
    <3> QED BY <3>1
  <2> QED BY <1>1, <2>1, FS_EmptySet DEF KeepInv, SessionTyped
<1>11. AsksStay(ui) /\ IsScreen(ui')
  BY <1>1, <1>8 DEF AsksStay, IsScreen, PanelIsShown
<1>12. KeepInv'
  BY <1>6, <1>7, <1>9, <1>10, <1>11 DEF KeepInv
<1> QED BY <1>11, <1>12, StaysKeeps

-----------------------------------------------------------------------------
(* What the controller takes from the channel.                              *)
LEMMA SameCopies ==
    ASSUME NEW u, NEW v, SameTexts(u, v), NEW box, NEW said, NEW x
    PROVE  CopiesAt(v, box, said, x) = CopiesAt(u, box, said, x)
BY DEF SameTexts, CopiesAt

LEMMA HeadIsNews ==
    ASSUME KeepInv, events # <<>>
    PROVE  Head(events) \in ScreenEvents /\ Head(events) \in ToSet(events)
BY HeadAndTail DEF KeepInv, EventsTyped

LEMMA SessionStays ==
    ASSUME KeepInv, UNCHANGED <<turns, inbox, waiting, sent>>
    PROVE  SessionTyped'
BY DEF KeepInv, SessionTyped

(* An event that brings no text changes the panels at most.                 *)
LEMMA PanelsChange ==
    ASSUME KeepInv, events # <<>>, events' = Tail(events), Head(events).kind \notin {"unread", "settled"},
           UNCHANGED <<child, asked, typed, turns, inbox, waiting, sent>>, IsScreen(ui'), SameTexts(ui, ui')
    PROVE  KeepInv'
<1>1. \A x \in Texts : CopiesAt(ui', inbox', sent', x) = CopiesAt(ui, inbox, sent, x) + Carried(Head(events), x)
  <2> TAKE x \in Texts
  <2>1. Carried(Head(events), x) = 0
    BY DEF Carried, Carriers
  <2>2. CopiesAt(ui', inbox', sent', x) = CopiesAt(ui, inbox, sent, x)
    BY SameCopies
  <2> QED BY <2>1, <2>2, AtMostOneCopy
<1>2. SessionTyped'
  BY SessionStays
<1> QED BY <1>1, <1>2, NewsIsTaken

LEMMA KeptAsksStay ==
    ASSUME KeepInv, KeepsAsked(ui, ui')
    PROVE  AsksStay(ui)
BY DEF KeepInv, SessionTyped, KeepsAsked, AsksStay

LEMMA OnApprovalKeeps == ASSUME KeepInv, OnApproval PROVE Keeps
<1>1. /\ events # <<>> /\ Head(events).kind = "approval" /\ events' = Tail(events)
      /\ UNCHANGED <<child, asked, lookups, typed, turns, inbox, waiting, sent>>
      /\ ui' = OfferApproval(ui, Head(events).about)
  BY DEF OnApproval, Take, Becomes
<1>2. Head(events).about \in Asks("approval")
  BY <1>1, HeadIsNews DEF ScreenEvents
<1>3. IsScreen(ui') /\ KeepsAsked(ui, ui') /\ SameTexts(ui, ui')
  BY <1>1, <1>2, OfferApprovalKeeps DEF KeepInv
<1>4. KeepInv'
  BY <1>1, <1>3, PanelsChange
<1> QED BY <1>3, <1>4, KeptAsksStay, StaysKeeps

LEMMA OnQuestionKeeps == ASSUME KeepInv, OnQuestion PROVE Keeps
<1>1. /\ events # <<>> /\ Head(events).kind = "question" /\ events' = Tail(events)
      /\ UNCHANGED <<child, asked, lookups, typed, turns, inbox, waiting, sent>>
      /\ ui' = OfferQuestion(ui, Head(events).about)
  BY DEF OnQuestion, Take, Becomes
<1>2. Head(events).about \in Asks("question")
  BY <1>1, HeadIsNews DEF ScreenEvents
<1>3. IsScreen(ui') /\ KeepsAsked(ui, ui') /\ SameTexts(ui, ui')
  BY <1>1, <1>2, OfferQuestionKeeps DEF KeepInv
<1>4. KeepInv'
  BY <1>1, <1>3, PanelsChange
<1> QED BY <1>3, <1>4, KeptAsksStay, StaysKeeps

(* Only a request nobody waits on is taken off the screen.                  *)
LEMMA OnExpiredKeeps == ASSUME KeepInv, OnExpired PROVE Keeps
<1> DEFINE r == Head(events).about
           p == IF ui.phase = "approval" THEN "running" ELSE ui.phase
           w == [ui EXCEPT !.approval = NoRequest, !.phase = p]
           l == LeavingOut(ui.approvals, r)
<1>0. /\ ui = [phase |-> ui.phase, approval |-> ui.approval, approvals |-> ui.approvals, question |-> ui.question,
               questions |-> ui.questions, before |-> ui.before, held |-> ui.held, queue |-> ui.queue,
               notices |-> ui.notices, grant |-> ui.grant]
      /\ ui \in UiStates
  BY UiIs DEF KeepInv, IsScreen
<1>1. /\ events # <<>> /\ Head(events).kind = "expired" /\ events' = Tail(events)
      /\ UNCHANGED <<child, asked, lookups, typed, turns, inbox, waiting, sent>>
      /\ IF ui.approval = r THEN ui' = NextWaiting(w) ELSE ui' = [ui EXCEPT !.approvals = l]
  BY DEF OnExpired, Take, Becomes
<1>2. r \notin waiting
  BY <1>1, HeadIsNews DEF KeepInv, ExpiredAreOver
<1>3. waiting \subseteq Requests
  BY DEF KeepInv, SessionTyped
<1> HIDE DEF r
<1>4. CASE ui.approval = r
  <2>1. p \in {"ready", "running", "input", "canceling"} /\ (p = "input" => ui.phase = "input")
    BY <1>0 DEF UiStates
  <2> HIDE DEF p
  <2>2. w \in UiStates
    BY <1>0, <2>1 DEF UiStates
  <2>3. /\ w.phase = p /\ w.question = ui.question /\ w.approvals = ui.approvals /\ w.questions = ui.questions
        /\ SameTexts(ui, w)
    BY <1>0 DEF SameTexts
  <2>4. ui' = NextWaiting(w)
    BY <1>1, <1>4
  <2> HIDE DEF w
  <2>5. IsScreen(w)
    BY <2>1, <2>2, <2>3 DEF KeepInv, IsScreen, PanelIsShown
  <2>6. IsScreen(ui') /\ KeepsAsked(w, ui') /\ SameTexts(w, ui')
    BY <2>4, <2>5, NextWaitingKeeps
  <2>7. SameTexts(ui, ui')
    BY <2>3, <2>6 DEF SameTexts
  <2>8. AsksStay(ui)
    <3> SUFFICES ASSUME NEW q \in waiting \cap waiting'
                 PROVE  /\ q \in Open(ui) => q \in Open(ui')
                        /\ q \in Behind(ui) => q \in Open(ui') \cup Behind(ui')
      BY DEF AsksStay
    <3>1. q \in Requests /\ q # ui.approval
      BY <1>2, <1>3, <1>4
    <3>2. (q \in Open(ui) => q \in Open(w)) /\ (q \in Behind(ui) => q \in Behind(w))
      BY <2>3, <3>1 DEF Open, Behind
    <3> QED BY <2>6, <3>1, <3>2 DEF KeepsAsked
  <2>9. KeepInv'
    BY <1>1, <2>6, <2>7, PanelsChange
  <2> QED BY <2>8, <2>9, StaysKeeps
<1>5. CASE ui.approval # r
  <2>1. l \in Seq(Asks("approval")) /\ ToSet(l) = ToSet(ui.approvals) \ {r}
    BY <1>0, OthersAreKept DEF UiStates
  <2> HIDE DEF l
  <2>2. ui' = [ui EXCEPT !.approvals = l]
    BY <1>1, <1>5
  <2>3. ui' \in UiStates
    BY <1>0, <2>1, <2>2 DEF UiStates
  <2>4. /\ ui'.phase = ui.phase /\ ui'.approval = ui.approval /\ ui'.question = ui.question /\ ui'.approvals = l
        /\ ui'.questions = ui.questions /\ SameTexts(ui, ui')
    BY <1>0, <2>2 DEF SameTexts
  <2>5. IsScreen(ui')
    BY <2>3, <2>4 DEF KeepInv, IsScreen, PanelIsShown
  <2>6. AsksStay(ui)
    BY <1>2, <2>1, <2>4 DEF AsksStay, Open, Behind
  <2>7. KeepInv'
    BY <1>1, <2>4, <2>5, PanelsChange
  <2> QED BY <2>6, <2>7, StaysKeeps
<1> QED BY <1>4, <1>5

LEMMA OnErrorKeeps == ASSUME KeepInv, OnError PROVE Keeps
<1> DEFINE w == FinishRun(ui)
<1>1. /\ events # <<>> /\ Head(events).kind = "error" /\ events' = Tail(events)
      /\ UNCHANGED <<child, asked, lookups, typed, turns, inbox, waiting, sent>> /\ ui' = [w EXCEPT !.grant = FALSE]
  BY DEF OnError, Take, Becomes
<1>2. IsScreen(w) /\ SameTexts(ui, w)
  BY FinishRunKeeps DEF KeepInv
<1> HIDE DEF w
<1>3. IsScreen(ui') /\ SameTexts(ui, ui')
  <2>1. /\ w = [phase |-> w.phase, approval |-> w.approval, approvals |-> w.approvals, question |-> w.question,
                questions |-> w.questions, before |-> w.before, held |-> w.held, queue |-> w.queue,
                notices |-> w.notices, grant |-> w.grant]
        /\ w \in UiStates
    BY <1>2, UiIs DEF IsScreen
  <2>2. ui' \in UiStates
    BY <1>1, <2>1 DEF UiStates
  <2>3. ui'.phase = w.phase /\ ui'.approval = w.approval /\ ui'.question = w.question /\ SameTexts(w, ui')
    BY <1>1, <2>1 DEF SameTexts
  <2> QED BY <1>2, <2>2, <2>3 DEF IsScreen, PanelIsShown, SameTexts
<1>4. KeepInv'
  BY <1>1, <1>3, PanelsChange
<1> QED BY <1>1, <1>4 DEF Keeps, AskStep

(* A text is put behind those in a list of the controller.                  *)
LEMMA OneIsBehind ==
    ASSUME NEW l \in Seq(Texts), NEW t \in Texts
    PROVE  Append(l, t) \in Seq(Texts) /\ \A x : CountIn(Append(l, t), {x}) = CountIn(l, {x}) + OneMore(x, t)
<1> DEFINE m == Append(l, t)
<1>1. m \in Seq(Texts)
  OBVIOUS
<1>2. \A x : CountIn(m, {x}) = CountIn(l, {x}) + (IF t \in {x} THEN 1 ELSE 0)
  BY AppendCounts
<1>3. \A x : (IF t \in {x} THEN 1 ELSE 0) = OneMore(x, t)
  BY DEF OneMore
<1> HIDE DEF m
<1>4. \A x : CountIn(m, {x}) = CountIn(l, {x}) + OneMore(x, t)
  BY <1>2, <1>3
<1> QED BY <1>1, <1>4 DEF m

LEMMA BringsOne ==
    ASSUME KeepInv, events # <<>>, Head(events).kind \in {"unread", "settled"}
    PROVE  /\ Head(events).about \in Texts /\ Head(events) \in Carriers(Head(events).about)
           /\ \A x : Carried(Head(events), x) = OneMore(x, Head(events).about)
<1> DEFINE e == Head(events)
<1>1. e \in [kind : {"unread", "settled"}, about : Texts]
  BY HeadIsNews DEF ScreenEvents
<1> HIDE DEF e
<1>2. e.about \in Texts /\ e \in Carriers(e.about) /\ \A x : (e \in Carriers(x) <=> x = e.about)
  BY <1>1 DEF Carriers
<1>3. \A x : Carried(e, x) = OneMore(x, e.about)
  BY <1>2 DEF Carried, OneMore
<1> QED BY <1>2, <1>3 DEF e

LEMMA OnUnreadKeeps == ASSUME KeepInv, OnUnread PROVE Keeps
<1> DEFINE t == Head(events).about
           l == Append(ui.queue, t)
<1>0. /\ ui = [phase |-> ui.phase, approval |-> ui.approval, approvals |-> ui.approvals, question |-> ui.question,
               questions |-> ui.questions, before |-> ui.before, held |-> ui.held, queue |-> ui.queue,
               notices |-> ui.notices, grant |-> ui.grant]
      /\ ui \in UiStates /\ ui.queue \in Seq(Texts)
  BY UiIs DEF KeepInv, IsScreen, UiStates
<1>1. /\ events # <<>> /\ Head(events).kind = "unread" /\ events' = Tail(events)
      /\ UNCHANGED <<child, asked, lookups, typed, turns, inbox, waiting, sent>> /\ ui' = [ui EXCEPT !.queue = l]
  BY DEF OnUnread, Take, Becomes
<1>2. t \in Texts /\ \A x : Carried(Head(events), x) = OneMore(x, t)
  BY <1>1, BringsOne
<1> HIDE DEF t
<1>3. l \in Seq(Texts) /\ \A x : CountIn(l, {x}) = CountIn(ui.queue, {x}) + OneMore(x, t)
  BY <1>0, <1>2, OneIsBehind
<1> HIDE DEF l
<1>4. ui' \in UiStates
  BY <1>0, <1>1, <1>3 DEF UiStates
<1>5. /\ ui'.phase = ui.phase /\ ui'.approval = ui.approval /\ ui'.question = ui.question
      /\ ui'.approvals = ui.approvals /\ ui'.questions = ui.questions /\ ui'.queue = l /\ ui'.notices = ui.notices
  BY <1>0, <1>1
<1>6. IsScreen(ui') /\ AsksStay(ui)
  BY <1>4, <1>5 DEF KeepInv, IsScreen, PanelIsShown, AsksStay, Open, Behind
<1>7. ASSUME NEW x \in Texts
      PROVE  CopiesAt(ui', inbox', sent', x) = CopiesAt(ui, inbox, sent, x) + Carried(Head(events), x)
  <2>1. /\ CountIn(ui.queue, {x}) \in Nat /\ CountIn(ui.notices, {x}) \in Nat /\ Cardinality(inbox \cap {x}) \in Nat
        /\ CountIn(sent, SentOf(x)) \in Nat /\ OneMore(x, t) \in Nat
    BY <1>0, CopiesAreNumbers DEF KeepInv, SessionTyped, OneMore
  <2>2. inbox' = inbox /\ sent' = sent
    BY <1>1
  <2> QED BY <1>2, <1>3, <1>5, <2>1, <2>2 DEF CopiesAt
<1>8. SessionTyped' /\ waiting' = waiting
  BY <1>1, SessionStays
<1>9. KeepInv'
  BY <1>1, <1>6, <1>7, <1>8, NewsIsTaken
<1> QED BY <1>6, <1>9, StaysKeeps

LEMMA OnSettledKeeps == ASSUME KeepInv, OnSettled PROVE Keeps
<1> DEFINE t == Head(events).about
           l == Append(ui.notices, t)
<1>0. /\ ui = [phase |-> ui.phase, approval |-> ui.approval, approvals |-> ui.approvals, question |-> ui.question,
               questions |-> ui.questions, before |-> ui.before, held |-> ui.held, queue |-> ui.queue,
               notices |-> ui.notices, grant |-> ui.grant]
      /\ ui \in UiStates /\ ui.notices \in Seq(Texts) /\ IsScreen(ui) /\ SessionTyped
  BY UiIs DEF KeepInv, IsScreen, UiStates
<1>1. /\ events # <<>> /\ Head(events).kind = "settled" /\ events' = Tail(events)
      /\ UNCHANGED <<child, asked, lookups, typed>>
  BY DEF OnSettled, Take
<1>2. t \in Texts /\ Head(events) \in Carriers(t) /\ \A x : Carried(Head(events), x) = OneMore(x, t)
  BY <1>1, BringsOne
<1>3. t \notin inbox
  BY <1>1, <1>2, BroughtIsNew
<1>4. Dispatch(ui, t) \/ (ui' = [ui EXCEPT !.notices = l] /\ UNCHANGED <<turns, inbox, waiting, sent>>)
  BY DEF OnSettled, Becomes
<1> HIDE DEF t
<1>5. CASE Dispatch(ui, t)
  <2>1. Dispatched(ui, t)
    BY <1>0, <1>2, <1>3, <1>5, DispatchKeeps
  <2>2. KeepInv'
    BY <1>1, <1>2, <2>1, NewsIsTaken DEF Dispatched
  <2> QED BY <2>1, <2>2, StaysKeeps DEF Dispatched
<1>6. CASE ui' = [ui EXCEPT !.notices = l] /\ UNCHANGED <<turns, inbox, waiting, sent>>
  <2>1. l \in Seq(Texts) /\ \A x : CountIn(l, {x}) = CountIn(ui.notices, {x}) + OneMore(x, t)
    BY <1>0, <1>2, OneIsBehind
  <2> HIDE DEF l
  <2>2. ui' \in UiStates
    BY <1>0, <1>6, <2>1 DEF UiStates
  <2>3. /\ ui'.phase = ui.phase /\ ui'.approval = ui.approval /\ ui'.question = ui.question
        /\ ui'.approvals = ui.approvals /\ ui'.questions = ui.questions /\ ui'.queue = ui.queue /\ ui'.notices = l
    BY <1>0, <1>6
  <2>4. IsScreen(ui') /\ AsksStay(ui)
    BY <1>0, <2>2, <2>3 DEF IsScreen, PanelIsShown, AsksStay, Open, Behind
  <2>5. ASSUME NEW x \in Texts
        PROVE  CopiesAt(ui', inbox', sent', x) = CopiesAt(ui, inbox, sent, x) + Carried(Head(events), x)
    <3>1. /\ CountIn(ui.queue, {x}) \in Nat /\ CountIn(ui.notices, {x}) \in Nat /\ Cardinality(inbox \cap {x}) \in Nat
          /\ CountIn(sent, SentOf(x)) \in Nat /\ OneMore(x, t) \in Nat
      BY <1>0, CopiesAreNumbers DEF SessionTyped, OneMore
    <3>2. inbox' = inbox /\ sent' = sent
      BY <1>6
    <3> QED BY <1>2, <2>1, <2>3, <3>1, <3>2 DEF CopiesAt
  <2>6. SessionTyped' /\ waiting' = waiting
    BY <1>6, SessionStays
  <2>7. KeepInv'
    BY <1>1, <2>4, <2>5, <2>6, NewsIsTaken
  <2> QED BY <2>4, <2>7, StaysKeeps
<1> QED BY <1>4, <1>5, <1>6

(* The end of a turn.                                                       *)
LEMMA OnTerminalKeeps == ASSUME KeepInv, OnTerminal PROVE Keeps
<1> DEFINE w == FinishRun(ui)
           h == w.held \/ Head(events).about
           u == [w EXCEPT !.held = h, !.grant = FALSE]
<1>1. /\ events # <<>> /\ Head(events).kind = "terminal" /\ events' = Tail(events)
      /\ UNCHANGED <<child, asked, lookups, typed>>
  BY DEF OnTerminal, Take
<1>2. \/ u.queue # <<>> /\ RunNextQueued(u)
      \/ u.notices # <<>> /\ ReadNextNotice(u)
      \/ ui' = u /\ UNCHANGED <<turns, inbox, waiting, sent>>
  BY DEF OnTerminal, Becomes
<1>3. IsScreen(w) /\ SameTexts(ui, w)
  BY FinishRunKeeps DEF KeepInv
<1>4. h \in BOOLEAN
  BY <1>1, <1>3, HeadIsNews DEF ScreenEvents, IsScreen, UiStates
<1> HIDE DEF w, h
<1>5. IsScreen(u) /\ SameTexts(ui, u)
  <2>1. /\ w = [phase |-> w.phase, approval |-> w.approval, approvals |-> w.approvals, question |-> w.question,
                questions |-> w.questions, before |-> w.before, held |-> w.held, queue |-> w.queue,
                notices |-> w.notices, grant |-> w.grant]
        /\ w \in UiStates
    BY <1>3, UiIs DEF IsScreen
  <2>2. u \in UiStates
    BY <1>4, <2>1 DEF UiStates
  <2>3. u.phase = w.phase /\ u.approval = w.approval /\ u.question = w.question /\ SameTexts(w, u)
    BY <2>1 DEF SameTexts
  <2> QED BY <1>3, <2>2, <2>3 DEF IsScreen, PanelIsShown, SameTexts
<1> HIDE DEF u
<1>6. \A x \in Texts : CopiesAt(u, inbox, sent, x) = CopiesAt(ui, inbox, sent, x)
  BY <1>5, SameCopies
<1>7. \A x \in Texts : CopiesAt(u, inbox, sent, x) <= 1
  BY <1>6, AtMostOneCopy
<1>8. SessionTyped
  BY DEF KeepInv
<1>9. /\ IsScreen(ui') /\ SessionTyped' /\ waiting' \subseteq waiting
      /\ \A x \in Texts : CopiesAt(ui', inbox', sent', x) = CopiesAt(u, inbox, sent, x)
  <2>1. CASE u.queue # <<>> /\ RunNextQueued(u)
    BY <1>5, <1>7, <1>8, <2>1, NextQueuedMoves DEF Moved
  <2>2. CASE u.notices # <<>> /\ ReadNextNotice(u)
    BY <1>5, <1>7, <1>8, <2>2, NextNoticeMoves DEF Moved
  <2>3. CASE ui' = u /\ UNCHANGED <<turns, inbox, waiting, sent>>
    BY <1>5, <2>3, SessionStays
  <2> QED BY <1>2, <2>1, <2>2, <2>3
<1>10. \A x \in Texts : CopiesAt(ui', inbox', sent', x) = CopiesAt(ui, inbox, sent, x) + Carried(Head(events), x)
  <2> TAKE x \in Texts
  <2>1. Carried(Head(events), x) = 0
    BY <1>1 DEF Carried, Carriers
  <2> QED BY <1>6, <1>9, <2>1, AtMostOneCopy
<1>11. KeepInv'
  BY <1>1, <1>9, <1>10, NewsIsTaken
<1> QED BY <1>1, <1>11 DEF Keeps, AskStep

-----------------------------------------------------------------------------
(* What the controller does by itself, and the user.                        *)
LEMMA DeliverWaitingKeeps == ASSUME KeepInv, DeliverWaiting PROVE Keeps
<1>1. IsScreen(ui) /\ SessionTyped /\ \A x \in Texts : CopiesAt(ui, inbox, sent, x) <= 1
  BY AtMostOneCopy DEF KeepInv
<1>2. UNCHANGED <<child, asked, lookups, events, typed>>
  BY DEF DeliverWaiting
<1>3. Moved(ui)
  BY <1>1, NextQueuedMoves, NextNoticeMoves DEF DeliverWaiting
<1> QED BY <1>2, <1>3, QuietKeeps DEF Moved

LEMMA DeliverWaitingSteersKeeps == ASSUME KeepInv, DeliverWaitingSteers PROVE Keeps
<1> DEFINE l == Tail(ui.queue)
           t == Head(ui.queue)
<1>0. /\ ui = [phase |-> ui.phase, approval |-> ui.approval, approvals |-> ui.approvals, question |-> ui.question,
               questions |-> ui.questions, before |-> ui.before, held |-> ui.held, queue |-> ui.queue,
               notices |-> ui.notices, grant |-> ui.grant]
      /\ ui \in UiStates /\ ui.queue \in Seq(Texts) /\ IsScreen(ui) /\ SessionTyped
  BY UiIs DEF KeepInv, IsScreen, UiStates
<1>1. /\ ui.queue # <<>> /\ inbox' = inbox \cup {t} /\ ui' = [ui EXCEPT !.queue = l]
      /\ UNCHANGED <<turns, child, waiting, asked, lookups, events, sent, typed>>
  BY DEF DeliverWaitingSteers
<1>2. l \in Seq(Texts) /\ t \in Texts
  BY <1>0, <1>1
<1>3. ASSUME NEW x PROVE CountIn(ui.queue, {x}) = CountIn(l, {x}) + OneMore(x, t)
  <2>1. CountIn(ui.queue, {x}) = CountIn(l, {x}) + (IF t \in {x} THEN 1 ELSE 0)
    BY <1>0, <1>1, TailCounts
  <2> HIDE DEF l, t
  <2> QED BY <2>1 DEF OneMore
<1> HIDE DEF l, t
<1>4. ui' \in UiStates
  BY <1>0, <1>1, <1>2 DEF UiStates
<1>5. /\ ui'.phase = ui.phase /\ ui'.approval = ui.approval /\ ui'.question = ui.question
      /\ ui'.approvals = ui.approvals /\ ui'.questions = ui.questions /\ ui'.queue = l /\ ui'.notices = ui.notices
  BY <1>0, <1>1
<1>6. IsScreen(ui') /\ AsksStay(ui)
  BY <1>0, <1>4, <1>5 DEF IsScreen, PanelIsShown, AsksStay, Open, Behind
<1>7. ASSUME NEW x \in Texts
      PROVE  /\ CountIn(ui.queue, {x}) \in Nat /\ CountIn(ui.notices, {x}) \in Nat /\ Cardinality(inbox \cap {x}) \in Nat
             /\ CountIn(sent, SentOf(x)) \in Nat /\ OneMore(x, t) \in Nat /\ CountIn(l, {x}) \in Nat
  <2>1. CountIn(l, {x}) \in Nat
    BY <1>2, CountsAreNumbers
  <2> QED BY <1>0, <2>1, CopiesAreNumbers DEF SessionTyped, OneMore
<1>8. t \notin inbox
  <2>1. CopiesAt(ui, inbox, sent, t) <= 1
    BY <1>2, AtMostOneCopy
  <2>2. CountIn(ui.queue, {t}) = CountIn(l, {t}) + 1
    BY <1>3 DEF OneMore
  <2>3. Cardinality(inbox \cap {t}) = 0
    BY <1>2, <1>7, <2>1, <2>2 DEF CopiesAt
  <2> QED BY <2>3, BoxCounts
<1>9. ASSUME NEW x \in Texts PROVE CopiesAt(ui', inbox', sent', x) = CopiesAt(ui, inbox, sent, x)
  <2>1. Cardinality(inbox' \cap {x}) = Cardinality(inbox \cap {x}) + OneMore(x, t)
    BY <1>1, <1>8, BoxGrows
  <2>2. CountIn(ui.queue, {x}) = CountIn(ui'.queue, {x}) + OneMore(x, t) /\ CountIn(ui'.queue, {x}) = CountIn(l, {x})
    BY <1>3, <1>5
  <2>3. ui'.notices = ui.notices /\ sent' = sent
    BY <1>1, <1>5
  <2> QED BY <1>7, <2>1, <2>2, <2>3 DEF CopiesAt
<1>10. SessionTyped'
  BY <1>0, <1>1, <1>2, FS_AddElement DEF SessionTyped
<1>11. UNCHANGED <<child, asked, events, typed, waiting>>
  BY <1>1
<1> QED BY <1>6, <1>9, <1>10, <1>11, QuietKeeps

LEMMA UserAnswersKeeps == ASSUME KeepInv, NEW all \in BOOLEAN, UserAnswers(all) PROVE Keeps
<1> DEFINE w == [ui EXCEPT !.approval = NoRequest, !.phase = "running"]
           v == NextWaiting(w)
           g == v.grant \/ all
<1>0. /\ ui = [phase |-> ui.phase, approval |-> ui.approval, approvals |-> ui.approvals, question |-> ui.question,
               questions |-> ui.questions, before |-> ui.before, held |-> ui.held, queue |-> ui.queue,
               notices |-> ui.notices, grant |-> ui.grant]
      /\ ui \in UiStates /\ SessionTyped
  BY UiIs DEF KeepInv, IsScreen
<1>1. /\ waiting' = waiting \ {ui.approval} /\ ui' = [v EXCEPT !.grant = g]
      /\ UNCHANGED <<turns, inbox, child, asked, lookups, events, sent, typed>>
  BY DEF UserAnswers
<1>2. w \in UiStates
  BY <1>0 DEF UiStates
<1>3. /\ w.phase = "running" /\ w.question = ui.question /\ w.approvals = ui.approvals /\ w.questions = ui.questions
      /\ SameTexts(ui, w)
  BY <1>0 DEF SameTexts
<1> HIDE DEF w
<1>4. IsScreen(w)
  BY <1>2, <1>3 DEF IsScreen, PanelIsShown
<1>5. IsScreen(v) /\ KeepsAsked(w, v) /\ SameTexts(w, v)
  BY <1>4, NextWaitingKeeps
<1> HIDE DEF v
<1>6. /\ v = [phase |-> v.phase, approval |-> v.approval, approvals |-> v.approvals, question |-> v.question,
              questions |-> v.questions, before |-> v.before, held |-> v.held, queue |-> v.queue,
              notices |-> v.notices, grant |-> v.grant]
      /\ v \in UiStates
  BY <1>5, UiIs DEF IsScreen
<1>7. g \in BOOLEAN
  BY <1>6 DEF UiStates
<1> HIDE DEF g
<1>8. ui' \in UiStates
  BY <1>1, <1>6, <1>7 DEF UiStates
<1>9. /\ ui'.phase = v.phase /\ ui'.approval = v.approval /\ ui'.question = v.question
      /\ ui'.approvals = v.approvals /\ ui'.questions = v.questions /\ SameTexts(v, ui')
  BY <1>1, <1>6 DEF SameTexts
<1>10. IsScreen(ui') /\ SameTexts(ui, ui')
  BY <1>3, <1>5, <1>8, <1>9 DEF IsScreen, PanelIsShown, SameTexts
<1>11. AsksStay(ui)
  <2> SUFFICES ASSUME NEW q \in waiting \cap waiting'
               PROVE  /\ q \in Open(ui) => q \in Open(ui')
                      /\ q \in Behind(ui) => q \in Open(ui') \cup Behind(ui')
    BY DEF AsksStay
  <2>1. q \in Requests /\ q # ui.approval
    BY <1>0, <1>1 DEF SessionTyped
  <2>2. (q \in Open(ui) => q \in Open(w)) /\ (q \in Behind(ui) => q \in Behind(w))
    BY <1>3, <2>1 DEF Open, Behind
  <2>3. Open(ui') = Open(v) /\ Behind(ui') = Behind(v)
    BY <1>9 DEF Open, Behind
  <2> QED BY <1>5, <2>1, <2>2, <2>3 DEF KeepsAsked
<1>12. SessionTyped'
  BY <1>0, <1>1, FS_RemoveElement DEF SessionTyped
<1>13. \A x \in Texts : CopiesAt(ui', inbox', sent', x) = CopiesAt(ui, inbox, sent, x)
  BY <1>1, <1>10, SameCopies
<1>14. UNCHANGED <<child, asked, events, typed>> /\ waiting' \subseteq waiting
  BY <1>1
<1> QED BY <1>10, <1>11, <1>12, <1>13, <1>14, QuietKeeps

(* A new line is nowhere yet.                                               *)
LEMMA UserTypesKeeps == ASSUME KeepInv, UserTypes PROVE Keeps
<1> DEFINE t == Typed(typed + 1)
<1>1. /\ typed < MaxTyped /\ typed' = typed + 1 /\ Dispatch(ui, t) /\ UNCHANGED <<child, asked, lookups, events>>
  BY DEF UserTypes
<1>2. typed \in Nat /\ MaxTyped \in Nat /\ typed + 1 \in 1..MaxTyped /\ typed' \in 0..MaxTyped
  BY <1>1, ScreenAssumption DEF KeepInv, EventsTyped
<1>3. t \in Texts /\ t.from = "user" /\ t.id = typed + 1 /\ \A x \in Texts : x = t <=> x.from = "user" /\ x.id = typed + 1
  BY <1>2 DEF Typed, Texts
<1> HIDE DEF t
<1>4. ASSUME NEW x \in Texts PROVE Made(x)' - Made(x) = OneMore(x, t)
  <2>1. CASE x = t
    <3>1. x.from = "user" /\ x.id = typed + 1
      BY <1>3, <2>1
    <3>2. Made(x) = 0 /\ Made(x)' = 1
      BY <1>1, <1>2, <3>1 DEF Made
    <3> QED BY <2>1, <3>2 DEF OneMore
  <2>2. CASE x # t
    <3>1. x.from = "user" => x.id \in Nat /\ x.id # typed + 1
      BY <1>3, <2>2, ScreenAssumption DEF Texts
    <3>2. x.from = "user" => (x.id <= typed' <=> x.id <= typed)
      BY <1>1, <1>2, <3>1
    <3>3. Made(x)' = Made(x)
      BY <1>1, <3>2 DEF Made
    <3> QED BY <2>2, <3>3, MadeIsNumber DEF OneMore
  <2> QED BY <2>1, <2>2
<1>5. t \notin inbox
  <2>1. Made(t) = 0
    BY <1>2, <1>3 DEF Made
  <2>2. CopiesAt(ui, inbox, sent, t) = 0
    BY <1>3, <2>1, AtMostOneCopy
  <2>3. /\ CountIn(ui.queue, {t}) \in Nat /\ CountIn(ui.notices, {t}) \in Nat /\ Cardinality(inbox \cap {t}) \in Nat
        /\ CountIn(sent, SentOf(t)) \in Nat
    BY CopiesAreNumbers DEF KeepInv, IsScreen, SessionTyped
  <2>4. Cardinality(inbox \cap {t}) = 0
    BY <2>2, <2>3 DEF CopiesAt
  <2> QED BY <2>4, BoxCounts
<1>6. Dispatched(ui, t)
  BY <1>1, <1>3, <1>5, DispatchKeeps DEF KeepInv
<1>7. \A x \in Texts : CopiesAt(ui', inbox', sent', x) = CopiesAt(ui, inbox, sent, x) + (Made(x)' - Made(x))
  BY <1>4, <1>6 DEF Dispatched
<1>8. KeepInv'
  BY <1>1, <1>2, <1>6, <1>7, NoNews DEF Dispatched
<1> QED BY <1>6, <1>8, StaysKeeps DEF Dispatched

LEMMA UserLooksUpKeeps == ASSUME KeepInv, UserLooksUp PROVE Keeps
BY NothingMoves DEF UserLooksUp

-----------------------------------------------------------------------------
LEMMA KeepStarts == ASSUME ScreenInit PROVE KeepInv
<1>1. /\ ui = [phase |-> "ready", approval |-> NoRequest, approvals |-> <<>>, question |-> NoRequest,
               questions |-> <<>>, before |-> "none", held |-> FALSE, queue |-> <<>>, notices |-> <<>>, grant |-> FALSE]
      /\ turns = <<>> /\ inbox = {} /\ child = [c \in Children |-> "running"] /\ waiting = {}
      /\ asked = [a \in Children \cup {Root} |-> 0] /\ events = <<>> /\ sent = <<>> /\ typed = 0
  BY DEF ScreenInit
<1>2. IsScreen(ui) /\ ui.queue = <<>> /\ ui.notices = <<>>
  <2>1. <<>> \in Seq(Asks("approval")) /\ <<>> \in Seq(Asks("question")) /\ <<>> \in Seq(Texts)
    OBVIOUS
  <2> QED BY <1>1, <2>1 DEF IsScreen, UiStates, PanelIsShown
<1>3. SessionTyped
  BY <1>1, FS_EmptySet DEF SessionTyped
<1>4. EventsTyped /\ ExpiredAreOver
  BY <1>1, ScreenAssumption DEF EventsTyped, ExpiredAreOver, ToSet
<1>5. ASSUME NEW t \in Texts PROVE CopiesAt(ui, inbox, sent, t) + CountIn(events, Carriers(t)) = Made(t)
  <2>1. Made(t) = 0
    <3>1. t.from = "user" => t.id \in Nat /\ t.id >= 1
      BY ScreenAssumption DEF Texts
    <3>2. t.from = "child" => t.id \in Children
      BY DEF Texts
    <3> QED BY <1>1, <3>1, <3>2 DEF Made
  <2>2. /\ CountIn(ui.queue, {t}) = 0 /\ CountIn(ui.notices, {t}) = 0 /\ CountIn(sent, SentOf(t)) = 0
        /\ CountIn(events, Carriers(t)) = 0
    BY <1>1, <1>2, NothingIsCounted
  <2>3. Cardinality(inbox \cap {t}) = 0
    BY <1>1, BoxCounts
  <2> QED BY <2>1, <2>2, <2>3 DEF CopiesAt
<1> QED BY <1>2, <1>3, <1>4, <1>5 DEF KeepInv, OneCopy

LEMMA KeepStep == ASSUME KeepInv, EndInv, [ScreenNext]_screenVars PROVE KeepInv' /\ [AskStep]_screenVars
<1>1. CASE UNCHANGED screenVars
  <2>1. Keeps
    BY <1>1, NothingMoves DEF screenVars
  <2> QED BY <2>1 DEF Keeps
<1>2. CASE ScreenNext
  <2> SUFFICES Keeps
    BY DEF Keeps
  <2>1. CASE OnApproval \/ OnExpired \/ OnQuestion \/ OnUnread \/ OnSettled \/ OnTerminal \/ OnError
    BY <2>1, OnApprovalKeeps, OnExpiredKeeps, OnQuestionKeeps, OnUnreadKeeps, OnSettledKeeps, OnTerminalKeeps, OnErrorKeeps
  <2>2. CASE \/ TurnReads \/ TurnMoves \/ DeliverWaiting \/ DeliverWaitingSteers \/ UserTypes \/ Interrupt \/ UserLooksUp
             \/ LookupFails
    BY <2>2, TurnReadsKeeps, TurnMovesKeeps, DeliverWaitingKeeps, DeliverWaitingSteersKeeps, UserTypesKeeps, InterruptKeeps,
       UserLooksUpKeeps, LookupFailsKeeps
  <2>3. CASE \E a \in Children \cup {Root} : AsksApproval(a)
    BY <2>3, AsksApprovalKeeps
  <2>4. CASE \E c \in Children : ChildAsks(c) \/ ChildEnds(c)
    BY <2>4, ChildAsksKeeps, ChildEndsKeeps
  <2>5. CASE \E r \in waiting : ApprovalTimesOut(r)
    BY <2>5, TimesOutKeeps
  <2>6. CASE \E b \in BOOLEAN : TurnBreaks(b) \/ UserAnswers(b)
    BY <2>6, TurnBreaksKeeps, UserAnswersKeeps
  <2> QED BY <1>2, <2>1, <2>2, <2>3, <2>4, <2>5, <2>6 DEF ScreenNext, HandleEvent
<1> QED BY <1>1, <1>2

LEMMA CopiesMean ==
    ASSUME KeepInv, NEW t \in Texts
    PROVE  Copies(t) = CopiesAt(ui, inbox, sent, t) + CountIn(events, Carriers(t))
<1>0. sent \in Seq(Sents) /\ events \in Seq(ScreenEvents) /\ ui \in UiStates
  BY DEF KeepInv, IsScreen, SessionTyped, EventsTyped
<1>1. {i \in DOMAIN sent : sent[i].text = t} = {i \in DOMAIN sent : sent[i] \in SentOf(t)}
  <2>1. \A i \in DOMAIN sent : sent[i] \in Sents
    BY <1>0
  <2>2. \A x \in Sents : x \in SentOf(t) <=> x.text = t
    BY DEF Sents, SentOf
  <2> QED BY <2>1, <2>2
<1>2. {i \in DOMAIN events : events[i].kind \in {"unread", "settled"} /\ events[i].about = t}
        = {i \in DOMAIN events : events[i] \in Carriers(t)}
  <2>1. \A i \in DOMAIN events : events[i] \in ScreenEvents
    BY <1>0
  <2>2. \A x \in ScreenEvents : x \in Carriers(t) <=> x.kind \in {"unread", "settled"} /\ x.about = t
    BY DEF ScreenEvents, Carriers
  <2> QED BY <2>1, <2>2
<1>3. /\ {i \in DOMAIN ui.queue : ui.queue[i] = t} = {i \in DOMAIN ui.queue : ui.queue[i] \in {t}}
      /\ {i \in DOMAIN ui.notices : ui.notices[i] = t} = {i \in DOMAIN ui.notices : ui.notices[i] \in {t}}
  OBVIOUS
<1>4. Copies(t) = CountIn(ui.queue, {t}) + CountIn(ui.notices, {t}) + Cardinality(inbox \cap {t})
                    + CountIn(events, Carriers(t)) + CountIn(sent, SentOf(t))
  BY <1>1, <1>2, <1>3 DEF Copies, CountIn
<1>5. /\ CountIn(ui.queue, {t}) \in Nat /\ CountIn(ui.notices, {t}) \in Nat /\ Cardinality(inbox \cap {t}) \in Nat
      /\ CountIn(sent, SentOf(t)) \in Nat /\ CountIn(events, Carriers(t)) \in Nat
  BY <1>0, CopiesAreNumbers, AtMostOneCopy
<1> QED BY <1>4, <1>5 DEF CopiesAt

LEMMA KeepMeans == ASSUME KeepInv, EndInv PROVE ScreenTypeOK /\ Kept
<1>1. ScreenTypeOK
  <2>1. ui \in UiStates /\ SessionTyped
    BY DEF KeepInv, IsScreen
  <2>2. /\ ui.phase \in {"ready", "running", "approval", "input", "canceling"}
        /\ ui.approval \in Requests \cup {NoRequest} /\ ui.question \in Requests \cup {NoRequest}
        /\ ui.before \in {"none", "ready", "running", "canceling"}
        /\ ui.queue \in Seq(Texts) /\ ui.notices \in Seq(Texts) /\ ui.grant \in BOOLEAN /\ ui.held \in BOOLEAN
    BY <2>1, AsksAreRequests DEF UiStates
  <2>3. ui.approvals \in Seq(Requests) /\ ui.questions \in Seq(Requests)
    <3>1. ASSUME NEW kind, NEW l \in Seq(Asks(kind)) PROVE l \in Seq(Requests)
      <4>1. \A i \in 1..Len(l) : l[i] \in Requests
        BY AsksAreRequests
      <4> QED BY <4>1
    <3> QED BY <2>1, <3>1 DEF UiStates
  <2>4. ending \in [at : {"no", "told", "closed"}, stopped : BOOLEAN, early : BOOLEAN] /\ (ending.at # "no" => turns # <<>>)
    BY DEF EndInv
  <2> QED BY <2>1, <2>2, <2>3, <2>4 DEF ScreenTypeOK, SessionTyped
<1>2. ASSUME NEW n \in 1..typed PROVE Copies(Typed(n)) = 1
  <2>1. typed \in 0..MaxTyped /\ MaxTyped \in Nat
    BY ScreenAssumption DEF KeepInv, EventsTyped
  <2>2. Typed(n) \in Texts /\ Typed(n).from = "user" /\ Typed(n).id = n /\ n <= typed
    BY <2>1 DEF Typed, Texts
  <2>3. Made(Typed(n)) = 1
    BY <2>2 DEF Made
  <2> QED BY <2>2, <2>3, CopiesMean DEF KeepInv, OneCopy
<1>3. ASSUME NEW c \in Children, child[c] = "gone" PROVE Copies(ReportOf(c)) = 1
  <2>1. ReportOf(c) \in Texts /\ ReportOf(c).from = "child" /\ ReportOf(c).id = c
    BY DEF ReportOf, Texts
  <2>2. Made(ReportOf(c)) = 1
    BY <1>3, <2>1 DEF Made
  <2> QED BY <2>1, <2>2, CopiesMean DEF KeepInv, OneCopy
<1> QED BY <1>1, <1>2, <1>3 DEF Kept

(* Whatever is typed, asked, reported or interrupted, in whatever order: a  *)
(* text is in exactly one place, an open panel stays open while somebody    *)
(* waits on it, and the controller shows a run only while there is one      *)
(* (controller.rs, dispatch, next_waiting, finish_run).                     *)
THEOREM ScreenIsSafe == ScreenSpec => ScreenSafe
<1>1. ScreenInit => KeepInv /\ EndInv
  BY KeepStarts, EndStarts
<1>2. KeepInv /\ EndInv /\ [ScreenNext]_screenVars => KeepInv' /\ EndInv' /\ [AskStep]_screenVars
  BY KeepStep, EndStays
<1>3. KeepInv /\ EndInv => ScreenTypeOK /\ Kept
  BY KeepMeans
<1>4. ScreenSpec => [](ScreenTypeOK /\ Kept) /\ [][AskStep]_screenVars
  BY <1>1, <1>2, <1>3, PTL DEF ScreenSpec
<1>5. [AskStep]_screenVars => [\A r \in waiting \cap waiting' :
          \/ events # <<>> /\ Head(events).kind \in {"terminal", "error"}
          \/ /\ r \in Open(ui) => r \in Open(ui')
             /\ r \in Behind(ui) => r \in Open(ui') \cup Behind(ui')]_screenVars
  BY DEF AskStep
<1> QED BY <1>4, <1>5, TurnsComeOneByOne, PTL DEF ScreenSafe, AskKept
=============================================================================
