---------------------------- MODULE KernelProofs ----------------------------
(***************************************************************************)
(* The kernel: what the drain of a lost service keeps, for any number of   *)
(* clients, calls and reports of the loss; that a lookup in any tree of    *)
(* scopes finds the nearest registration; and the order of a shutdown of   *)
(* any number of items, through any callers dropped.  Then the scheduler   *)
(* of workers, for any number of dispatches, parents, slots, queue places, *)
(* requests, outcomes and drains.  At the end the two graphs: that a       *)
(* composition of plugins is accepted just when it can be started in some  *)
(* order, and that a compiled plan can be run by its workers, for any      *)
(* plugins, services, tasks and scopes.                                    *)
(***************************************************************************)
EXTENDS ServiceDrain, OrderedShutdown, ScopedRegistry, WorkerScheduler, PluginGraph, TaskPlan, ListProofs

-----------------------------------------------------------------------------
Calling == {k \in Clients : client[k].pc = "calling"}

(* The counter counts the calls that have not left it.                      *)
Counted == inFlight = Cardinality(Busy)

(* The set holds the identifiers of the calls under way, one for each.      *)
Listed ==
    /\ active = {client[k].id : k \in Calling}
    /\ \A k, l \in Calling : client[k].id = client[l].id => k = l

(* Nobody drains before the loss is noted, and the loss ends admission.     *)
LossIsNoted == (lost.yes <=> ~healthy) /\ \A d \in Drainers : drain[d] # "none" => lost.yes

DrainInv == DrainTypeOK /\ Counted /\ Listed /\ LossIsNoted /\ ReleasedWhenQuiet /\ ActiveIsUncertain

PastWait == {"cell", "shutdown", "join", "done"}

-----------------------------------------------------------------------------
LEMMA BusyIsFinite == IsFiniteSet(Busy) /\ Cardinality(Busy) \in Nat /\ (Cardinality(Busy) = 0 <=> Busy = {})
<1>1. IsFiniteSet(Clients) /\ Busy \in SUBSET Clients
  BY DrainAssumption DEF Busy
<1>2. IsFiniteSet(Busy)
  BY <1>1, FS_Subset
<1> QED BY <1>2, FS_CardinalityType, FS_EmptySet

LEMMA InitDrains == DrainInit => DrainInv
<1> SUFFICES ASSUME DrainInit PROVE DrainInv
  OBVIOUS
<1>1. Busy = {} /\ Calling = {}
  BY DEF DrainInit, Busy, Calling, NoLease
<1>2. DrainTypeOK
  BY DEF DrainInit, DrainTypeOK, NotLost, NoLease
<1>3. Counted /\ Listed
  BY <1>1, FS_EmptySet DEF DrainInit, Counted, Listed
<1>4. LossIsNoted /\ ReleasedWhenQuiet /\ ActiveIsUncertain
  BY DEF DrainInit, LossIsNoted, ReleasedWhenQuiet, ActiveIsUncertain, NotLost
<1> QED BY <1>2, <1>3, <1>4 DEF DrainInv

(* A step of a drain, which leaves the calls alone and is past its wait     *)
(* only once the counter is down.                                           *)
LEMMA DrainMoves ==
    ASSUME DrainInv, UNCHANGED <<providerVars, lost>>, NEW d \in Drainers, drain[d] # "none",
           drain' \in [Drainers -> {"none", "loop", "check", "await", "parked", "cell", "shutdown", "join", "done", "cancelled"}],
           \A e \in Drainers : e # d => drain'[e] = drain[e],
           drain'[d] \in PastWait => drain[d] \in PastWait \/ inFlight = 0,
           notified' \subseteq Drainers, released' \in Drainers \cup {None, "set"}, resource' \in [shutdowns : Nat, joins : Nat]
    PROVE  DrainInv'
<1>1. /\ DrainTypeOK' /\ Listed' /\ LossIsNoted' /\ ActiveIsUncertain' /\ Busy' = Busy /\ Calling' = Calling
  <2>1. Busy' = Busy /\ Calling' = Calling
    BY DEF providerVars, Busy, Calling
  <2>2. DrainTypeOK'
    BY DEF DrainInv, DrainTypeOK, providerVars
  <2>3. Listed'
    BY <2>1 DEF DrainInv, Listed, providerVars
  <2>4. LossIsNoted' /\ ActiveIsUncertain'
    BY DEF DrainInv, LossIsNoted, ActiveIsUncertain, providerVars
  <2> QED BY <2>1, <2>2, <2>3, <2>4
<1>2. Counted'
  BY <1>1 DEF DrainInv, Counted, providerVars
<1>3. ReleasedWhenQuiet'
  <2> SUFFICES ASSUME NEW e \in Drainers, drain'[e] \in PastWait
               PROVE  Busy' = {} /\ active' = {} /\ ~healthy'
    BY DEF ReleasedWhenQuiet, PastWait
  <2>1. CASE drain[e] \in PastWait
    BY <2>1, <1>1 DEF DrainInv, ReleasedWhenQuiet, PastWait, providerVars
  <2>2. CASE drain[e] \notin PastWait
    <3>1. e = d /\ inFlight = 0 /\ Counted /\ Listed /\ LossIsNoted
      BY <2>2 DEF DrainInv
    <3>2. Busy = {} /\ Calling = {}
      BY <3>1, BusyIsFinite DEF Counted, Busy, Calling
    <3> QED BY <1>1, <3>1, <3>2 DEF Listed, LossIsNoted, providerVars
  <2> QED BY <2>1, <2>2
<1> QED BY <1>1, <1>2, <1>3 DEF DrainInv

LEMMA DrainStepKeeps == ASSUME DrainInv, NEW d \in Drainers, DrainStep(d) \/ CancelDrain(d) PROVE DrainInv'
<1> USE DEF DrainInv, DrainTypeOK, PastWait
<1>1. CASE MakeFuture(d) BY <1>1, DrainMoves DEF MakeFuture
<1>2. CASE CheckCount(d) BY <1>2, DrainMoves DEF CheckCount
<1>3. CASE Park(d) BY <1>3, DrainMoves DEF Park
<1>4. CASE Wake(d) BY <1>4, DrainMoves DEF Wake
<1>5. CASE EnterCell(d) BY <1>5, DrainMoves DEF EnterCell
<1>6. CASE ShutDown(d) BY <1>6, DrainMoves DEF ShutDown
<1>7. CASE Join(d) BY <1>7, DrainMoves DEF Join
<1>8. CASE CancelDrain(d) BY <1>8, DrainMoves DEF CancelDrain
<1> QED BY <1>1, <1>2, <1>3, <1>4, <1>5, <1>6, <1>7, <1>8 DEF DrainStep

(* The loss is noted with the calls locked: what is under way is in the set. *)
LEMMA LoseKeeps == ASSUME DrainInv, NEW d \in Drainers, Lose(d) PROVE DrainInv'
<1>1. Busy' = Busy /\ Calling' = Calling
  BY DEF Lose, Busy, Calling
<1>2. DrainTypeOK'
  <2>1. CASE lost.yes
    BY <2>1 DEF Lose, DrainInv, DrainTypeOK
  <2>2. CASE ~lost.yes
    <3>1. lost' = [yes |-> TRUE, calls |-> active] /\ healthy' = FALSE /\ generation' = generation + 1
      BY <2>2 DEF Lose
    <3>2. lost' \in [yes : BOOLEAN, calls : SUBSET CallIds] /\ generation' \in Nat /\ healthy' \in BOOLEAN
      <4>1. active \in SUBSET CallIds /\ generation \in Nat
        BY DEF DrainInv, DrainTypeOK
      <4>2. [yes |-> TRUE, calls |-> active] \in [yes : BOOLEAN, calls : SUBSET CallIds]
        BY <4>1, Zenon
      <4>3. generation' \in Nat
        BY <3>1, <4>1
      <4> QED BY <3>1, <4>2, <4>3, Zenon
    <3>3. UNCHANGED <<inFlight, active, client, notified, released, resource>> /\ drain' = [drain EXCEPT ![d] = "loop"]
      BY DEF Lose
    <3> QED BY <3>2, <3>3 DEF DrainInv, DrainTypeOK
  <2> QED BY <2>1, <2>2
<1>3. Counted' /\ Listed'
  BY <1>1 DEF Lose, DrainInv, Counted, Listed
<1>4. LossIsNoted'
  BY DEF Lose, DrainInv, DrainTypeOK, LossIsNoted
<1>5. ReleasedWhenQuiet'
  BY <1>1 DEF Lose, DrainInv, DrainTypeOK, ReleasedWhenQuiet
<1>6. ActiveIsUncertain'
  BY DEF Lose, DrainInv, Listed, Calling, ActiveIsUncertain
<1> QED BY <1>2, <1>3, <1>4, <1>5, <1>6 DEF DrainInv

-----------------------------------------------------------------------------
(* What the steps of a client leave alone.                                  *)
LEMMA CallVarsKept ==
    ASSUME DrainInv, UNCHANGED callVars
    PROVE  LossIsNoted'
BY DEF DrainInv, LossIsNoted, callVars

LEMMA LeaseKeeps == ASSUME DrainInv, NEW k \in Clients, Lease(k) PROVE DrainInv'
<1>1. Busy' = Busy /\ Calling' = Calling /\ \A l \in Calling : client'[l] = client[l]
  BY DEF Lease, DrainInv, DrainTypeOK, Busy, Calling
<1>2. DrainTypeOK'
  BY DEF Lease, DrainInv, DrainTypeOK, callVars
<1>3. Counted'
  BY <1>1 DEF Lease, DrainInv, Counted
<1>4. Listed'
  BY <1>1 DEF Lease, DrainInv, Listed
<1>5. LossIsNoted'
  BY CallVarsKept DEF Lease
<1>6. ReleasedWhenQuiet'
  BY <1>1 DEF Lease, DrainInv, ReleasedWhenQuiet, callVars
<1>7. ActiveIsUncertain'
  BY <1>1 DEF Lease, DrainInv, Calling, ActiveIsUncertain, callVars
<1> QED BY <1>2, <1>3, <1>4, <1>5, <1>6, <1>7 DEF DrainInv

(* A call begins only while nothing is lost, hence nobody drains.           *)
LEMMA BeginKeeps ==
    ASSUME DrainInv, NEW k \in Clients, NEW id \in CallIds, BeginCall(k, id)
    PROVE  DrainInv'
<1>1. /\ Busy' = Busy \cup {k} /\ k \notin Busy /\ Calling' = Calling \cup {k} /\ k \notin Calling
      /\ client'[k].id = id /\ \A l \in Calling : client'[l] = client[l]
  BY DEF BeginCall, DrainInv, DrainTypeOK, Busy, Calling
<1>2. healthy /\ ~lost.yes /\ UNCHANGED <<lost, healthy, drain>> /\ \A d \in Drainers : drain[d] = "none"
  BY DEF BeginCall, Admitted, DrainInv, LossIsNoted, callVars
<1>3. DrainTypeOK'
  <2>1. inFlight' \in Nat /\ active' \subseteq CallIds
    BY DEF BeginCall, DrainInv, DrainTypeOK
  <2>2. client' \in [Clients -> [pc : {"none", "leased", "calling", "leaving"}, id : CallIds \cup {None}, lease : Nat]]
    <3>1. client[k] \in [pc : {"none", "leased", "calling", "leaving"}, id : CallIds \cup {None}, lease : Nat]
      BY DEF DrainInv, DrainTypeOK
    <3>2. [client[k] EXCEPT !.pc = "calling", !.id = id]
             \in [pc : {"none", "leased", "calling", "leaving"}, id : CallIds \cup {None}, lease : Nat]
      BY ONLY <3>1, id \in CallIds
    <3>3. client' = [client EXCEPT ![k] = [client[k] EXCEPT !.pc = "calling", !.id = id]]
      BY DEF BeginCall
    <3> QED
      BY <3>2, <3>3 DEF DrainInv, DrainTypeOK
  <2> QED BY <2>1, <2>2 DEF BeginCall, DrainInv, DrainTypeOK, callVars
<1>4. Counted'
  <2>1. Cardinality(Busy \cup {k}) = Cardinality(Busy) + 1
    BY <1>1, BusyIsFinite, FS_AddElement
  <2> QED BY <1>1, <2>1 DEF BeginCall, DrainInv, Counted
<1>5. Listed'
  <2>1. active' = active \cup {id} /\ id \notin active
    BY DEF BeginCall
  <2>2. active' = {client'[l].id : l \in Calling'}
    BY <1>1, <2>1 DEF DrainInv, Listed
  <2>3. \A l \in Calling : client[l].id # id
    BY <2>1 DEF DrainInv, Listed
  <2>4. \A l, m \in Calling' : client'[l].id = client'[m].id => l = m
    BY <1>1, <2>3 DEF DrainInv, Listed
  <2> QED BY <2>2, <2>4 DEF Listed
<1>6. LossIsNoted' /\ ReleasedWhenQuiet' /\ ActiveIsUncertain'
  BY <1>2 DEF LossIsNoted, ReleasedWhenQuiet, ActiveIsUncertain
<1> QED BY <1>3, <1>4, <1>5, <1>6 DEF DrainInv

LEMMA LeaveSetKeeps == ASSUME DrainInv, NEW k \in Clients, LeaveSet(k) PROVE DrainInv'
<1>1. /\ Busy' = Busy /\ k \in Calling /\ Calling' = Calling \ {k}
      /\ \A l \in Calling' : client'[l] = client[l]
  BY DEF LeaveSet, DrainInv, DrainTypeOK, Busy, Calling
<1>2. DrainTypeOK'
  BY DEF LeaveSet, DrainInv, DrainTypeOK, callVars
<1>3. Counted'
  BY <1>1 DEF LeaveSet, DrainInv, Counted
<1>4. Listed'
  <2>1. active' = active \ {client[k].id}
    BY DEF LeaveSet
  <2>2. active' = {client'[l].id : l \in Calling'}
    BY <1>1, <2>1 DEF DrainInv, Listed
  <2>3. \A l, m \in Calling' : client'[l].id = client'[m].id => l = m
    BY <1>1 DEF DrainInv, Listed
  <2> QED BY <2>2, <2>3 DEF Listed
<1>5. LossIsNoted'
  BY CallVarsKept DEF LeaveSet
<1>6. ReleasedWhenQuiet'
  BY <1>1 DEF LeaveSet, DrainInv, ReleasedWhenQuiet, callVars
<1>7. ActiveIsUncertain'
  BY <1>1 DEF LeaveSet, DrainInv, Calling, ActiveIsUncertain, callVars
<1> QED BY <1>2, <1>3, <1>4, <1>5, <1>6, <1>7 DEF DrainInv

LEMMA LeaveCountKeeps == ASSUME DrainInv, NEW k \in Clients, LeaveCount(k) PROVE DrainInv'
<1>1. /\ k \in Busy /\ Busy' = Busy \ {k} /\ Calling' = Calling
      /\ \A l \in Calling : client'[l] = client[l]
  BY DEF LeaveCount, DrainInv, DrainTypeOK, Busy, Calling
<1>2. Counted' /\ inFlight' \in Nat
  <2>1. Cardinality(Busy \ {k}) = Cardinality(Busy) - 1 /\ Cardinality(Busy \ {k}) \in Nat
    BY <1>1, BusyIsFinite, FS_RemoveElement, FS_CardinalityType
  <2> QED BY <1>1, <2>1 DEF LeaveCount, DrainInv, Counted
<1>3. DrainTypeOK'
  BY ZenonT(60), <1>2 DEF LeaveCount, DrainInv, DrainTypeOK, callVars
<1>4. Listed'
  <2>1. active' = active
    BY DEF LeaveCount
  <2> QED BY <1>1, <2>1 DEF DrainInv, Listed
<1>5. LossIsNoted'
  BY CallVarsKept DEF LeaveCount
<1>6. ReleasedWhenQuiet'
  BY <1>1 DEF LeaveCount, DrainInv, ReleasedWhenQuiet, callVars
<1>7. ActiveIsUncertain'
  BY <1>1 DEF LeaveCount, DrainInv, Calling, ActiveIsUncertain, callVars
<1> QED BY <1>2, <1>3, <1>4, <1>5, <1>6, <1>7 DEF DrainInv

LEMMA DrainInvStep == ASSUME DrainInv, [DrainNext]_drainVars PROVE DrainInv'
<1>1. ASSUME NEW k \in Clients, Lease(k) \/ CallEnds(k) \/ \E id \in CallIds : BeginCall(k, id) PROVE DrainInv'
  BY <1>1, LeaseKeeps, LeaveSetKeeps, LeaveCountKeeps, BeginKeeps DEF CallEnds
<1>2. ASSUME NEW d \in Drainers, Lose(d) \/ DrainStep(d) \/ CancelDrain(d) PROVE DrainInv'
  BY <1>2, LoseKeeps, DrainStepKeeps
<1>3. CASE UNCHANGED drainVars
  <2>1. Busy' = Busy /\ Calling' = Calling
    BY <1>3 DEF drainVars, Busy, Calling
  <2> QED BY <1>3, <2>1 DEF drainVars, DrainInv, DrainTypeOK, Counted, Listed, LossIsNoted, ReleasedWhenQuiet,
                            ActiveIsUncertain
<1> QED BY <1>1, <1>2, <1>3 DEF DrainNext

LEMMA DrainInvHolds == DrainSpec => []DrainInv
<1>1. DrainInit => DrainInv BY InitDrains
<1>2. DrainInv /\ [DrainNext]_drainVars => DrainInv' BY DrainInvStep
<1> QED BY <1>1, <1>2, PTL DEF DrainSpec

-----------------------------------------------------------------------------
(* lose_and_drain does not release the resource under a call, for any       *)
(* number of clients and of reports, of which any may be dropped.           *)
THEOREM QuietRelease == DrainSpec => []ReleasedWhenQuiet
<1>1. DrainInv => ReleasedWhenQuiet BY DEF DrainInv
<1> QED BY <1>1, DrainInvHolds, PTL

(* A call under way at the loss is reported as uncertain.                   *)
THEOREM UncertainIsReported == DrainSpec => []ActiveIsUncertain
<1>1. DrainInv => ActiveIsUncertain BY DEF DrainInv
<1> QED BY <1>1, DrainInvHolds, PTL

(* What the first report of the loss noted is what every later one finds.   *)
THEOREM FirstLossStays == DrainSpec => UncertainStays
<1>1. [DrainNext]_drainVars => [lost.yes => lost' = lost]_drainVars
  BY DEF DrainNext, Lease, CallEnds, LeaveSet, LeaveCount, BeginCall, Lose, DrainStep, MakeFuture, CheckCount, Park,
         Wake, EnterCell, ShutDown, Join, CancelDrain, drainVars, callVars
<1> QED BY <1>1, PTL DEF DrainSpec, UncertainStays

-----------------------------------------------------------------------------
DroppedSet == {d \in Drainers : drain[d] = "cancelled"}

(* Whoever initialises the cell is in it, and each time it was entered but  *)
(* one it was left by a drain that was dropped.                             *)
OneInitialises ==
    /\ released \in Drainers \cup {None, "set"}
    /\ drain \in [Drainers -> {"none", "loop", "check", "await", "parked", "cell", "shutdown", "join", "done", "cancelled"}]
    /\ resource \in [shutdowns : Nat, joins : Nat]
    /\ resource.shutdowns <= (IF released = None THEN 0 ELSE 1) + Cardinality(DroppedSet)
    /\ \A d \in Drainers : drain[d] \in {"shutdown", "join"} => released = d

LEMMA DroppedIsFinite == IsFiniteSet(DroppedSet) /\ Cardinality(DroppedSet) \in Nat
<1>1. DroppedSet \in SUBSET Drainers
  BY DEF DroppedSet
<1> QED BY <1>1, DrainAssumption, FS_Subset, FS_CardinalityType

(* A step that drops no drain.                                              *)
LEMMA NoneDropped ==
    ASSUME OneInitialises, NEW d \in Drainers, NEW pc \in {"loop", "check", "await", "parked", "cell", "shutdown", "join", "done"},
           drain[d] # "cancelled", drain' = [drain EXCEPT ![d] = pc]
    PROVE  DroppedSet' = DroppedSet
BY DEF OneInitialises, DroppedSet

(* The resource is told to shut down once more at most for every drain that *)
(* is dropped: never twice when none is.                                    *)
THEOREM OneRelease == DrainSpec => []ReleasedOnce
<1>1. DrainInit => OneInitialises
  <2> SUFFICES ASSUME DrainInit PROVE OneInitialises
    OBVIOUS
  <2> QED BY DroppedIsFinite DEF DrainInit, OneInitialises
<1>2. ASSUME OneInitialises, [DrainNext]_drainVars PROVE OneInitialises'
  <2> USE DrainAssumption, DroppedIsFinite
  <2>1. CASE UNCHANGED <<drain, released, resource>>
    BY <1>2, <2>1 DEF OneInitialises, DroppedSet
  <2>2. ASSUME NEW d \in Drainers, Lose(d) \/ MakeFuture(d) \/ CheckCount(d) \/ Park(d) \/ Wake(d)
        PROVE  OneInitialises'
    <3>1. DroppedSet' = DroppedSet
      BY <1>2, <2>2, NoneDropped DEF Lose, MakeFuture, CheckCount, Park, Wake
    <3> QED BY <1>2, <2>2, <3>1 DEF Lose, MakeFuture, CheckCount, Park, Wake, OneInitialises
  <2>3. ASSUME NEW d \in Drainers, EnterCell(d) PROVE OneInitialises'
    <3>1. DroppedSet' = DroppedSet
      BY <1>2, <2>3, NoneDropped DEF EnterCell
    <3>2. CASE released = None
      BY <1>2, <2>3, <3>1, <3>2 DEF EnterCell, OneInitialises
    <3>3. CASE released # None
      BY <1>2, <2>3, <3>1, <3>3 DEF EnterCell, OneInitialises
    <3> QED BY <3>2, <3>3
  <2>4. ASSUME NEW d \in Drainers, ShutDown(d) \/ Join(d) PROVE OneInitialises'
    <3>1. DroppedSet' = DroppedSet
      BY <1>2, <2>4, NoneDropped DEF ShutDown, Join
    <3> QED BY <1>2, <2>4, <3>1 DEF ShutDown, Join, OneInitialises
  <2>5. ASSUME NEW d \in Drainers, CancelDrain(d) PROVE OneInitialises'
    <3>1. DroppedSet' = DroppedSet \cup {d} /\ d \notin DroppedSet
      BY <1>2, <2>5 DEF CancelDrain, OneInitialises, DroppedSet
    <3>2. Cardinality(DroppedSet') = Cardinality(DroppedSet) + 1
      BY <3>1, FS_AddElement
    <3> QED BY <1>2, <2>5, <3>2 DEF CancelDrain, OneInitialises
  <2>6. ASSUME NEW k \in Clients, Lease(k) \/ CallEnds(k) PROVE UNCHANGED <<drain, released, resource>>
    BY <2>6 DEF Lease, CallEnds, LeaveSet, LeaveCount, callVars
  <2>7. ASSUME NEW k \in Clients, NEW id \in CallIds, BeginCall(k, id) PROVE UNCHANGED <<drain, released, resource>>
    BY <2>7 DEF BeginCall, callVars
  <2>8. UNCHANGED drainVars => UNCHANGED <<drain, released, resource>>
    BY DEF drainVars
  <2> QED BY <1>2, <2>1, <2>2, <2>3, <2>4, <2>5, <2>6, <2>7, <2>8 DEF DrainNext, DrainStep
<1>3. OneInitialises => ReleasedOnce
  BY DroppedIsFinite DEF OneInitialises, ReleasedOnce, DroppedSet
<1> QED BY <1>1, <1>2, <1>3, PTL DEF DrainSpec

(* The loss of a service is drained and reported as it should be, whoever   *)
(* reports it, calls or is dropped meanwhile (lose_and_drain).              *)
THEOREM DrainsAreSafe == DrainSpec => DrainSafe
<1>1. DrainInv => DrainTypeOK
  BY DEF DrainInv
<1>2. DrainSpec => [](DrainTypeOK /\ ReleasedWhenQuiet /\ ActiveIsUncertain /\ ReleasedOnce)
  BY <1>1, DrainInvHolds, QuietRelease, UncertainIsReported, OneRelease, PTL
<1> QED
  BY <1>2, FirstLossStays DEF DrainSafe
-----------------------------------------------------------------------------
(* The parents of a scope are of a lower rank than the scope is: what keeps *)
(* the walk of a lookup from going round.                                   *)
Ranked ==
    \E rank \in [DOMAIN parents -> Nat] :
        \A s \in DOMAIN parents : parents[s] # Nothing => rank[parents[s]] < rank[s]

(* What the least set that is closed upwards holds.                         *)
LEMMA AncestorsHold ==
    ASSUME RegistryTypeOK, NEW s \in Scopes
    PROVE  s \in Ancestors(s) /\ Upwards(Ancestors(s)) /\ Ancestors(s) \in SUBSET Scopes
<1>1. s \in Ancestors(s) /\ Ancestors(s) \in SUBSET Scopes
  BY DEF Ancestors
<1>2. Upwards(Ancestors(s))
  <2> SUFFICES ASSUME NEW x \in Ancestors(s), x \in DOMAIN parents, parents[x] # Nothing PROVE parents[x] \in Ancestors(s)
    BY DEF Upwards
  <2>1. parents[x] \in Scopes
    BY DEF RegistryTypeOK
  <2>2. \A S \in SUBSET Scopes : s \in S /\ Upwards(S) => parents[x] \in S
    BY DEF Ancestors, Upwards
  <2> QED BY <2>1, <2>2 DEF Ancestors
<1> QED BY <1>1, <1>2

LEMMA AncestorsAreLeast ==
    ASSUME NEW s \in Scopes, NEW S \in SUBSET Scopes, s \in S, Upwards(S)
    PROVE  Ancestors(s) \subseteq S
BY DEF Ancestors

LEMMA AncestorsOfParent ==
    ASSUME RegistryTypeOK, NEW s \in DOMAIN parents, parents[s] # Nothing
    PROVE  parents[s] \in Scopes /\ Ancestors(s) = {s} \cup Ancestors(parents[s])
<1>1. s \in Scopes /\ parents[s] \in Scopes
  BY DEF RegistryTypeOK
<1>2. Upwards({s} \cup Ancestors(parents[s]))
  BY <1>1, AncestorsHold DEF Upwards
<1>3. Ancestors(s) \subseteq {s} \cup Ancestors(parents[s])
  <2>1. {s} \cup Ancestors(parents[s]) \in SUBSET Scopes
    BY <1>1, AncestorsHold
  <2> HIDE DEF Ancestors
  <2> QED BY <1>1, <1>2, <2>1, AncestorsAreLeast
<1>4. parents[s] \in Ancestors(s)
  BY <1>1, AncestorsHold DEF Upwards
<1>5. Ancestors(parents[s]) \subseteq Ancestors(s)
  BY <1>1, <1>4, AncestorsHold, AncestorsAreLeast
<1> QED BY <1>1, <1>3, <1>5, AncestorsHold

LEMMA AncestorsOfRoot ==
    ASSUME RegistryTypeOK, NEW s \in Scopes, ~(s \in DOMAIN parents /\ parents[s] # Nothing)
    PROVE  Ancestors(s) = {s}
<1>1. Upwards({s})
  BY DEF Upwards
<1> QED BY <1>1, AncestorsHold, AncestorsAreLeast

(* Ranks fall along the parents, so that no scope is above itself.          *)
LEMMA RankedAreTrees == ASSUME RegistryTypeOK, Ranked PROVE ScopesAreTrees
<1> SUFFICES ASSUME NEW s \in DOMAIN parents, parents[s] # Nothing PROVE s \notin Ancestors(parents[s])
  BY DEF ScopesAreTrees
<1>1. PICK rank \in [DOMAIN parents -> Nat] :
          \A x \in DOMAIN parents : parents[x] # Nothing => rank[parents[x]] < rank[x]
  BY DEF Ranked
<1> DEFINE Higher == {x \in DOMAIN parents : rank[x] < rank[s]}
<1>2. parents[s] \in Scopes /\ parents[s] \in Higher /\ Higher \in SUBSET Scopes
  BY <1>1 DEF RegistryTypeOK
<1>3. Upwards(Higher)
  <2> SUFFICES ASSUME NEW x \in Higher, parents[x] # Nothing PROVE parents[x] \in Higher
    BY DEF Upwards
  <2>1. parents[x] \in DOMAIN parents /\ rank[parents[x]] < rank[x] /\ rank[x] < rank[s]
    BY <1>1 DEF RegistryTypeOK
  <2>2. rank[parents[x]] \in Nat /\ rank[x] \in Nat /\ rank[s] \in Nat
    BY <2>1
  <2> QED BY <2>1, <2>2
<1>4. s \notin Higher
  <2>1. rank[s] \in Nat
    OBVIOUS
  <2> QED BY <2>1
<1> HIDE DEF Higher
<1> QED BY <1>2, <1>3, <1>4, AncestorsAreLeast

LEMMA AncestorsAreCounted ==
    ASSUME RegistryTypeOK, NEW s \in Scopes
    PROVE  IsFiniteSet(Ancestors(s)) /\ Cardinality(Ancestors(s)) \in 1 .. Cardinality(Scopes)
<1>1. IsFiniteSet(Ancestors(s)) /\ Cardinality(Ancestors(s)) <= Cardinality(Scopes)
  BY AncestorsHold, FS_Subset, RegistryAssumption
<1>2. Cardinality(Ancestors(s)) \in Nat /\ Cardinality(Ancestors(s)) # 0 /\ Cardinality(Scopes) \in Nat
  BY <1>1, AncestorsHold, FS_CardinalityType, FS_EmptySet, RegistryAssumption
<1> QED BY <1>1, <1>2

-----------------------------------------------------------------------------
(* Where the walk of a lookup begins.                                       *)
WalkStart(s) == [at |-> s, found |-> Nothing]

(* The recursion of Lookup is a walk: there is a function that satisfies it *)
(* (by induction on its length), so the one that CHOOSE takes does.         *)
LEMMA LookupWalks ==
    ASSUME NEW s, NEW v
    PROVE  \E walk : /\ walk[0] = WalkStart(s)
                     /\ \A n \in 0 .. Cardinality(Scopes) : n # 0 => walk[n] = LookUpwards(walk[n - 1], v)
                     /\ Lookup(s, v) = walk[Cardinality(Scopes)].found
<1> DEFINE M == Cardinality(Scopes)
           walk == CHOOSE f : f = [n \in 0 .. M |-> IF n = 0 THEN WalkStart(s) ELSE LookUpwards(f[n - 1], v)]
<1>a. Lookup(s, v) = walk[M].found
  BY DEF Lookup, WalkStart
<1>b. M \in Nat
  BY FS_CardinalityType, RegistryAssumption
<1> HIDE DEF M
<1> DEFINE Walks(f, m) == f = [n \in 0 .. m |-> IF n = 0 THEN WalkStart(s) ELSE LookUpwards(f[n - 1], v)]
           Lengths == {m \in Nat : \E f : Walks(f, m)}
<1>1. 0 \in Lengths
  <2> DEFINE f == [n \in 0 .. 0 |-> WalkStart(s)]
  <2>1. \A n \in 0 .. 0 : n = 0
    OBVIOUS
  <2>2. f = [n \in 0 .. 0 |-> IF n = 0 THEN WalkStart(s) ELSE LookUpwards(f[n - 1], v)]
    BY <2>1
  <2> QED BY <2>2
<1>2. ASSUME NEW m \in Lengths PROVE m + 1 \in Lengths
  <2>1. PICK f : Walks(f, m)
    OBVIOUS
  <2> DEFINE g == [n \in 0 .. m + 1 |-> IF n = m + 1 THEN LookUpwards(f[m], v) ELSE f[n]]
  <2>2. ASSUME NEW n \in 0 .. m + 1 PROVE g[n] = IF n = 0 THEN WalkStart(s) ELSE LookUpwards(g[n - 1], v)
    <3>1. m \in Nat
      OBVIOUS
    <3>2. CASE n = m + 1
      <4>1. n # 0 /\ n - 1 = m /\ m \in 0 .. m + 1 /\ m # m + 1
        BY <3>1, <3>2
      <4>2. g[n] = LookUpwards(f[m], v) /\ g[m] = f[m]
        BY <3>2, <4>1
      <4> QED BY <4>1, <4>2
    <3>3. CASE n # m + 1 /\ n # 0
      <4>1. n \in 0 .. m /\ n - 1 \in 0 .. m + 1 /\ n - 1 # m + 1
        BY <3>1, <3>3
      <4>2. g[n] = f[n] /\ g[n - 1] = f[n - 1]
        BY <3>3, <4>1
      <4>3. f[n] = LookUpwards(f[n - 1], v)
        BY <2>1, <3>3, <4>1
      <4> QED BY <3>3, <4>2, <4>3
    <3>4. CASE n # m + 1 /\ n = 0
      <4>1. n \in 0 .. m
        BY <3>1, <3>4
      <4>2. g[n] = f[n] /\ f[n] = WalkStart(s)
        BY <2>1, <3>4, <4>1
      <4> QED BY <3>4, <4>2
    <3> QED BY <3>2, <3>3, <3>4
  <2>3. Walks(g, m + 1)
    BY <2>2
  <2> HIDE DEF g, Walks
  <2>4. m + 1 \in Nat
    OBVIOUS
  <2> QED BY <2>3, <2>4
<1>3. M \in Lengths
  <2> HIDE DEF Lengths
  <2>1. Lengths \in SUBSET Nat
    BY DEF Lengths
  <2> QED BY <1>b, <1>1, <1>2, <2>1, NumbersByStep
<1>4. walk = CHOOSE f : Walks(f, M)
  OBVIOUS
<1>5. Walks(walk, M)
  <2> HIDE DEF Walks, walk
  <2> QED BY <1>3, <1>4
<1>6. 0 \in 0 .. M
  BY <1>b
<1> HIDE DEF walk
<1> QED BY <1>a, <1>5, <1>6 DEF M

(* The scopes with a registration of the service.                           *)
Holding(v) == {a \in Scopes : <<a, v>> \in DOMAIN registrations}

(* What n steps of the walk from s have found.                              *)
Walked(w, n, s, v) ==
    /\ w \in [at : Scopes \cup {Nothing}, found : Tokens \cup {Nothing}]
    /\ w.at = Nothing => w.found = Nothing /\ Holding(v) \cap Ancestors(s) = {}
    /\ w.at # Nothing => w.at \in Ancestors(s) /\ Holding(v) \cap Ancestors(s) \subseteq Ancestors(w.at)
    /\ w.found # Nothing => w.at \in Holding(v) /\ w.found = registrations[<<w.at, v>>]
    /\ w.found = Nothing /\ w.at # Nothing => n + Cardinality(Ancestors(w.at)) <= Cardinality(Scopes)

LEMMA NothingIsApart == Nothing \notin Scopes /\ Nothing \notin Tokens
BY RegistryAssumption

LEMMA WalkStarts ==
    ASSUME RegistryTypeOK, NEW s \in Scopes, NEW v
    PROVE  Walked(WalkStart(s), 0, s, v)
<1>1. s # Nothing
  BY NothingIsApart
<1>2. s \in Ancestors(s)
  BY AncestorsHold
<1>3. 0 + Cardinality(Ancestors(s)) <= Cardinality(Scopes)
  <2>1. Cardinality(Ancestors(s)) \in 1 .. Cardinality(Scopes)
    BY AncestorsAreCounted
  <2>2. Cardinality(Scopes) \in Nat
    BY FS_CardinalityType, RegistryAssumption
  <2> QED BY <2>1, <2>2
<1> QED BY <1>1, <1>2, <1>3 DEF Walked, WalkStart

(* A step of the walk: it stops, finds, goes to the parent, or ends at a root. *)
(* Every scope it passes is one less of those above it.                     *)
LEMMA WalkGoesOn ==
    ASSUME RegistryTypeOK, ScopesAreTrees, NEW s \in Scopes, NEW v, NEW n \in Nat, NEW w, Walked(w, n, s, v)
    PROVE  Walked(LookUpwards(w, v), n + 1, s, v)
<1> DEFINE next == LookUpwards(w, v)
<1>1. w \in [at : Scopes \cup {Nothing}, found : Tokens \cup {Nothing}]
  BY DEF Walked
<1>2. CASE w.found # Nothing \/ w.at = Nothing
  <2>1. next = w
    BY <1>2 DEF LookUpwards
  <2>2. w.found = Nothing => w.at = Nothing
    BY <1>2
  <2> QED BY <2>1, <2>2 DEF Walked
<1>3. CASE w.found = Nothing /\ w.at # Nothing /\ <<w.at, v>> \in DOMAIN registrations
  <2>1. next = [w EXCEPT !.found = registrations[<<w.at, v>>]]
    BY <1>3 DEF LookUpwards
  <2>2. registrations[<<w.at, v>>] \in Tokens
    BY <1>3 DEF RegistryTypeOK
  <2>3. next.at = w.at /\ next.found = registrations[<<w.at, v>>] /\ next.found # Nothing
    BY <1>1, <2>1, <2>2, NothingIsApart
  <2>4. next \in [at : Scopes \cup {Nothing}, found : Tokens \cup {Nothing}]
    BY <1>1, <2>1, <2>2
  <2>5. w.at \in Holding(v)
    BY <1>1, <1>3 DEF Holding
  <2> HIDE DEF next
  <2> QED BY <1>3, <2>3, <2>4, <2>5 DEF Walked, next
<1>4. CASE w.found = Nothing /\ w.at # Nothing /\ <<w.at, v>> \notin DOMAIN registrations /\ w.at \in DOMAIN parents /\ parents[w.at] # Nothing
  <2> DEFINE p == parents[w.at]
  <2>1. next = [w EXCEPT !.at = p]
    BY <1>4 DEF LookUpwards
  <2>2. p \in Scopes /\ Ancestors(w.at) = {w.at} \cup Ancestors(p) /\ w.at \notin Ancestors(p) /\ w.at \in Scopes
    BY <1>1, <1>4, AncestorsOfParent DEF ScopesAreTrees
  <2>3. next.at = p /\ next.found = Nothing /\ p # Nothing
    BY <1>1, <1>4, <2>1
  <2>4. next \in [at : Scopes \cup {Nothing}, found : Tokens \cup {Nothing}]
    BY <1>1, <2>1, <2>2
  <2>5. p \in Ancestors(s)
    BY <1>4, AncestorsHold DEF Walked, Upwards
  <2>6. w.at \notin Holding(v)
    BY <1>4 DEF Holding
  <2>7. Holding(v) \cap Ancestors(s) \subseteq Ancestors(p)
    BY <1>4, <2>2, <2>6 DEF Walked
  <2>8. n + 1 + Cardinality(Ancestors(p)) <= Cardinality(Scopes)
    <3>1. IsFiniteSet(Ancestors(p)) /\ Cardinality(Ancestors(p)) \in Nat
      BY <2>2, AncestorsAreCounted
    <3>2. Cardinality(Ancestors(w.at)) = Cardinality(Ancestors(p)) + 1
      <4>1. Ancestors(w.at) = Ancestors(p) \cup {w.at}
        BY <2>2
      <4> QED BY <2>2, <3>1, <4>1, FS_AddElement
    <3>3. n + Cardinality(Ancestors(w.at)) <= Cardinality(Scopes)
      BY <1>4 DEF Walked
    <3>4. Cardinality(Scopes) \in Nat
      BY FS_CardinalityType, RegistryAssumption
    <3> QED BY <3>1, <3>2, <3>3, <3>4
  <2> HIDE DEF next, p
  <2> QED BY <2>3, <2>4, <2>5, <2>7, <2>8 DEF Walked, next
<1>5. CASE w.found = Nothing /\ w.at # Nothing /\ <<w.at, v>> \notin DOMAIN registrations /\ ~(w.at \in DOMAIN parents /\ parents[w.at] # Nothing)
  <2>1. next = [w EXCEPT !.at = Nothing]
    BY <1>5 DEF LookUpwards
  <2>2. next.at = Nothing /\ next.found = Nothing /\ next \in [at : Scopes \cup {Nothing}, found : Tokens \cup {Nothing}]
    BY <1>1, <1>5, <2>1
  <2>3. Ancestors(w.at) = {w.at}
    BY <1>1, <1>5, AncestorsOfRoot
  <2>4. w.at \notin Holding(v)
    BY <1>5 DEF Holding
  <2>5. Holding(v) \cap Ancestors(s) = {}
    BY <1>5, <2>3, <2>4 DEF Walked
  <2> HIDE DEF next
  <2> QED BY <2>2, <2>5 DEF Walked, next
<1> QED BY <1>2, <1>3, <1>4, <1>5

(* After a step for each scope the walk has found a registration or ended.  *)
LEMMA WalksFind ==
    ASSUME RegistryTypeOK, ScopesAreTrees, NEW s \in Scopes, NEW v
    PROVE  \E w : Walked(w, Cardinality(Scopes), s, v) /\ Lookup(s, v) = w.found
<1> DEFINE M == Cardinality(Scopes)
<1>2. M \in Nat
  BY FS_CardinalityType, RegistryAssumption
<1>3. PICK walk : /\ walk[0] = WalkStart(s)
                  /\ \A n \in 0 .. M : n # 0 => walk[n] = LookUpwards(walk[n - 1], v)
                  /\ Lookup(s, v) = walk[M].found
  BY LookupWalks
<1> HIDE DEF M
<1> DEFINE Good == {n \in Nat : n <= M => Walked(walk[n], n, s, v)}
<1>4. 0 \in Good
  BY <1>3, WalkStarts
<1>5. ASSUME NEW n \in Good PROVE n + 1 \in Good
  <2>1. n \in Nat /\ n + 1 \in Nat
    OBVIOUS
  <2> SUFFICES ASSUME n + 1 <= M PROVE Walked(walk[n + 1], n + 1, s, v)
    BY <2>1
  <2>2. n <= M /\ n + 1 \in 0 .. M /\ n + 1 # 0 /\ (n + 1) - 1 = n
    BY <1>2, <2>1
  <2>3. walk[n + 1] = LookUpwards(walk[n], v)
    BY <1>3, <2>2
  <2>4. Walked(walk[n], n, s, v)
    BY <2>2
  <2> QED BY <2>1, <2>3, <2>4, WalkGoesOn
<1>6. M \in Good
  <2> HIDE DEF Good
  <2>1. Good \in SUBSET Nat
    BY DEF Good
  <2> QED BY <1>2, <1>4, <1>5, <2>1, NumbersByStep
<1>7. Walked(walk[M], M, s, v)
  BY <1>2, <1>6
<1> QED BY <1>3, <1>7 DEF M

(* In trees, what the walk found is the registration of the nearest.        *)
LEMMA TreesAreLookedUp == ASSUME RegistryTypeOK, ScopesAreTrees PROVE LookupIsNearest
<1> SUFFICES ASSUME NEW s \in Scopes, NEW v \in Services
             PROVE  LET with == {a \in Ancestors(s) : <<a, v>> \in DOMAIN registrations}
                    IN IF with = {} THEN Lookup(s, v) = Nothing
                       ELSE \E a \in with : /\ Lookup(s, v) = registrations[<<a, v>>]
                                            /\ \A b \in with : b \in Ancestors(a)
  BY DEF LookupIsNearest
<1> DEFINE with == {a \in Ancestors(s) : <<a, v>> \in DOMAIN registrations}
<1>1. PICK w : Walked(w, Cardinality(Scopes), s, v) /\ Lookup(s, v) = w.found
  BY WalksFind
<1>2. with = Holding(v) \cap Ancestors(s)
  BY AncestorsHold DEF Holding
<1>3. w.found # Nothing \/ w.at = Nothing
  <2> SUFFICES ASSUME w.found = Nothing, w.at # Nothing PROVE FALSE
    OBVIOUS
  <2>1. w.at \in Scopes /\ Cardinality(Scopes) + Cardinality(Ancestors(w.at)) <= Cardinality(Scopes)
    BY <1>1 DEF Walked
  <2>2. Cardinality(Ancestors(w.at)) \in 1 .. Cardinality(Scopes) /\ Cardinality(Scopes) \in Nat
    BY <2>1, AncestorsAreCounted, FS_CardinalityType, RegistryAssumption
  <2> QED BY <2>1, <2>2
<1>4. CASE w.found # Nothing
  <2>1. w.at \in with /\ w.found = registrations[<<w.at, v>>] /\ \A b \in with : b \in Ancestors(w.at)
    BY <1>1, <1>2, <1>4 DEF Walked
  <2> QED BY <1>1, <2>1
<1>5. CASE w.at = Nothing
  <2>1. with = {} /\ w.found = Nothing
    BY <1>1, <1>2, <1>5 DEF Walked
  <2> QED BY <1>1, <2>1
<1> QED BY <1>3, <1>4, <1>5
-----------------------------------------------------------------------------
(* The numbers that were given out are behind the counter.                  *)
TokensAreNumbered == IsFiniteSet(tokens) /\ \A t \in tokens : t.registration <= nextId

(* What every step of the registry keeps.                                   *)
RegistryIndInv == RegistryTypeOK /\ Ranked /\ KeptUntilUndone /\ EachTokenOnce /\ TokensAreNumbered

LEMMA InitRegistry == RegistryInit => RegistryIndInv
<1> SUFFICES ASSUME RegistryInit PROVE RegistryIndInv
  OBVIOUS
<1>1. DOMAIN parents = {} /\ DOMAIN registrations = {} /\ tokens = {} /\ nextId = 0 /\ undone = {}
  BY DEF RegistryInit
<1>2. RegistryTypeOK
  BY <1>1, RegistryAssumption DEF RegistryTypeOK
<1>3. Ranked
  <2>1. [s \in DOMAIN parents |-> 0] \in [DOMAIN parents -> Nat]
    OBVIOUS
  <2> QED BY <1>1, <2>1 DEF Ranked
<1>4. KeptUntilUndone /\ EachTokenOnce /\ TokensAreNumbered
  BY <1>1, FS_EmptySet DEF KeptUntilUndone, EachTokenOnce, TokensAreNumbered
<1> QED BY <1>2, <1>3, <1>4 DEF RegistryIndInv

LEMMA ScopesAreAdded ==
    ASSUME RegistryIndInv, NEW s \in Scopes, NEW p \in Scopes \cup {Nothing}, AddScope(s, p)
    PROVE  RegistryIndInv'
<1> USE DEF RegistryIndInv
<1>1. /\ p \in DOMAIN parents \cup {Nothing} /\ s \notin DOMAIN parents
      /\ DOMAIN parents' = DOMAIN parents \cup {s}
      /\ parents'[s] = p /\ \A x \in DOMAIN parents : parents'[x] = parents[x]
      /\ UNCHANGED <<registrations, nextId, tokens, undone>>
  BY DEF AddScope, Put
<1>2. RegistryTypeOK'
  BY <1>1 DEF RegistryTypeOK
<1>3. Ranked'
  <2>1. PICK rank \in [DOMAIN parents -> Nat] :
            \A x \in DOMAIN parents : parents[x] # Nothing => rank[parents[x]] < rank[x]
    BY DEF Ranked
  <2> DEFINE new == [x \in DOMAIN parents \cup {s} |-> IF x # s THEN rank[x] ELSE IF p = Nothing THEN 0 ELSE rank[p] + 1]
  <2>2. \A x \in DOMAIN parents : new[x] = rank[x] /\ rank[x] \in Nat
    BY <1>1
  <2>3. new[s] = IF p = Nothing THEN 0 ELSE rank[p] + 1
    OBVIOUS
  <2>4. new \in [DOMAIN parents' -> Nat]
    <3>1. ASSUME NEW x \in DOMAIN parents' PROVE new[x] \in Nat
      BY <1>1, <2>2, <2>3
    <3> QED BY <1>1, <3>1
  <2> HIDE DEF new
  <2>5. ASSUME NEW x \in DOMAIN parents', parents'[x] # Nothing PROVE new[parents'[x]] < new[x]
    <3>1. CASE x = s
      <4>1. p \in DOMAIN parents /\ parents'[x] = p
        BY <1>1, <2>5, <3>1
      <4>2. p # Nothing
        BY <2>5, <4>1
      <4> QED BY <2>2, <2>3, <3>1, <4>1, <4>2
    <3>2. CASE x # s
      <4>1. x \in DOMAIN parents /\ parents'[x] = parents[x] /\ parents[x] \in DOMAIN parents
        BY <1>1, <2>5, <3>2 DEF RegistryTypeOK
      <4>2. rank[parents[x]] < rank[x]
        BY <2>1, <2>5, <4>1
      <4> QED BY <2>2, <4>1, <4>2
    <3> QED BY <3>1, <3>2
  <2> QED BY <2>4, <2>5 DEF Ranked
<1>4. KeptUntilUndone' /\ EachTokenOnce' /\ TokensAreNumbered'
  BY <1>1 DEF KeptUntilUndone, Owns, EachTokenOnce, TokensAreNumbered
<1> QED BY <1>2, <1>3, <1>4

LEMMA ServicesAreRegistered ==
    ASSUME RegistryIndInv, NEW s \in Scopes, NEW v \in Services, NEW i \in Instances, Register(s, v, i)
    PROVE  RegistryIndInv'
<1> USE DEF RegistryIndInv
<1> DEFINE t == Token(s, v, i)
           k == <<s, v>>
<1>1. /\ nextId < MaxId /\ s \in DOMAIN parents /\ k \notin DOMAIN registrations
      /\ DOMAIN registrations' = DOMAIN registrations \cup {k}
      /\ registrations'[k] = t /\ \A x \in DOMAIN registrations : registrations'[x] = registrations[x]
      /\ nextId' = nextId + 1 /\ tokens' = tokens \cup {t} /\ UNCHANGED <<parents, undone>>
  BY DEF Register, Put
<1>2. nextId \in Nat /\ MaxId \in Nat /\ nextId + 1 \in 1 .. MaxId
  BY <1>1, RegistryAssumption DEF RegistryTypeOK
<1>3. t \in Tokens /\ t.registration = nextId + 1 /\ t.scope = s /\ t.service = v
  BY <1>2 DEF Token, Tokens
<1> HIDE DEF t, k
<1>4. RegistryTypeOK'
  <2>1. nextId' \in 0 .. MaxId /\ tokens' \subseteq Tokens /\ undone' \subseteq tokens'
    BY <1>1, <1>2, <1>3 DEF RegistryTypeOK
  <2>2. ASSUME NEW x \in DOMAIN registrations'
        PROVE  registrations'[x] \in tokens' /\ x = <<registrations'[x].scope, registrations'[x].service>> /\ x[1] \in DOMAIN parents'
    <3>1. CASE x = k
      BY <1>1, <1>3, <3>1 DEF k
    <3>2. CASE x # k
      BY <1>1, <3>2 DEF RegistryTypeOK
    <3> QED BY <3>1, <3>2
  <2> QED BY <1>1, <2>1, <2>2 DEF RegistryTypeOK
<1>5. Ranked'
  BY <1>1 DEF Ranked
<1>6. KeptUntilUndone'
  <2> SUFFICES ASSUME NEW u \in tokens' \ undone' PROVE Owns(u)'
    BY DEF KeptUntilUndone
  <2>1. CASE u = t
    BY <1>1, <1>3, <2>1 DEF Owns, k
  <2>2. CASE u # t
    BY <1>1, <2>2 DEF KeptUntilUndone, Owns
  <2> QED BY <2>1, <2>2
<1>7. t \notin tokens
  BY <1>2, <1>3 DEF TokensAreNumbered
<1>8. EachTokenOnce' /\ IsFiniteSet(tokens')
  BY <1>1, <1>7, FS_AddElement DEF EachTokenOnce, TokensAreNumbered
<1>9. \A u \in tokens' : u.registration <= nextId'
  <2> SUFFICES ASSUME NEW u \in tokens' PROVE u.registration <= nextId + 1
    BY <1>1
  <2>1. CASE u = t
    BY <1>2, <1>3, <2>1
  <2>2. CASE u # t
    <3>1. u \in tokens /\ u.registration \in 1 .. MaxId /\ u.registration <= nextId
      BY <1>1, <2>2 DEF TokensAreNumbered, RegistryTypeOK, Tokens
    <3> QED BY <1>2, <3>1
  <2> QED BY <2>1, <2>2
<1> QED BY <1>4, <1>5, <1>6, <1>8, <1>9 DEF TokensAreNumbered

LEMMA TokensAreUndone ==
    ASSUME RegistryIndInv, NEW t \in tokens, Undo(t)
    PROVE  RegistryIndInv'
<1> USE DEF RegistryIndInv
<1>1. undone' = undone \cup {t} /\ UNCHANGED <<parents, nextId, tokens>>
  BY DEF Undo
<1>2. /\ DOMAIN registrations' \subseteq DOMAIN registrations
      /\ \A x \in DOMAIN registrations' : registrations'[x] = registrations[x]
      /\ \A x \in DOMAIN registrations : registrations[x] # t => x \in DOMAIN registrations'
  BY DEF Undo, Without, Owns
<1>3. RegistryTypeOK'
  BY <1>1, <1>2 DEF RegistryTypeOK
<1>4. Ranked' /\ EachTokenOnce' /\ TokensAreNumbered'
  BY <1>1 DEF Ranked, EachTokenOnce, TokensAreNumbered
<1>5. KeptUntilUndone'
  <2> SUFFICES ASSUME NEW u \in tokens \ undone, u # t PROVE Owns(u)'
    BY <1>1 DEF KeptUntilUndone
  <2>1. Owns(u)
    BY DEF KeptUntilUndone
  <2> QED BY <1>2, <2>1 DEF Owns
<1> QED BY <1>3, <1>4, <1>5

(* Scopes keep their ranks and registrations their owners, through every    *)
(* order of add_scope, register and undo.                                   *)
THEOREM RegistryIsInductive == RegistrySpec => []RegistryIndInv
<1>1. ASSUME RegistryIndInv, [RegistryNext]_registryVars PROVE RegistryIndInv'
  <2>1. ASSUME NEW s \in Scopes, NEW p \in Scopes \cup {Nothing}, AddScope(s, p) PROVE RegistryIndInv'
    BY <1>1, <2>1, ScopesAreAdded
  <2>2. ASSUME NEW s \in Scopes, NEW v \in Services, NEW i \in Instances, Register(s, v, i) PROVE RegistryIndInv'
    BY <1>1, <2>2, ServicesAreRegistered
  <2>3. ASSUME NEW t \in tokens, Undo(t) PROVE RegistryIndInv'
    BY <1>1, <2>3, TokensAreUndone
  <2>4. CASE UNCHANGED registryVars
    BY <1>1, <2>4 DEF registryVars, RegistryIndInv, RegistryTypeOK, Ranked, KeptUntilUndone, Owns, EachTokenOnce, TokensAreNumbered
  <2> QED BY <1>1, <2>1, <2>2, <2>3, <2>4 DEF RegistryNext
<1> QED BY <1>1, InitRegistry, PTL DEF RegistrySpec

(* For any trees of scopes and any registrations a lookup ends and finds the *)
(* nearest registration, and a late undo removes only its own (lookup, undo). *)
THEOREM RegistryIsScoped == RegistrySpec => []RegistryInv
<1>1. RegistryIndInv => RegistryInv
  BY RankedAreTrees, TreesAreLookedUp DEF RegistryIndInv, RegistryInv
<1> QED BY <1>1, RegistryIsInductive, PTL

-----------------------------------------------------------------------------
(* What a caller does while it holds the cell.                              *)
Closing == {"loop", "shutting", "joining"}

(* One caller closes at a time, the one that holds the cell.                *)
OneCloses == \A c \in Callers : caller[c] \in Closing <=> cell = c

(* A caller that awaits a shutdown awaits that of an item which was not     *)
(* shut down, and a join only after it.                                     *)
AwaitsInOrder ==
    \A c \in Callers : /\ caller[c] = "shutting" => Todo # {} /\ Current \notin shutDown
                       /\ caller[c] = "joining" => Todo # {} /\ Current \in shutDown

(* The report has a line for each step that was taken.                      *)
AllIsReported == Len(progress) = Cardinality(shutDown) + Cardinality(joined)

(* Nobody is told before the cell is set, and then all of it.               *)
ToldOnceSet ==
    /\ cell = "set" => Len(completion) = 2 * N
    /\ cell # "set" => completion = <<>> /\ \A c \in Callers : told[c] = <<>>
    /\ \A c \in Callers : caller[c] = "done" => cell = "set" /\ told[c] = completion

(* What every step of the shutdown keeps.                                   *)
ShutdownInv == ShutdownTypeOK /\ EachStepOnce /\ OneCloses /\ AwaitsInOrder /\ AllIsReported /\ ToldOnceSet

(* The order of the loops has a first item among any.                       *)
LEMMA CurrentIsFirst ==
    ASSUME phase \in [Items -> Phases], Todo # {}
    PROVE  Current \in Todo /\ \A j \in Todo : ClosesBefore(Current, j)
<1>1. N \in Nat
  BY ShutdownAssumption
<1>2. Todo \in SUBSET Items
  BY DEF Todo
<1> HIDE DEF Todo
<1>3. PICK i \in Todo : \A j \in Todo : phase[i] <= phase[j]
  <2> DEFINE phases == {phase[i] : i \in Todo}
  <2>1. phases \in SUBSET Nat /\ phases # {}
    BY <1>2 DEF Phases, Consumer, Provider, Store
  <2> HIDE DEF phases
  <2>2. PICK p \in phases : \A q \in phases : p <= q
    BY <2>1, LeastNumber
  <2> QED BY <2>2 DEF phases
<1> DEFINE Same == {j \in Todo : phase[j] = phase[i]}
           distances == {N - j : j \in Same}
<1>4. distances \in SUBSET Nat /\ distances # {}
  <2>1. \A j \in Same : j \in 1 .. N
    BY <1>2 DEF Items
  <2>2. \A j \in Same : N - j \in Nat
    BY <1>1, <2>1
  <2>3. i \in Same
    OBVIOUS
  <2> QED BY <2>2, <2>3
<1>5. PICK d \in distances : \A e \in distances : d <= e
  <2> HIDE DEF distances
  <2> QED BY <1>4, LeastNumber
<1>6. PICK k \in Same : d = N - k
  OBVIOUS
<1>7. \A j \in Todo : ClosesBefore(k, j)
  <2> SUFFICES ASSUME NEW j \in Todo PROVE ClosesBefore(k, j)
    OBVIOUS
  <2>1. phase[i] <= phase[j] /\ phase[k] = phase[i] /\ phase[i] \in Nat /\ phase[j] \in Nat
    BY <1>2, <1>3, <1>6 DEF Phases, Consumer, Provider, Store
  <2>2. CASE phase[j] = phase[i]
    <3>1. N - k <= N - j
      BY <1>5, <1>6, <2>2
    <3>2. k \in 1 .. N /\ j \in 1 .. N
      BY <1>2, <1>6 DEF Items
    <3>3. k >= j
      BY <1>1, <3>1, <3>2
    <3> QED BY <2>1, <2>2, <3>3 DEF ClosesBefore
  <2>3. CASE phase[j] # phase[i]
    <3>1. phase[k] < phase[j]
      BY <2>1, <2>3
    <3> QED BY <3>1 DEF ClosesBefore
  <2> QED BY <2>2, <2>3
<1>8. k \in Todo
  BY <1>6
<1> HIDE DEF Same, distances
<1> QED BY <1>7, <1>8 DEF Current

(* The item the loops come to depends on the phases and on what is left.    *)
LEMMA CurrentStays ==
    ASSUME phase' = phase, Todo' = Todo
    PROVE  Current' = Current
BY DEF Current, ClosesBefore

LEMMA InitShutdown == ShutdownInit => ShutdownInv
<1> SUFFICES ASSUME ShutdownInit PROVE ShutdownInv
  OBVIOUS
<1>1. ShutdownTypeOK
  BY DEF ShutdownInit, ShutdownTypeOK
<1>2. EachStepOnce
  BY DEF ShutdownInit, EachStepOnce
<1>3. OneCloses /\ AwaitsInOrder /\ ToldOnceSet
  BY ShutdownAssumption DEF ShutdownInit, OneCloses, AwaitsInOrder, ToldOnceSet, Closing
<1>4. AllIsReported
  BY FS_EmptySet DEF ShutdownInit, AllIsReported
<1> QED BY <1>1, <1>2, <1>3, <1>4 DEF ShutdownInv

-----------------------------------------------------------------------------
(* The lines of the report.                                                 *)
Lines == [step : {"shutdown", "join"}, item : Items, ok : BOOLEAN]

LEMMA TodoIsUnjoined == ASSUME ShutdownTypeOK PROVE Todo = Items \ joined
BY DEF ShutdownTypeOK, Todo

LEMMA StepsAreCounted ==
    ASSUME ShutdownTypeOK
    PROVE  /\ IsFiniteSet(shutDown) /\ Cardinality(shutDown) \in Nat
           /\ IsFiniteSet(joined) /\ Cardinality(joined) \in Nat
           /\ Cardinality(Items) = N /\ IsFiniteSet(Items)
<1>1. N \in Nat /\ 1 \in Int /\ N \in Int /\ ~(1 > N)
  BY ShutdownAssumption
<1>2. IsFiniteSet(Items) /\ Cardinality(Items) = N
  <2>1. IsFiniteSet(1 .. N) /\ Cardinality(1 .. N) = N - 1 + 1
    BY <1>1, FS_Interval
  <2> QED BY <1>1, <2>1 DEF Items
<1>3. shutDown \in SUBSET Items /\ joined \in SUBSET Items
  BY DEF ShutdownTypeOK
<1> QED BY <1>2, <1>3, FS_Subset, FS_CardinalityType

(* A line for an item which has none of that step yet.                      *)
LEMMA LinesAreNew ==
    ASSUME ShutdownTypeOK, EachStepOnce, NEW step \in {"shutdown", "join"}, NEW i \in Items, NEW ok \in BOOLEAN,
           progress' = Append(progress, Step(step, i, ok)),
           step = "shutdown" => i \notin shutDown /\ shutDown' = shutDown \cup {i} /\ joined' = joined,
           step = "join" => i \notin joined /\ joined' = joined \cup {i} /\ shutDown' = shutDown
    PROVE  EachStepOnce' /\ progress' \in Seq(Lines) /\ Len(progress') = Len(progress) + 1
<1> DEFINE n == Len(progress)
           line == Step(step, i, ok)
<1>1. progress \in Seq(Lines) /\ n \in Nat /\ line \in Lines
  BY DEF ShutdownTypeOK, Lines, Step
<1>2. /\ progress' \in Seq(Lines) /\ Len(progress') = n + 1
      /\ DOMAIN progress = 1 .. n /\ DOMAIN progress' = 1 .. n + 1
      /\ progress'[n + 1] = line /\ \A p \in 1 .. n : progress'[p] = progress[p]
  BY <1>1
<1>3. line.step = step /\ line.item = i
  BY DEF Step
<1> HIDE DEF n, line
<1>4. 1 .. n + 1 = (1 .. n) \cup {n + 1}
  BY <1>1
<1> DEFINE Reported(s) == {progress[p].item : p \in {q \in DOMAIN progress : progress[q].step = s}}
           ReportedThen(s) == {progress'[p].item : p \in {q \in DOMAIN progress' : progress'[q].step = s}}
<1>5. shutDown = Reported("shutdown") /\ joined = Reported("join")
  BY DEF EachStepOnce
<1>6. ReportedThen(step) = Reported(step) \cup {i}
  BY <1>2, <1>3, <1>4
<1>7. ASSUME NEW s, s # step PROVE ReportedThen(s) = Reported(s)
  BY <1>2, <1>3, <1>4, <1>7
<1>8. i \notin Reported(step)
  BY <1>5
<1>9. \A p \in 1 .. n : ~(progress[p].step = step /\ progress[p].item = i)
  BY <1>2, <1>8
<1> HIDE DEF Reported, ReportedThen
<1>10. shutDown' = ReportedThen("shutdown") /\ joined' = ReportedThen("join")
  BY <1>5, <1>6, <1>7
<1>11. ASSUME NEW p \in DOMAIN progress', NEW q \in DOMAIN progress',
              progress'[p].step = progress'[q].step, progress'[p].item = progress'[q].item
       PROVE  p = q
  <2>1. CASE p \in 1 .. n /\ q \in 1 .. n
    BY <1>2, <1>11, <2>1 DEF EachStepOnce
  <2>2. CASE p = n + 1 /\ q = n + 1
    BY <2>2
  <2>3. CASE p \in 1 .. n /\ q = n + 1
    BY <1>2, <1>3, <1>9, <1>11, <2>3
  <2>4. CASE p = n + 1 /\ q \in 1 .. n
    BY <1>2, <1>3, <1>9, <1>11, <2>4
  <2> QED BY <1>2, <1>4, <2>1, <2>2, <2>3, <2>4
<1> QED BY <1>2, <1>10, <1>11 DEF EachStepOnce, ReportedThen, n

(* A step that takes nothing off the list.                                  *)
LEMMA ListStays ==
    ASSUME ShutdownInv, UNCHANGED <<phase, shutDown, joined, progress>>
    PROVE  EachStepOnce' /\ AllIsReported' /\ Todo' = Todo /\ Current' = Current
<1>1. Todo' = Todo
  BY DEF Todo, Items
<1> QED BY <1>1, CurrentStays DEF ShutdownInv, EachStepOnce, AllIsReported

LEMMA ShutdownIsCalled == ASSUME ShutdownInv, NEW c \in Callers, Call(c) PROVE ShutdownInv'
<1> USE DEF ShutdownInv
<1>1. EachStepOnce' /\ AllIsReported' /\ Todo' = Todo /\ Current' = Current
  BY ListStays DEF Call
<1>2. ShutdownTypeOK'
  BY DEF Call, ShutdownTypeOK, Items
<1>3. OneCloses' /\ AwaitsInOrder' /\ ToldOnceSet'
  BY <1>1 DEF Call, ShutdownTypeOK, OneCloses, AwaitsInOrder, ToldOnceSet, Closing
<1> QED BY <1>1, <1>2, <1>3

LEMMA CallerEnters == ASSUME ShutdownInv, NEW c \in Callers, Enter(c) PROVE ShutdownInv'
<1> USE DEF ShutdownInv
<1>1. EachStepOnce' /\ AllIsReported' /\ Todo' = Todo /\ Current' = Current
  BY ListStays DEF Enter
<1>2. ShutdownTypeOK'
  BY DEF Enter, ShutdownTypeOK, Items
<1>3. OneCloses' /\ AwaitsInOrder' /\ ToldOnceSet'
  BY <1>1, ShutdownAssumption DEF Enter, ShutdownTypeOK, OneCloses, AwaitsInOrder, ToldOnceSet, Closing
<1> QED BY <1>1, <1>2, <1>3

LEMMA CellIsRead == ASSUME ShutdownInv, NEW c \in Callers, ReadCell(c) PROVE ShutdownInv'
<1> USE DEF ShutdownInv
<1>1. EachStepOnce' /\ AllIsReported' /\ Todo' = Todo /\ Current' = Current
  BY ListStays DEF ReadCell
<1>2. /\ caller[c] = "cell" /\ cell = "set" /\ told' = [told EXCEPT ![c] = completion]
      /\ caller' = [caller EXCEPT ![c] = "done"]
      /\ UNCHANGED <<phase, shutDown, joined, progress, cell, completion, tries>>
  BY DEF ReadCell
<1>3. \A d \in Callers : told'[d] \in {<<>>, completion} /\ (caller'[d] = "done" => told'[d] = completion)
  <2> SUFFICES ASSUME NEW d \in Callers PROVE told'[d] \in {<<>>, completion} /\ (caller'[d] = "done" => told'[d] = completion)
    OBVIOUS
  <2>1. CASE d = c
    BY <1>2, <2>1 DEF ShutdownTypeOK
  <2>2. CASE d # c
    BY <1>2, <2>2 DEF ShutdownTypeOK, ToldOnceSet
  <2> QED BY <2>1, <2>2
<1>4. ShutdownTypeOK'
  BY <1>2, <1>3 DEF ShutdownTypeOK, Items
<1>5. OneCloses' /\ AwaitsInOrder' /\ ToldOnceSet'
  BY <1>1, <1>2, <1>3, ShutdownAssumption DEF ShutdownTypeOK, OneCloses, AwaitsInOrder, ToldOnceSet, Closing
<1> QED BY <1>1, <1>4, <1>5

LEMMA ItemBegins == ASSUME ShutdownInv, NEW c \in Callers, BeginItem(c) PROVE ShutdownInv'
<1> USE DEF ShutdownInv
<1>1. EachStepOnce' /\ AllIsReported' /\ Todo' = Todo /\ Current' = Current
  BY ListStays DEF BeginItem
<1>2. Todo # {} /\ Current \in Todo
  BY CurrentIsFirst DEF BeginItem, ShutdownTypeOK
<1>3. Current \in Items
  BY <1>2 DEF Todo
<1>4. /\ caller[c] = "loop"
      /\ caller' = [caller EXCEPT ![c] = IF Current \in shutDown THEN "joining" ELSE "shutting"]
      /\ tries' \in [Items -> Nat]
      /\ UNCHANGED <<phase, shutDown, joined, progress, cell, completion, told>>
  <2>1. CASE Current \in shutDown
    BY <2>1 DEF BeginItem, ShutdownTypeOK
  <2>2. CASE Current \notin shutDown
    <3>1. tries' = [tries EXCEPT ![Current] = @ + 1] /\ tries \in [Items -> Nat]
      BY <2>2 DEF BeginItem, ShutdownTypeOK
    <3>2. tries' \in [Items -> Nat]
      BY <1>3, <3>1
    <3> QED BY <2>2, <3>2 DEF BeginItem
  <2> QED BY <2>1, <2>2
<1>5. ShutdownTypeOK'
  BY <1>4 DEF ShutdownTypeOK, Items
<1>6. OneCloses' /\ ToldOnceSet'
  BY <1>4, ShutdownAssumption DEF ShutdownTypeOK, OneCloses, ToldOnceSet, Closing
<1>7. AwaitsInOrder'
  BY <1>1, <1>2, <1>4 DEF ShutdownTypeOK, AwaitsInOrder
<1> QED BY <1>1, <1>5, <1>6, <1>7

LEMMA ItemIsShutDown == ASSUME ShutdownInv, NEW c \in Callers, ShutdownReturns(c) PROVE ShutdownInv'
<1> USE DEF ShutdownInv
<1>1. PICK ok \in BOOLEAN : progress' = Append(progress, Step("shutdown", Current, ok))
  BY DEF ShutdownReturns
<1>2. /\ caller[c] = "shutting" /\ shutDown' = shutDown \cup {Current} /\ caller' = [caller EXCEPT ![c] = "joining"]
      /\ UNCHANGED <<phase, joined, cell, completion, told, tries>>
  BY DEF ShutdownReturns
<1>3. Todo # {} /\ Current \notin shutDown
  BY <1>2 DEF AwaitsInOrder
<1>4. Current \in Items /\ phase \in [Items -> Phases]
  BY <1>3, CurrentIsFirst DEF ShutdownTypeOK, Todo
<1>5. EachStepOnce' /\ progress' \in Seq(Lines) /\ Len(progress') = Len(progress) + 1
  BY <1>1, <1>2, <1>3, <1>4, LinesAreNew
<1>6. Todo' = Todo /\ Current' = Current
  <2>1. Todo' = Todo
    BY <1>2, <1>3 DEF Todo, Items, ShutdownTypeOK
  <2> QED BY <1>2, <2>1, CurrentStays
<1>7. ShutdownTypeOK'
  BY <1>2, <1>4, <1>5 DEF ShutdownTypeOK, Items, Lines
<1>8. OneCloses' /\ ToldOnceSet'
  BY <1>2, ShutdownAssumption DEF ShutdownTypeOK, OneCloses, ToldOnceSet, Closing
<1>9. AwaitsInOrder'
  <2> SUFFICES ASSUME NEW d \in Callers
               PROVE  /\ caller'[d] = "shutting" => Todo # {} /\ Current \notin shutDown'
                      /\ caller'[d] = "joining" => Todo # {} /\ Current \in shutDown'
    BY <1>6 DEF AwaitsInOrder
  <2>1. CASE d = c
    BY <1>2, <1>3, <2>1 DEF ShutdownTypeOK
  <2>2. CASE d # c
    <3>1. caller'[d] = caller[d] /\ caller[d] \notin Closing
      BY <1>2, <2>2 DEF ShutdownTypeOK, OneCloses, Closing
    <3> QED BY <3>1 DEF Closing
  <2> QED BY <2>1, <2>2
<1>10. AllIsReported'
  <2>1. Cardinality(shutDown') = Cardinality(shutDown) + 1
    BY <1>2, <1>3, StepsAreCounted, FS_AddElement
  <2> QED BY <1>2, <1>5, <2>1, StepsAreCounted DEF AllIsReported, ShutdownTypeOK
<1> QED BY <1>5, <1>7, <1>8, <1>9, <1>10

LEMMA ItemIsJoined == ASSUME ShutdownInv, NEW c \in Callers, JoinReturns(c) PROVE ShutdownInv'
<1> USE DEF ShutdownInv
<1>1. PICK ok \in BOOLEAN : progress' = Append(progress, Step("join", Current, ok))
  BY DEF JoinReturns
<1>2. /\ caller[c] = "joining" /\ joined' = joined \cup {Current} /\ caller' = [caller EXCEPT ![c] = "loop"]
      /\ UNCHANGED <<phase, shutDown, cell, completion, told, tries>>
  BY DEF JoinReturns
<1>3. Todo # {} /\ Current \in shutDown
  BY <1>2 DEF AwaitsInOrder
<1>4. Current \in Items /\ Current \notin joined
  BY <1>3, CurrentIsFirst, TodoIsUnjoined DEF ShutdownTypeOK
<1>5. EachStepOnce' /\ progress' \in Seq(Lines) /\ Len(progress') = Len(progress) + 1
  BY <1>1, <1>2, <1>4, LinesAreNew
<1>6. ShutdownTypeOK'
  BY <1>2, <1>3, <1>5 DEF ShutdownTypeOK, Items, Lines
<1>7. OneCloses' /\ ToldOnceSet'
  BY <1>2, ShutdownAssumption DEF ShutdownTypeOK, OneCloses, ToldOnceSet, Closing
<1>8. AwaitsInOrder'
  <2>1. \A d \in Callers : caller'[d] \notin {"shutting", "joining"}
    BY <1>2 DEF ShutdownTypeOK, OneCloses, Closing
  <2> QED BY <2>1 DEF AwaitsInOrder
<1>9. AllIsReported'
  <2>1. Cardinality(joined') = Cardinality(joined) + 1
    BY <1>2, <1>4, StepsAreCounted, FS_AddElement
  <2> QED BY <1>2, <1>5, <2>1, StepsAreCounted DEF AllIsReported, ShutdownTypeOK
<1> QED BY <1>5, <1>6, <1>7, <1>8, <1>9

LEMMA ShutdownCompletes == ASSUME ShutdownInv, NEW c \in Callers, Complete(c) PROVE ShutdownInv'
<1> USE DEF ShutdownInv
<1>1. EachStepOnce' /\ AllIsReported' /\ Todo' = Todo /\ Current' = Current
  BY ListStays DEF Complete
<1>2. /\ caller[c] = "loop" /\ Todo = {} /\ cell' = "set" /\ completion' = progress
      /\ told' = [told EXCEPT ![c] = progress] /\ caller' = [caller EXCEPT ![c] = "done"]
      /\ UNCHANGED <<phase, shutDown, joined, progress, tries>>
  BY DEF Complete
<1>3. cell = c /\ cell # "set"
  BY <1>2, ShutdownAssumption DEF OneCloses, Closing
<1>4. Len(progress) = 2 * N
  <2>1. joined = Items /\ shutDown = Items
    BY <1>2, TodoIsUnjoined DEF ShutdownTypeOK
  <2>2. Cardinality(Items) = N /\ N \in Nat
    BY StepsAreCounted, ShutdownAssumption
  <2> QED BY <2>1, <2>2 DEF AllIsReported
<1>5. \A d \in Callers : told'[d] \in {<<>>, progress} /\ (caller'[d] = "done" => told'[d] = progress)
  <2> SUFFICES ASSUME NEW d \in Callers PROVE told'[d] \in {<<>>, progress} /\ (caller'[d] = "done" => told'[d] = progress)
    OBVIOUS
  <2>1. CASE d = c
    BY <1>2, <2>1 DEF ShutdownTypeOK
  <2>2. CASE d # c
    BY <1>2, <1>3, <2>2 DEF ShutdownTypeOK, ToldOnceSet
  <2> QED BY <2>1, <2>2
<1>6. ShutdownTypeOK'
  BY <1>2, <1>5 DEF ShutdownTypeOK, Items
<1>7. OneCloses'
  BY <1>2, <1>3, ShutdownAssumption DEF ShutdownTypeOK, OneCloses, Closing
<1>8. AwaitsInOrder'
  <2>1. \A d \in Callers : caller'[d] \notin {"shutting", "joining"}
    BY <1>2, <1>3 DEF ShutdownTypeOK, OneCloses, Closing
  <2> QED BY <2>1 DEF AwaitsInOrder
<1>9. ToldOnceSet'
  BY <1>2, <1>4, <1>5 DEF ToldOnceSet
<1> QED BY <1>1, <1>6, <1>7, <1>8, <1>9

LEMMA CallerIsDropped == ASSUME ShutdownInv, NEW c \in Callers, DropCaller(c) PROVE ShutdownInv'
<1> USE DEF ShutdownInv
<1>1. EachStepOnce' /\ AllIsReported' /\ Todo' = Todo /\ Current' = Current
  BY ListStays DEF DropCaller
<1>2. /\ caller' = [caller EXCEPT ![c] = "dropped"] /\ cell' = IF cell = c THEN Nobody ELSE cell
      /\ UNCHANGED <<phase, shutDown, joined, progress, completion, told, tries>>
  BY DEF DropCaller
<1>3. ShutdownTypeOK'
  BY <1>2 DEF ShutdownTypeOK, Items
<1>4. OneCloses'
  BY <1>2, ShutdownAssumption DEF ShutdownTypeOK, OneCloses, Closing
<1>5. AwaitsInOrder'
  BY <1>1, <1>2 DEF ShutdownTypeOK, AwaitsInOrder
<1>6. ToldOnceSet'
  BY <1>2, ShutdownAssumption DEF ShutdownTypeOK, ToldOnceSet
<1> QED BY <1>1, <1>3, <1>4, <1>5, <1>6

LEMMA ShutdownStays == ASSUME ShutdownInv, UNCHANGED shutdownVars PROVE ShutdownInv'
<1>1. EachStepOnce' /\ AllIsReported' /\ Todo' = Todo /\ Current' = Current
  BY ListStays DEF shutdownVars
<1> QED BY <1>1 DEF shutdownVars, ShutdownInv, ShutdownTypeOK, OneCloses, AwaitsInOrder, ToldOnceSet, Items

LEMMA ClosesInOrder == ShutdownInv => StoreIsFinal /\ ToldOfAll
<1> SUFFICES ASSUME ShutdownInv PROVE StoreIsFinal /\ ToldOfAll
  OBVIOUS
<1>1. StoreIsFinal
  <2> SUFFICES ASSUME NEW c \in Callers, caller[c] = "shutting", NEW i \in Items,
                      phase[i] < phase[Current] \/ (phase[i] = phase[Current] /\ i > Current)
               PROVE  i \in joined
    BY DEF StoreIsFinal
  <2>1. Current \in Todo /\ \A j \in Todo : ClosesBefore(Current, j)
    BY CurrentIsFirst DEF ShutdownInv, ShutdownTypeOK, AwaitsInOrder
  <2>2. Current \in 1 .. N /\ i \in 1 .. N /\ N \in Nat /\ phase[i] \in Nat /\ phase[Current] \in Nat
    <3>1. Current \in Items /\ phase \in [Items -> Phases] /\ Phases \subseteq Nat
      BY <2>1 DEF ShutdownInv, ShutdownTypeOK, Todo, Phases, Consumer, Provider, Store
    <3>2. phase[i] \in Nat /\ phase[Current] \in Nat
      BY <3>1
    <3> QED BY <3>1, <3>2, ShutdownAssumption DEF Items
  <2>3. ~ClosesBefore(Current, i)
    BY <2>2 DEF ClosesBefore
  <2> QED BY <2>1, <2>3, TodoIsUnjoined DEF ShutdownInv
<1>2. ToldOfAll
  BY DEF ShutdownInv, ToldOnceSet, ToldOfAll
<1> QED BY <1>1, <1>2

(* An item that was shut down is passed over.                               *)
LEMMA TriesEnd ==
    ASSUME ShutdownTypeOK, NEW c \in Callers, Call(c) \/ CallerStep(c) \/ DropCaller(c), NEW i \in shutDown
    PROVE  tries'[i] = tries[i]
<1>1. CASE BeginItem(c)
  BY <1>1 DEF BeginItem, ShutdownTypeOK
<1>2. CASE ~BeginItem(c)
  BY <1>2 DEF Call, CallerStep, Enter, ReadCell, ShutdownReturns, JoinReturns, Complete, DropCaller
<1> QED BY <1>1, <1>2

(* One caller closes at a time, and what it awaits agrees with what the report *)
(* has of the item, whoever was dropped before it (get_or_init, record_step). *)
THEOREM ShutdownIsInductive == ShutdownSpec => []ShutdownInv
<1>1. ASSUME ShutdownInv, [ShutdownNext]_shutdownVars PROVE ShutdownInv'
  <2>1. ASSUME NEW c \in Callers, Call(c) \/ CallerStep(c) \/ DropCaller(c) PROVE ShutdownInv'
    BY <1>1, <2>1, ShutdownIsCalled, CallerEnters, CellIsRead, ItemBegins, ItemIsShutDown, ItemIsJoined,
       ShutdownCompletes, CallerIsDropped DEF CallerStep
  <2>2. CASE UNCHANGED shutdownVars
    BY <1>1, <2>2, ShutdownStays
  <2> QED BY <1>1, <2>1, <2>2 DEF ShutdownNext
<1> QED BY <1>1, InitShutdown, PTL DEF ShutdownSpec

(* Any number of items in any phases are closed in order, each step once and *)
(* for all callers, whichever callers are dropped (ShutdownCoordinator).    *)
THEOREM ShutdownKeepsItsOrder == ShutdownSpec => ShutdownIsOrdered
<1>1. ShutdownInv => ShutdownTypeOK /\ StoreIsFinal /\ EachStepOnce /\ ToldOfAll
  BY ClosesInOrder DEF ShutdownInv
<1>2. ASSUME ShutdownInv, [ShutdownNext]_shutdownVars PROVE [\A i \in shutDown : tries'[i] = tries[i]]_shutdownVars
  BY <1>2, TriesEnd DEF ShutdownInv, ShutdownNext
<1> QED BY <1>1, <1>2, ShutdownIsInductive, PTL DEF ShutdownSpec, NotClosedAgain, ShutdownIsOrdered

-----------------------------------------------------------------------------
(* The scheduler of workers: where the dispatches are, in sets.             *)
WorkerPlaces == {"idle", "admitted", "reserved", "refused", "queued", "holding", "live", "running",
                 "returned", "retired", "sent", "taken"}
FlightPlaces == {"queued", "holding", "live", "running", "returned", "retired", "sent"}
SlotPlaces == {"holding", "live", "running"}
TaskPlaces == {"reserved", "queued", "holding", "live", "running", "returned"}
LivePlaces == {"live", "running", "returned"}

In(places) == {d \in Dispatches : worker[d] \in places}
Leased == {p \in Parents : parent[p] = "leased"}

(* Every slot is free, or with one worker, or leased by one parent.         *)
SlotsAreCounted == permits + Cardinality(In(SlotPlaces)) + Cardinality(Leased) = Slots

(* A task that is reserved is one dispatch's.                               *)
TasksAreOwned ==
    /\ reserved = {TaskOf[d] : d \in In(TaskPlaces)}
    /\ \A d, e \in In(TaskPlaces) : TaskOf[d] = TaskOf[e] => d = e

LiveIsListed == live = In(LivePlaces)

(* The channel holds outcomes that were sent, each once.                    *)
ChannelIsOfSent ==
    /\ \A i \in 1..Len(channel) : worker[channel[i]] = "sent"
    /\ \A i, j \in 1..Len(channel) : channel[i] = channel[j] => i = j

(* The flag and the closed slots outlast the drain that set them.           *)
FlagsStay ==
    /\ host # "up" => shuttingDown
    /\ host \in {"closed", "draining", "drained"} => closed

SchedulerIInv ==
    /\ SchedulerTypeOK /\ SlotsAreCounted /\ StreamIsCounted /\ TasksAreOwned /\ LiveIsListed
    /\ ChannelIsOfSent /\ FlagsStay /\ ShutdownReachesRunning /\ DrainedIsQuiet

-----------------------------------------------------------------------------
(* Finite sets of dispatches and of parents can be counted.                 *)
LEMMA InIsFinite ==
    ASSUME NEW places
    PROVE  IsFiniteSet(In(places)) /\ Cardinality(In(places)) \in Nat
<1>1. IsFiniteSet(Dispatches) /\ In(places) \in SUBSET Dispatches
  BY SchedulerAssumption DEF In
<1>2. IsFiniteSet(In(places))
  BY <1>1, FS_Subset
<1> QED BY <1>2, FS_CardinalityType

LEMMA LeasedIsFinite == IsFiniteSet(Leased) /\ Cardinality(Leased) \in Nat
<1>1. IsFiniteSet(Parents) /\ Leased \in SUBSET Parents
  BY SchedulerAssumption DEF Leased
<1>2. IsFiniteSet(Leased)
  BY <1>1, FS_Subset
<1> QED BY <1>2, FS_CardinalityType

LEMMA NextIsFinite ==
    /\ \A places : Cardinality(In(places)') \in Nat /\ Cardinality(In(places)') <= Cardinality(Dispatches)
    /\ Cardinality(Leased') \in Nat /\ Cardinality(Dispatches) \in Nat
<1>1. IsFiniteSet(Dispatches) /\ IsFiniteSet(Parents) /\ Leased' \in SUBSET Parents
  BY SchedulerAssumption DEF Leased
<1>2. ASSUME NEW places PROVE In(places)' \in SUBSET Dispatches
  BY DEF In
<1>3. ASSUME NEW places PROVE Cardinality(In(places)') \in Nat /\ Cardinality(In(places)') <= Cardinality(Dispatches)
  BY <1>1, <1>2, FS_Subset, FS_CardinalityType
<1>4. Cardinality(Leased') \in Nat /\ Cardinality(Dispatches) \in Nat
  BY <1>1, FS_Subset, FS_CardinalityType
<1> QED BY <1>3, <1>4

LEMMA FlightIsIn == InFlight = In(FlightPlaces)
BY DEF InFlight, In, FlightPlaces

(* One dispatch moves: it joins or leaves a set of places, or neither.      *)
LEMMA MoveIn ==
    ASSUME SchedulerTypeOK, NEW d \in Dispatches, NEW pc \in WorkerPlaces, Go(d, pc), NEW places
    PROVE  In(places)' = IF pc \in places THEN In(places) \cup {d} ELSE In(places) \ {d}
<1>1. worker'[d] = pc /\ \A e \in Dispatches : e # d => worker'[e] = worker[e]
  BY DEF SchedulerTypeOK, Go
<1> QED BY <1>1 DEF In

LEMMA MoveCounts ==
    ASSUME SchedulerTypeOK, NEW d \in Dispatches, NEW pc \in WorkerPlaces, Go(d, pc), NEW places
    PROVE  /\ worker[d] \notin places /\ pc \in places => Cardinality(In(places)') = Cardinality(In(places)) + 1
           /\ worker[d] \in places /\ pc \notin places => Cardinality(In(places)') = Cardinality(In(places)) - 1
           /\ (worker[d] \in places <=> pc \in places) => In(places)' = In(places)
<1>1. In(places)' = IF pc \in places THEN In(places) \cup {d} ELSE In(places) \ {d}
  BY MoveIn
<1>2. d \in In(places) <=> worker[d] \in places
  BY DEF In
<1>3. IsFiniteSet(In(places))
  BY InIsFinite
<1>4. /\ Cardinality(In(places) \cup {d}) = IF d \in In(places) THEN Cardinality(In(places)) ELSE Cardinality(In(places)) + 1
      /\ Cardinality(In(places) \ {d}) = IF d \in In(places) THEN Cardinality(In(places)) - 1 ELSE Cardinality(In(places))
  BY <1>3, FS_AddElement, FS_RemoveElement
<1> QED BY <1>1, <1>2, <1>4

LEMMA StayIn == ASSUME UNCHANGED worker, NEW places PROVE In(places)' = In(places)
BY DEF In

LEMMA LeaseCounts ==
    ASSUME SchedulerTypeOK, NEW p \in Parents, NEW pc, parent' = [parent EXCEPT ![p] = pc]
    PROVE  /\ parent[p] # "leased" /\ pc = "leased" => Cardinality(Leased') = Cardinality(Leased) + 1
           /\ parent[p] = "leased" /\ pc # "leased" => Cardinality(Leased') = Cardinality(Leased) - 1
           /\ (parent[p] = "leased" <=> pc = "leased") => Leased' = Leased
<1>1. Leased' = IF pc = "leased" THEN Leased \cup {p} ELSE Leased \ {p}
  <2>1. parent'[p] = pc /\ \A q \in Parents : q # p => parent'[q] = parent[q]
    BY DEF SchedulerTypeOK
  <2> QED BY <2>1 DEF Leased
<1>2. p \in Leased <=> parent[p] = "leased"
  BY DEF Leased
<1>3. IsFiniteSet(Leased)
  BY LeasedIsFinite
<1>4. /\ Cardinality(Leased \cup {p}) = IF p \in Leased THEN Cardinality(Leased) ELSE Cardinality(Leased) + 1
      /\ Cardinality(Leased \ {p}) = IF p \in Leased THEN Cardinality(Leased) - 1 ELSE Cardinality(Leased)
  BY <1>3, FS_AddElement, FS_RemoveElement
<1> QED BY <1>1, <1>2, <1>4

(* The outcome at the head of the channel was sent and is in flight; what   *)
(* is left of the channel is still of outcomes that were sent.              *)
LEMMA HeadIsSent ==
    ASSUME SchedulerTypeOK, ChannelIsOfSent, channel # <<>>
    PROVE  /\ Head(channel) \in Dispatches /\ worker[Head(channel)] = "sent"
           /\ Tail(channel) \in Seq(Dispatches) /\ Len(Tail(channel)) = Len(channel) - 1
           /\ \A i \in 1..Len(Tail(channel)) : Tail(channel)[i] = channel[i + 1] /\ Tail(channel)[i] # Head(channel)
<1>1. channel \in Seq(Dispatches) /\ Len(channel) \in Nat \ {0} /\ Head(channel) = channel[1]
  BY DEF SchedulerTypeOK
<1>2. Tail(channel) \in Seq(Dispatches) /\ Len(Tail(channel)) = Len(channel) - 1
  BY <1>1
<1>3. \A i \in 1..Len(Tail(channel)) : Tail(channel)[i] = channel[i + 1]
  BY <1>1, <1>2
<1> QED BY <1>1, <1>2, <1>3 DEF ChannelIsOfSent

-----------------------------------------------------------------------------
(* Slots.  A worker takes one and gives it back, a parent likewise; the     *)
(* other steps move between places that hold none, or that hold one.        *)
LEMMA SlotsKept ==
    ASSUME SchedulerIInv, SchedulerNext
    PROVE  SlotsAreCounted' /\ permits' \in 0..Slots
<1> USE DEF SchedulerIInv
<1>0. permits \in Nat /\ Slots \in Nat /\ SlotsAreCounted
  BY SchedulerAssumption DEF SchedulerTypeOK
<1>1. SUFFICES permits' \in Nat /\ SlotsAreCounted'
  BY <1>0, NextIsFinite DEF SlotsAreCounted
<1>2. ASSUME UNCHANGED <<permits, parent>>, In(SlotPlaces)' = In(SlotPlaces) PROVE permits' \in Nat /\ SlotsAreCounted'
  BY <1>2, <1>0 DEF SlotsAreCounted, Leased
<1>3. ASSUME UNCHANGED <<permits, worker>>, Leased' = Leased PROVE permits' \in Nat /\ SlotsAreCounted'
  BY <1>3, <1>0, StayIn DEF SlotsAreCounted
<1>4. ASSUME NEW d \in Dispatches, DispatchStep(d) PROVE permits' \in Nat /\ SlotsAreCounted'
  <2>1. UNCHANGED <<permits, parent>> /\ worker[d] \notin SlotPlaces
    BY <1>4 DEF DispatchStep, RequireAdmission, ReserveTask, ChargeAndSpawn, SlotPlaces
  <2>2. \E pc \in WorkerPlaces \ SlotPlaces : Go(d, pc)
    BY <1>4 DEF DispatchStep, RequireAdmission, ReserveTask, ChargeAndSpawn, SlotPlaces, WorkerPlaces
  <2> QED BY <2>1, <2>2, <1>2, MoveCounts
<1>5. ASSUME NEW d \in Dispatches, AcquireSlot(d) PROVE permits' \in Nat /\ SlotsAreCounted'
  <2>1. Cardinality(In(SlotPlaces)') = Cardinality(In(SlotPlaces)) + 1
    BY <1>5, MoveCounts DEF AcquireSlot, SlotPlaces, WorkerPlaces
  <2>2. permits' = permits - 1 /\ permits > 0 /\ Leased' = Leased
    BY <1>5 DEF AcquireSlot, Leased
  <2> QED BY <1>0, <2>1, <2>2, InIsFinite, LeasedIsFinite DEF SlotsAreCounted
<1>6. ASSUME NEW d \in Dispatches, BackendReturns(d) PROVE permits' \in Nat /\ SlotsAreCounted'
  <2>1. Cardinality(In(SlotPlaces)') = Cardinality(In(SlotPlaces)) - 1
    BY <1>6, MoveCounts DEF BackendReturns, SlotPlaces, WorkerPlaces
  <2>2. permits' = permits + 1 /\ Leased' = Leased
    BY <1>6 DEF BackendReturns, Leased
  <2> QED BY <1>0, <2>1, <2>2, InIsFinite, LeasedIsFinite DEF SlotsAreCounted
<1>7. ASSUME NEW d \in Dispatches, LeaveQueue(d) \/ EnterLive(d) \/ StartBackend(d) \/ Retire(d) \/ SendOutcome(d)
      PROVE  permits' \in Nat /\ SlotsAreCounted'
  <2>1. UNCHANGED <<permits, parent>> /\ \E pc \in WorkerPlaces : Go(d, pc) /\ (worker[d] \in SlotPlaces <=> pc \in SlotPlaces)
    BY <1>7 DEF LeaveQueue, EnterLive, StartBackend, Retire, SendOutcome, SlotPlaces, WorkerPlaces
  <2> QED BY <2>1, <1>2, MoveCounts
<1>8. ASSUME NEW p \in Parents, AcquireLease(p) PROVE permits' \in Nat /\ SlotsAreCounted'
  <2>1. CASE requests < MaxRequests
    <3>1. permits' = permits - 1 /\ permits > 0 /\ In(SlotPlaces)' = In(SlotPlaces)
      BY <1>8, <2>1, StayIn DEF AcquireLease
    <3>2. Cardinality(Leased') = Cardinality(Leased) + 1
      BY <1>8, <2>1, LeaseCounts DEF AcquireLease
    <3> QED BY <1>0, <3>1, <3>2, InIsFinite, LeasedIsFinite DEF SlotsAreCounted
  <2>2. CASE ~(requests < MaxRequests)
    BY <1>8, <2>2, <1>3, LeaseCounts DEF AcquireLease
  <2> QED BY <2>1, <2>2
<1>9. ASSUME NEW p \in Parents, AwaitNext(p) PROVE permits' \in Nat /\ SlotsAreCounted'
  <2>1. CASE parent[p] = "leased"
    <3>1. permits' = permits + 1 /\ In(SlotPlaces)' = In(SlotPlaces)
      BY <1>9, <2>1, StayIn DEF AwaitNext
    <3>2. parent[p] = "leased" /\ \E pc \in {"waiting"} : parent' = [parent EXCEPT ![p] = pc]
      BY <1>9, <2>1 DEF AwaitNext
    <3>3. Cardinality(Leased') = Cardinality(Leased) - 1
      BY <3>2, LeaseCounts
    <3> QED BY <1>0, <3>1, <3>3, InIsFinite, LeasedIsFinite DEF SlotsAreCounted
  <2>2. CASE parent[p] # "leased"
    <3>1. UNCHANGED <<permits, worker>> /\ \E pc \in {"waiting"} : parent' = [parent EXCEPT ![p] = pc]
      BY <1>9, <2>2 DEF AwaitNext
    <3> QED BY <2>2, <3>1, <1>3, LeaseCounts
  <2> QED BY <2>1, <2>2
<1>10. ASSUME NEW p \in Parents, AskLease(p) \/ LeaseRefused(p) \/ LockReceiver(p)
       PROVE  permits' \in Nat /\ SlotsAreCounted'
  <2>1. UNCHANGED <<permits, worker>>
    BY <1>10 DEF AskLease, LeaseRefused, LockReceiver
  <2>2. parent[p] # "leased" /\ \E pc \in {"idle", "asking", "receiving"} : parent' = [parent EXCEPT ![p] = pc]
    BY <1>10 DEF AskLease, LeaseRefused, LockReceiver
  <2> QED BY <2>1, <2>2, <1>3, LeaseCounts
<1>11. ASSUME NEW p \in Parents, Receive(p) PROVE permits' \in Nat /\ SlotsAreCounted'
  <2>1. In(SlotPlaces)' = In(SlotPlaces)
    BY <1>11, HeadIsSent, MoveCounts DEF Receive, TakeOutcome, SlotPlaces, WorkerPlaces
  <2>2. UNCHANGED permits /\ parent[p] = "receiving" /\ \E pc \in {"idle"} : parent' = [parent EXCEPT ![p] = pc]
    BY <1>11 DEF Receive
  <2>3. Leased' = Leased
    BY <2>2, LeaseCounts
  <2> QED BY <1>0, <2>1, <2>2, <2>3 DEF SlotsAreCounted
<1>12. CASE DrainOne
  <2>1. In(SlotPlaces)' = In(SlotPlaces)
    BY <1>12, HeadIsSent, MoveCounts DEF DrainOne, TakeOutcome, SlotPlaces, WorkerPlaces
  <2> QED BY <1>12, <2>1, <1>2 DEF DrainOne
<1>13. CASE UNCHANGED <<permits, worker, parent>>
  BY <1>13, <1>3 DEF Leased
<1> QED
  BY <1>4, <1>5, <1>6, <1>7, <1>8, <1>9, <1>10, <1>11, <1>12, <1>13
  DEF SchedulerNext, WorkerStep, WaitStep, HostStep, CancelOne, CancelFlag, CancelLive, CloseSlots, DrainLock, DrainDone

(* Outcomes.  A dispatch is counted when it is spawned and until its        *)
(* outcome is taken, and what is taken was counted.                         *)
LEMMA StreamKept ==
    ASSUME SchedulerIInv, SchedulerNext
    PROVE  StreamIsCounted' /\ outstanding' \in 0..Cardinality(Dispatches)
<1> USE DEF SchedulerIInv
<1>0. outstanding = Cardinality(In(FlightPlaces)) /\ IsFiniteSet(In(FlightPlaces)) /\ outstanding \in Nat
  BY FlightIsIn, InIsFinite DEF StreamIsCounted
<1>1. SUFFICES outstanding' = Cardinality(In(FlightPlaces)')
  <2>1. InFlight' = In(FlightPlaces)'
    BY DEF InFlight, In, FlightPlaces
  <2>2. Cardinality(In(FlightPlaces)') \in Nat /\ Cardinality(In(FlightPlaces)') <= Cardinality(Dispatches)
    BY NextIsFinite
  <2>3. Cardinality(Dispatches) \in Nat
    BY NextIsFinite
  <2> QED BY <2>1, <2>2, <2>3 DEF StreamIsCounted
<1>2. ASSUME UNCHANGED outstanding, NEW d \in Dispatches, NEW pc \in WorkerPlaces, Go(d, pc),
             worker[d] \in FlightPlaces <=> pc \in FlightPlaces
      PROVE  outstanding' = Cardinality(In(FlightPlaces)')
  BY <1>2, <1>0, MoveCounts
<1>3. ASSUME NEW d \in Dispatches, RequireAdmission(d) \/ ReserveTask(d) PROVE outstanding' = Cardinality(In(FlightPlaces)')
  <2>1. UNCHANGED outstanding /\ worker[d] \notin FlightPlaces /\ \E pc \in WorkerPlaces \ FlightPlaces : Go(d, pc)
    BY <1>3 DEF RequireAdmission, ReserveTask, FlightPlaces, WorkerPlaces
  <2> QED BY <2>1, <1>2
<1>4. ASSUME NEW d \in Dispatches, ChargeAndSpawn(d) PROVE outstanding' = Cardinality(In(FlightPlaces)')
  <2>1. CASE requests < MaxRequests
    <3>1. outstanding' = outstanding + 1
      BY <1>4, <2>1 DEF ChargeAndSpawn
    <3>2. Cardinality(In(FlightPlaces)') = Cardinality(In(FlightPlaces)) + 1
      BY <1>4, <2>1, MoveCounts DEF ChargeAndSpawn, FlightPlaces, WorkerPlaces
    <3> QED BY <3>1, <3>2, <1>0
  <2>2. CASE ~(requests < MaxRequests)
    BY <1>4, <2>2, <1>2 DEF ChargeAndSpawn, FlightPlaces, WorkerPlaces
  <2> QED BY <2>1, <2>2
<1>5. ASSUME NEW d \in Dispatches, WorkerStep(d) PROVE outstanding' = Cardinality(In(FlightPlaces)')
  <2>1. UNCHANGED outstanding /\ worker[d] \in FlightPlaces
    BY <1>5 DEF WorkerStep, AcquireSlot, LeaveQueue, EnterLive, StartBackend, BackendReturns, Retire, SendOutcome, FlightPlaces
  <2>2. \E pc \in FlightPlaces : Go(d, pc)
    BY <1>5 DEF WorkerStep, AcquireSlot, LeaveQueue, EnterLive, StartBackend, BackendReturns, Retire, SendOutcome, FlightPlaces
  <2> QED BY <2>1, <2>2, <1>2 DEF FlightPlaces, WorkerPlaces
<1>6. ASSUME TakeOutcome PROVE outstanding' = Cardinality(In(FlightPlaces)')
  <2>1. Cardinality(In(FlightPlaces)') = Cardinality(In(FlightPlaces)) - 1
    BY <1>6, HeadIsSent, MoveCounts DEF TakeOutcome, FlightPlaces, WorkerPlaces
  <2> QED BY <1>6, <2>1, <1>0 DEF TakeOutcome
<1>7. CASE UNCHANGED <<outstanding, worker>>
  BY <1>7, <1>0, StayIn
<1> QED
  BY <1>3, <1>4, <1>5, <1>6, <1>7
  DEF SchedulerNext, DispatchStep, WaitStep, HostStep, CancelOne, CancelFlag, CancelLive, CloseSlots, DrainLock,
      DrainOne, DrainDone, AskLease, AcquireLease, LeaseRefused, AwaitNext, LockReceiver, Receive

-----------------------------------------------------------------------------
(* Tasks.  A dispatch that takes a task found it free; what it gives back   *)
(* was its own.                                                             *)
LEMMA TasksKept ==
    ASSUME SchedulerIInv, SchedulerNext
    PROVE  TasksAreOwned' /\ reserved' \in SUBSET Tasks
<1> USE DEF SchedulerIInv
<1>0. reserved' \in SUBSET Tasks
  BY SchedulerAssumption DEF SchedulerTypeOK, SchedulerNext, DispatchStep, WorkerStep, WaitStep, HostStep, CancelOne,
     RequireAdmission, ReserveTask, ChargeAndSpawn, AcquireSlot, LeaveQueue, EnterLive, StartBackend, BackendReturns,
     Retire, SendOutcome, AskLease, AcquireLease, LeaseRefused, AwaitNext, LockReceiver, Receive, CancelFlag,
     CancelLive, CloseSlots, DrainLock, DrainOne, DrainDone
<1>1. ASSUME UNCHANGED reserved, In(TaskPlaces)' = In(TaskPlaces) PROVE TasksAreOwned'
  BY <1>1 DEF TasksAreOwned
<1>2. ASSUME UNCHANGED reserved, NEW d \in Dispatches, NEW pc \in WorkerPlaces, Go(d, pc),
             worker[d] \in TaskPlaces <=> pc \in TaskPlaces
      PROVE  TasksAreOwned'
  BY <1>1, <1>2, MoveCounts
<1>3. ASSUME NEW d \in Dispatches, NEW pc \in WorkerPlaces, Go(d, pc), worker[d] \in TaskPlaces, pc \notin TaskPlaces,
             reserved' = reserved \ {TaskOf[d]}
      PROVE  TasksAreOwned'
  <2>1. In(TaskPlaces)' = In(TaskPlaces) \ {d} /\ d \in In(TaskPlaces)
    BY <1>3, MoveIn DEF In
  <2>2. TasksAreOwned /\ \A e \in In(TaskPlaces) \ {d} : TaskOf[e] # TaskOf[d]
    BY <2>1 DEF TasksAreOwned
  <2>3. reserved' = {TaskOf[e] : e \in In(TaskPlaces)'}
    BY <1>3, <2>1, <2>2 DEF TasksAreOwned
  <2> QED BY <2>1, <2>2, <2>3 DEF TasksAreOwned
<1>4. ASSUME NEW d \in Dispatches, ReserveTask(d) PROVE TasksAreOwned'
  <2>1. CASE HasCapacity /\ TaskOf[d] \notin reserved
    <3>1. Go(d, "reserved") /\ reserved' = reserved \cup {TaskOf[d]}
      BY <1>4, <2>1 DEF ReserveTask
    <3>2. In(TaskPlaces)' = In(TaskPlaces) \cup {d}
      BY <3>1, MoveIn DEF TaskPlaces, WorkerPlaces
    <3>3. TasksAreOwned /\ \A e \in In(TaskPlaces) : TaskOf[e] # TaskOf[d]
      BY <2>1 DEF TasksAreOwned
    <3> QED BY <3>1, <3>2, <3>3 DEF TasksAreOwned
  <2>2. CASE ~(HasCapacity /\ TaskOf[d] \notin reserved)
    BY <1>4, <2>2, <1>2 DEF ReserveTask, TaskPlaces, WorkerPlaces
  <2> QED BY <2>1, <2>2
<1>5. ASSUME NEW d \in Dispatches, ChargeAndSpawn(d) PROVE TasksAreOwned'
  <2>1. CASE requests < MaxRequests
    BY <1>5, <2>1, <1>2 DEF ChargeAndSpawn, TaskPlaces, WorkerPlaces
  <2>2. CASE ~(requests < MaxRequests)
    BY <1>5, <2>2, <1>3 DEF ChargeAndSpawn, TaskPlaces, WorkerPlaces
  <2> QED BY <2>1, <2>2
<1>6. ASSUME NEW d \in Dispatches, LeaveQueue(d) \/ Retire(d) PROVE TasksAreOwned'
  <2>1. Go(d, "retired") /\ worker[d] \in TaskPlaces /\ reserved' = reserved \ {TaskOf[d]}
    BY <1>6 DEF LeaveQueue, Retire, TaskPlaces
  <2> QED BY <2>1, <1>3 DEF TaskPlaces, WorkerPlaces
<1>7. ASSUME NEW d \in Dispatches,
             RequireAdmission(d) \/ AcquireSlot(d) \/ EnterLive(d) \/ StartBackend(d) \/ BackendReturns(d) \/ SendOutcome(d)
      PROVE  TasksAreOwned'
  <2>1. UNCHANGED reserved /\ \E pc \in WorkerPlaces : Go(d, pc) /\ (worker[d] \in TaskPlaces <=> pc \in TaskPlaces)
    BY <1>7 DEF RequireAdmission, AcquireSlot, EnterLive, StartBackend, BackendReturns, SendOutcome, TaskPlaces, WorkerPlaces
  <2> QED BY <2>1, <1>2
<1>8. ASSUME TakeOutcome, UNCHANGED reserved PROVE TasksAreOwned'
  BY <1>8, <1>2, HeadIsSent DEF TakeOutcome, TaskPlaces, WorkerPlaces
<1>9. CASE UNCHANGED <<reserved, worker>>
  <2>1. In(TaskPlaces)' = In(TaskPlaces)
    BY <1>9, StayIn
  <2> QED BY <1>0, <1>9, <2>1, <1>1
<1>10. TasksAreOwned'
  BY <1>4, <1>5, <1>6, <1>7, <1>8, <1>9
  DEF SchedulerNext, DispatchStep, WorkerStep, WaitStep, HostStep, CancelOne, CancelFlag, CancelLive, CloseSlots,
      DrainLock, DrainOne, DrainDone, AskLease, AcquireLease, LeaseRefused, AwaitNext, LockReceiver, Receive
<1> QED BY <1>0, <1>10

(* The live map.                                                            *)
LEMMA LiveKept ==
    ASSUME SchedulerIInv, SchedulerNext
    PROVE  LiveIsListed'
<1> USE DEF SchedulerIInv
<1>1. ASSUME UNCHANGED live, NEW d \in Dispatches, NEW pc \in WorkerPlaces, Go(d, pc),
             worker[d] \in LivePlaces <=> pc \in LivePlaces
      PROVE  LiveIsListed'
  BY <1>1, MoveCounts DEF LiveIsListed
<1>2. ASSUME NEW d \in Dispatches, EnterLive(d) PROVE LiveIsListed'
  BY <1>2, MoveIn DEF EnterLive, LiveIsListed, LivePlaces, WorkerPlaces
<1>3. ASSUME NEW d \in Dispatches, Retire(d) PROVE LiveIsListed'
  BY <1>3, MoveIn DEF Retire, LiveIsListed, LivePlaces, WorkerPlaces
<1>4. ASSUME NEW d \in Dispatches,
             DispatchStep(d) \/ AcquireSlot(d) \/ LeaveQueue(d) \/ StartBackend(d) \/ BackendReturns(d) \/ SendOutcome(d)
      PROVE  LiveIsListed'
  <2>1. UNCHANGED live /\ \E pc \in WorkerPlaces : Go(d, pc) /\ (worker[d] \in LivePlaces <=> pc \in LivePlaces)
    BY <1>4 DEF DispatchStep, RequireAdmission, ReserveTask, ChargeAndSpawn, AcquireSlot, LeaveQueue, StartBackend,
       BackendReturns, SendOutcome, LivePlaces, WorkerPlaces
  <2> QED BY <2>1, <1>1
<1>5. ASSUME TakeOutcome, UNCHANGED live PROVE LiveIsListed'
  BY <1>5, <1>1, HeadIsSent DEF TakeOutcome, LivePlaces, WorkerPlaces
<1>6. CASE UNCHANGED <<live, worker>>
  BY <1>6, StayIn DEF LiveIsListed
<1> QED
  BY <1>2, <1>3, <1>4, <1>5, <1>6
  DEF SchedulerNext, WorkerStep, WaitStep, HostStep, CancelOne, CancelFlag, CancelLive, CloseSlots,
      DrainLock, DrainOne, DrainDone, AskLease, AcquireLease, LeaseRefused, AwaitNext, LockReceiver, Receive

(* The channel.  An outcome is appended by its own dispatch, which then is  *)
(* "sent", and leaves from the head.                                        *)
LEMMA ChannelKept ==
    ASSUME SchedulerIInv, SchedulerNext
    PROVE  ChannelIsOfSent' /\ channel' \in Seq(Dispatches) /\ Len(channel') <= Capacity
<1> USE DEF SchedulerIInv
<1> DEFINE Goal == ChannelIsOfSent' /\ channel' \in Seq(Dispatches) /\ Len(channel') <= Capacity
<1>0. ChannelIsOfSent /\ channel \in Seq(Dispatches) /\ Len(channel) <= Capacity /\ Capacity \in Nat
  BY SchedulerAssumption DEF SchedulerTypeOK
<1>1. ASSUME NEW d \in Dispatches, SendOutcome(d) PROVE Goal
  <2>1. worker'[d] = "sent" /\ worker[d] = "retired" /\ \A e \in Dispatches : e # d => worker'[e] = worker[e]
    BY <1>1 DEF SendOutcome, SchedulerTypeOK, Go
  <2>2. channel' = Append(channel, d) /\ Len(channel) < Capacity
    BY <1>1 DEF SendOutcome
  <2>3. /\ channel' \in Seq(Dispatches) /\ Len(channel') = Len(channel) + 1
        /\ \A i \in 1..Len(channel) : channel'[i] = channel[i] /\ channel[i] # d
        /\ channel'[Len(channel) + 1] = d
    BY <1>0, <2>1, <2>2 DEF ChannelIsOfSent
  <2>4. ASSUME NEW i \in 1..Len(channel') PROVE worker'[channel'[i]] = "sent"
    BY <1>0, <2>1, <2>3 DEF ChannelIsOfSent
  <2>5. ASSUME NEW i \in 1..Len(channel'), NEW j \in 1..Len(channel'), channel'[i] = channel'[j] PROVE i = j
    <3>1. i \in 1..Len(channel) \/ i = Len(channel) + 1
      BY <1>0, <2>3
    <3>2. j \in 1..Len(channel) \/ j = Len(channel) + 1
      BY <1>0, <2>3
    <3> QED BY <1>0, <2>3, <2>5, <3>1, <3>2 DEF ChannelIsOfSent
  <2> QED BY <1>0, <2>2, <2>3, <2>4, <2>5 DEF ChannelIsOfSent
<1>2. ASSUME TakeOutcome PROVE Goal
  <2>1. /\ channel' \in Seq(Dispatches) /\ Len(channel') = Len(channel) - 1 /\ Head(channel) \in Dispatches
        /\ \A i \in 1..Len(channel') : channel'[i] = channel[i + 1] /\ channel'[i] # Head(channel)
    BY <1>2, HeadIsSent DEF TakeOutcome
  <2>2. \A e \in Dispatches : e # Head(channel) => worker'[e] = worker[e]
    BY <1>2, <2>1 DEF TakeOutcome, SchedulerTypeOK, Go
  <2>3. ASSUME NEW i \in 1..Len(channel')
        PROVE  i + 1 \in 1..Len(channel) /\ channel'[i] \in Dispatches
    BY <1>0, <2>1
  <2>4. \A i \in 1..Len(channel') : worker'[channel'[i]] = "sent"
    BY <1>0, <2>1, <2>2, <2>3 DEF ChannelIsOfSent
  <2>5. ASSUME NEW i \in 1..Len(channel'), NEW j \in 1..Len(channel'), channel'[i] = channel'[j] PROVE i = j
    <3>1. i + 1 = j + 1
      BY <1>0, <2>1, <2>3, <2>5 DEF ChannelIsOfSent
    <3> QED BY <3>1
  <2> QED BY <1>0, <2>1, <2>4, <2>5 DEF ChannelIsOfSent
<1>3. ASSUME UNCHANGED channel, NEW d \in Dispatches, NEW pc \in WorkerPlaces, Go(d, pc), worker[d] # "sent" PROVE Goal
  <2>1. \A e \in Dispatches : e # d => worker'[e] = worker[e]
    BY <1>3 DEF SchedulerTypeOK, Go
  <2>2. \A i \in 1..Len(channel) : channel[i] \in Dispatches
    BY <1>0
  <2> QED BY <1>0, <1>3, <2>1, <2>2 DEF ChannelIsOfSent
<1>4. ASSUME NEW d \in Dispatches,
             DispatchStep(d) \/ AcquireSlot(d) \/ LeaveQueue(d) \/ EnterLive(d) \/ StartBackend(d) \/ BackendReturns(d)
             \/ Retire(d)
      PROVE  Goal
  <2>1. UNCHANGED channel /\ worker[d] # "sent" /\ \E pc \in WorkerPlaces : Go(d, pc)
    BY <1>4 DEF DispatchStep, RequireAdmission, ReserveTask, ChargeAndSpawn, AcquireSlot, LeaveQueue, EnterLive,
       StartBackend, BackendReturns, Retire, WorkerPlaces
  <2> QED BY <2>1, <1>3
<1>5. CASE UNCHANGED <<channel, worker>>
  BY <1>0, <1>5 DEF ChannelIsOfSent
<1> QED
  BY <1>1, <1>2, <1>4, <1>5
  DEF SchedulerNext, WorkerStep, WaitStep, HostStep, CancelOne, CancelFlag, CancelLive, CloseSlots,
      DrainLock, DrainOne, DrainDone, AskLease, AcquireLease, LeaseRefused, AwaitNext, LockReceiver, Receive

-----------------------------------------------------------------------------
(* A shutdown.  Who enters the backend after the flag cancels itself, who   *)
(* is in it at the loop is in the live map, and after the slots are closed  *)
(* nobody new arrives.                                                      *)
LEMMA ShutdownKept ==
    ASSUME SchedulerIInv, SchedulerNext
    PROVE  FlagsStay' /\ ShutdownReachesRunning'
<1> USE DEF SchedulerIInv, FlagsStay, ShutdownReachesRunning
<1>1. ASSUME NEW d \in Dispatches, StartBackend(d) PROVE FlagsStay' /\ ShutdownReachesRunning'
  BY <1>1 DEF StartBackend, SchedulerTypeOK, Go
<1>2. ASSUME UNCHANGED <<host, shuttingDown, closed, cancelled>>, NEW d \in Dispatches, NEW pc \in WorkerPlaces \ {"running"}, Go(d, pc)
      PROVE  FlagsStay' /\ ShutdownReachesRunning'
  BY <1>2 DEF SchedulerTypeOK, Go
<1>3. ASSUME NEW d \in Dispatches,
             DispatchStep(d) \/ AcquireSlot(d) \/ LeaveQueue(d) \/ EnterLive(d) \/ BackendReturns(d) \/ Retire(d) \/ SendOutcome(d)
      PROVE  FlagsStay' /\ ShutdownReachesRunning'
  <2>1. UNCHANGED <<host, shuttingDown, closed, cancelled>>
    BY <1>3 DEF DispatchStep, RequireAdmission, ReserveTask, ChargeAndSpawn, AcquireSlot, LeaveQueue, EnterLive,
       BackendReturns, Retire, SendOutcome
  <2>2. \E pc \in WorkerPlaces \ {"running"} : Go(d, pc)
    BY <1>3 DEF DispatchStep, RequireAdmission, ReserveTask, ChargeAndSpawn, AcquireSlot, LeaveQueue, EnterLive,
       BackendReturns, Retire, SendOutcome, WorkerPlaces
  <2> QED BY <2>1, <2>2, <1>2
<1>4. ASSUME NEW d \in Dispatches, CancelOne(d) PROVE FlagsStay' /\ ShutdownReachesRunning'
  BY <1>4 DEF CancelOne
<1>5. ASSUME TakeOutcome, UNCHANGED <<host, shuttingDown, closed, cancelled>> PROVE FlagsStay' /\ ShutdownReachesRunning'
  BY <1>5, <1>2, HeadIsSent DEF TakeOutcome, WorkerPlaces
<1>6. CASE CancelFlag
  BY <1>6 DEF CancelFlag
<1>7. CASE CancelLive
  BY <1>7 DEF CancelLive, LiveIsListed, In, LivePlaces
<1>8. CASE CloseSlots \/ DrainLock \/ DrainDone
  BY <1>8 DEF CloseSlots, DrainLock, DrainDone
<1>9. CASE UNCHANGED <<host, shuttingDown, closed, cancelled, worker>>
  BY <1>9
<1> QED
  BY <1>1, <1>3, <1>4, <1>5, <1>6, <1>7, <1>8, <1>9
  DEF SchedulerNext, WorkerStep, WaitStep, HostStep, DrainOne, AskLease, AcquireLease, LeaseRefused, AwaitNext, LockReceiver, Receive

LEMMA QuietKept ==
    ASSUME SchedulerIInv, SchedulerNext
    PROVE  DrainedIsQuiet'
<1> USE DEF SchedulerIInv, DrainedIsQuiet
<1> DEFINE Engaged == {"holding", "live", "running", "returned"}
<1>1. ASSUME host' = "drained" => host = "drained", NEW d \in Dispatches, NEW pc \in WorkerPlaces, Go(d, pc),
             host = "drained" /\ pc \in Engaged => worker[d] \in Engaged
      PROVE  DrainedIsQuiet'
  BY <1>1 DEF SchedulerTypeOK, Go
<1>2. ASSUME NEW d \in Dispatches, AcquireSlot(d) PROVE DrainedIsQuiet'
  BY <1>2 DEF AcquireSlot, FlagsStay
<1>3. ASSUME NEW d \in Dispatches,
             DispatchStep(d) \/ LeaveQueue(d) \/ EnterLive(d) \/ StartBackend(d) \/ BackendReturns(d) \/ Retire(d) \/ SendOutcome(d)
      PROVE  DrainedIsQuiet'
  <2>1. UNCHANGED host /\ \E pc \in WorkerPlaces : Go(d, pc) /\ (pc \in Engaged => worker[d] \in Engaged)
    BY <1>3 DEF DispatchStep, RequireAdmission, ReserveTask, ChargeAndSpawn, LeaveQueue, EnterLive, StartBackend,
       BackendReturns, Retire, SendOutcome, WorkerPlaces
  <2> QED BY <2>1, <1>1
<1>4. ASSUME TakeOutcome, UNCHANGED host PROVE DrainedIsQuiet'
  BY <1>4, <1>1, HeadIsSent DEF TakeOutcome, WorkerPlaces
<1>5. CASE CancelFlag \/ CancelLive \/ CloseSlots \/ DrainLock
  BY <1>5 DEF CancelFlag, CancelLive, CloseSlots, DrainLock
<1>6. CASE DrainDone
  <2>1. Cardinality(In(FlightPlaces)) = 0 /\ IsFiniteSet(In(FlightPlaces))
    BY <1>6, FlightIsIn, InIsFinite DEF DrainDone, StreamIsCounted
  <2>2. In(FlightPlaces) = {}
    BY <2>1, FS_EmptySet
  <2> QED BY <1>6, <2>2 DEF DrainDone, In, FlightPlaces
<1>7. CASE UNCHANGED <<host, worker>>
  BY <1>7
<1> QED
  BY <1>2, <1>3, <1>4, <1>5, <1>6, <1>7
  DEF SchedulerNext, WorkerStep, WaitStep, HostStep, CancelOne, DrainOne, AskLease, AcquireLease, LeaseRefused,
      AwaitNext, LockReceiver, Receive

-----------------------------------------------------------------------------
LEMMA TypeKept ==
    ASSUME SchedulerIInv, SchedulerNext
    PROVE  SchedulerTypeOK'
<1> USE DEF SchedulerIInv
<1>1. permits' \in 0..Slots /\ outstanding' \in 0..Cardinality(Dispatches) /\ reserved' \in SUBSET Tasks
  BY SlotsKept, StreamKept, TasksKept
<1>2. channel' \in Seq(Dispatches) /\ Len(channel') <= Capacity
  BY ChannelKept
<1>3. live' \in SUBSET Dispatches
  BY LiveKept DEF LiveIsListed, In
<1>4. /\ closed' \in BOOLEAN /\ shuttingDown' \in BOOLEAN /\ cancelled' \in SUBSET Dispatches
      /\ host' \in {"up", "flagged", "cancelled", "closed", "draining", "drained"}
      /\ drains' \in 0..MaxDrains /\ requests' \in 0..MaxRequests
  <2>1. MaxDrains \in Nat /\ MaxRequests \in Nat
    BY SchedulerAssumption
  <2>2. closed' \in BOOLEAN /\ shuttingDown' \in BOOLEAN
    BY DEF SchedulerTypeOK, SchedulerNext, DispatchStep, WorkerStep, WaitStep, HostStep, CancelOne, RequireAdmission,
       ReserveTask, ChargeAndSpawn, AcquireSlot, LeaveQueue, EnterLive, StartBackend, BackendReturns, Retire, SendOutcome,
       AskLease, AcquireLease, LeaseRefused, AwaitNext, LockReceiver, Receive, CancelFlag, CancelLive, CloseSlots,
       DrainLock, DrainOne, DrainDone
  <2>3. cancelled' \in SUBSET Dispatches
    BY DEF SchedulerTypeOK, SchedulerNext, DispatchStep, WorkerStep, WaitStep, HostStep, CancelOne, RequireAdmission,
       ReserveTask, ChargeAndSpawn, AcquireSlot, LeaveQueue, EnterLive, StartBackend, BackendReturns, Retire, SendOutcome,
       AskLease, AcquireLease, LeaseRefused, AwaitNext, LockReceiver, Receive, CancelFlag, CancelLive, CloseSlots,
       DrainLock, DrainOne, DrainDone
  <2>4. host' \in {"up", "flagged", "cancelled", "closed", "draining", "drained"}
    BY DEF SchedulerTypeOK, SchedulerNext, DispatchStep, WorkerStep, WaitStep, HostStep, CancelOne, RequireAdmission,
       ReserveTask, ChargeAndSpawn, AcquireSlot, LeaveQueue, EnterLive, StartBackend, BackendReturns, Retire, SendOutcome,
       AskLease, AcquireLease, LeaseRefused, AwaitNext, LockReceiver, Receive, CancelFlag, CancelLive, CloseSlots,
       DrainLock, DrainOne, DrainDone
  <2>5. drains' \in 0..MaxDrains
    BY <2>1 DEF SchedulerTypeOK, SchedulerNext, DispatchStep, WorkerStep, WaitStep, HostStep, CancelOne, RequireAdmission,
       ReserveTask, ChargeAndSpawn, AcquireSlot, LeaveQueue, EnterLive, StartBackend, BackendReturns, Retire, SendOutcome,
       AskLease, AcquireLease, LeaseRefused, AwaitNext, LockReceiver, Receive, CancelFlag, CancelLive, CloseSlots,
       DrainLock, DrainOne, DrainDone
  <2>6. requests' \in 0..MaxRequests
    BY <2>1 DEF SchedulerTypeOK, SchedulerNext, DispatchStep, WorkerStep, WaitStep, HostStep, CancelOne, RequireAdmission,
       ReserveTask, ChargeAndSpawn, AcquireSlot, LeaveQueue, EnterLive, StartBackend, BackendReturns, Retire, SendOutcome,
       AskLease, AcquireLease, LeaseRefused, AwaitNext, LockReceiver, Receive, CancelFlag, CancelLive, CloseSlots,
       DrainLock, DrainOne, DrainDone
  <2> QED BY <2>2, <2>3, <2>4, <2>5, <2>6
<1>5. worker' \in [Dispatches -> WorkerPlaces]
  <2>1. worker \in [Dispatches -> WorkerPlaces]
    BY DEF SchedulerTypeOK, WorkerPlaces
  <2>2. ASSUME NEW d \in Dispatches, DispatchStep(d) \/ WorkerStep(d) PROVE \E pc \in WorkerPlaces : Go(d, pc)
    BY <2>2 DEF DispatchStep, WorkerStep, RequireAdmission, ReserveTask, ChargeAndSpawn, AcquireSlot, LeaveQueue,
       EnterLive, StartBackend, BackendReturns, Retire, SendOutcome, WorkerPlaces
  <2>3. ASSUME TakeOutcome PROVE Head(channel) \in Dispatches /\ Go(Head(channel), "taken")
    BY <2>3, HeadIsSent DEF TakeOutcome
  <2> QED
    BY <2>1, <2>2, <2>3
    DEF Go, WorkerPlaces, SchedulerNext, WaitStep, HostStep, CancelOne, AskLease, AcquireLease, LeaseRefused, AwaitNext,
        LockReceiver, Receive, CancelFlag, CancelLive, CloseSlots, DrainLock, DrainOne, DrainDone
<1>6. /\ lock' \in Parents \cup {"host", "free"}
      /\ parent' \in [Parents -> {"idle", "asking", "leased", "waiting", "receiving"}]
  BY DEF SchedulerTypeOK, SchedulerNext, DispatchStep, WorkerStep, WaitStep, HostStep, CancelOne, RequireAdmission,
     ReserveTask, ChargeAndSpawn, AcquireSlot, LeaveQueue, EnterLive, StartBackend, BackendReturns, Retire, SendOutcome,
     AskLease, AcquireLease, LeaseRefused, AwaitNext, LockReceiver, Receive, CancelFlag, CancelLive, CloseSlots,
     DrainLock, DrainOne, DrainDone
<1> QED BY <1>1, <1>2, <1>3, <1>4, <1>5, <1>6 DEF SchedulerTypeOK, WorkerPlaces

(* One owner of each reserved task, as a count.                             *)
LEMMA OwnersAreCounted == TasksAreOwned => OneWorkerPerTask
<1> SUFFICES ASSUME TasksAreOwned, NEW t \in Tasks
             PROVE  Cardinality({d \in Dispatches : TaskOf[d] = t /\ worker[d] \in TaskPlaces}) = (IF t \in reserved THEN 1 ELSE 0)
  BY DEF OneWorkerPerTask, TaskPlaces
<1> DEFINE Owners == {d \in Dispatches : TaskOf[d] = t /\ worker[d] \in TaskPlaces}
<1>1. CASE t \in reserved
  <2>1. PICK d \in In(TaskPlaces) : TaskOf[d] = t
    BY <1>1 DEF TasksAreOwned
  <2>2. Owners = {d}
    BY <2>1 DEF TasksAreOwned, In
  <2> QED BY <1>1, <2>2, FS_Singleton
<1>2. CASE t \notin reserved
  <2>1. Owners = {}
    BY <1>2 DEF TasksAreOwned, In
  <2> QED BY <1>2, <2>1, FS_EmptySet
<1> QED BY <1>1, <1>2

LEMMA SchedulerStarts == SchedulerInit => SchedulerIInv
<1> SUFFICES ASSUME SchedulerInit PROVE SchedulerIInv
  OBVIOUS
<1>1. /\ In(SlotPlaces) = {} /\ In(FlightPlaces) = {} /\ In(TaskPlaces) = {} /\ In(LivePlaces) = {} /\ Leased = {}
  BY DEF SchedulerInit, In, Leased, SlotPlaces, FlightPlaces, TaskPlaces, LivePlaces
<1>2. Cardinality({}) = 0 /\ Cardinality(Dispatches) \in Nat
  BY FS_EmptySet, FS_CardinalityType, SchedulerAssumption
<1>3. SchedulerTypeOK
  <2>1. permits \in 0..Slots /\ requests \in 0..MaxRequests /\ outstanding \in 0..Cardinality(Dispatches) /\ drains \in 0..MaxDrains
    BY <1>2, SchedulerAssumption DEF SchedulerInit
  <2>2. channel \in Seq(Dispatches) /\ Len(channel) <= Capacity
    BY SchedulerAssumption DEF SchedulerInit
  <2> QED BY <2>1, <2>2 DEF SchedulerInit, SchedulerTypeOK
<1>4. SlotsAreCounted /\ StreamIsCounted
  BY <1>1, <1>2, FlightIsIn, SchedulerAssumption DEF SchedulerInit, SlotsAreCounted, StreamIsCounted
<1>5. TasksAreOwned /\ LiveIsListed
  BY <1>1 DEF SchedulerInit, TasksAreOwned, LiveIsListed
<1>6. ChannelIsOfSent /\ FlagsStay /\ ShutdownReachesRunning /\ DrainedIsQuiet
  BY DEF SchedulerInit, ChannelIsOfSent, FlagsStay, ShutdownReachesRunning, DrainedIsQuiet
<1> QED BY <1>3, <1>4, <1>5, <1>6 DEF SchedulerIInv

LEMMA SchedulerStepKeeps == SchedulerIInv /\ [SchedulerNext]_schedulerVars => SchedulerIInv'
<1>1. ASSUME SchedulerIInv, SchedulerNext PROVE SchedulerIInv'
  BY <1>1, TypeKept, SlotsKept, StreamKept, TasksKept, LiveKept, ChannelKept, ShutdownKept, QuietKept DEF SchedulerIInv
<1>2. ASSUME SchedulerIInv, UNCHANGED schedulerVars PROVE SchedulerIInv'
  BY <1>2 DEF schedulerVars, SchedulerIInv, SchedulerTypeOK, SlotsAreCounted, StreamIsCounted, TasksAreOwned, LiveIsListed,
     ChannelIsOfSent, FlagsStay, ShutdownReachesRunning, DrainedIsQuiet, In, Leased, InFlight
<1> QED BY <1>1, <1>2

(* Every reachable state is as described above: the places of the           *)
(* dispatches, the slots, the lists and the flags of a shutdown agree       *)
(* (dispatch, retire!, wait_children, drain_descendants).                   *)
THEOREM SchedulerIsInductive == SchedulerSpec => []SchedulerIInv
BY SchedulerStarts, SchedulerStepKeeps, PTL DEF SchedulerSpec

(* The slots, the reservations, the count of outcomes and the live map      *)
(* agree, and a shutdown reaches every worker, for any number of            *)
(* dispatches, parents and slots (dispatch, retire!, cancel_descendants,    *)
(* drain_descendants).                                                      *)
THEOREM SchedulerSafe == SchedulerSpec => []SchedulerInv
<1>1. SchedulerIInv => SchedulerInv
  BY OwnersAreCounted DEF SchedulerIInv, SchedulerInv
<1> QED BY <1>1, SchedulerIsInductive, PTL

-----------------------------------------------------------------------------
(* The composition of plugins.                                              *)

LEMMA LeastIsMin ==
    ASSUME NEW S \in SUBSET Nat, S # {}
    PROVE  Min(S) \in S
BY LeastNumber DEF Min

LEMMA DescriptorShape ==
    ASSUME descriptors \in [1 .. Count -> Descriptors], NEW p \in Positions
    PROVE  /\ p \in 1 .. Count /\ Positions = 1 .. Count /\ Count \in Nat
           /\ descriptors[p].requires \in Seq(ToSet(descriptors[p].requires))
           /\ \A s \in descriptors[p].provides : s = [service |-> s.service, version |-> s.version]
<1>1. Positions = 1 .. Count /\ Count \in Nat
  BY GraphAssumption DEF Positions
<1>2. descriptors[p].requires \in Requires /\ descriptors[p].provides \in Provides
  BY <1>1 DEF Descriptors
<1> QED BY <1>1, <1>2, GraphAssumption

(* An offer is a compatible candidate.                                      *)
LEMMA OffersAreCompatible ==
    ASSUME descriptors \in [1 .. Count -> Descriptors], NEW p \in Positions, NEW q \in Positions, NEW r
    PROVE  Offers(q, p, r) <=> q \in Compatible(p, r)
<1>1. ASSUME Offers(q, p, r) PROVE q \in Compatible(p, r)
  <2>1. PICK s \in descriptors[q].provides : s.service = r.service /\ s.version = r.version
    BY <1>1 DEF Offers
  <2>2. s = [service |-> s.service, version |-> s.version]
    BY DescriptorShape
  <2>3. [service |-> r.service, version |-> r.version] \in descriptors[q].provides
    BY <2>1, <2>2
  <2> QED BY <1>1, <2>1, <2>3 DEF Offers, Compatible, Candidates
<1>2. ASSUME q \in Compatible(p, r) PROVE Offers(q, p, r)
  <2> DEFINE s == [service |-> r.service, version |-> r.version]
  <2>1. s \in descriptors[q].provides /\ descriptors[q].scope = descriptors[p].scope
    BY <1>2 DEF Compatible, Candidates
  <2>2. s.service = r.service /\ s.version = r.version
    OBVIOUS
  <2> QED BY <2>1, <2>2 DEF Offers
<1> QED BY <1>1, <1>2

(* The edges of a plugin lead to a provider of each requirement it can have.*)
LEMMA EdgesOf ==
    ASSUME descriptors \in [1 .. Count -> Descriptors], NEW p \in Positions
    PROVE  /\ Edges[p] \in Seq(Positions)
           /\ \A n \in DOMAIN descriptors[p].requires :
                 Compatible(p, descriptors[p].requires[n]) # {} =>
                     \E q \in Compatible(p, descriptors[p].requires[n]) : q \in ToSet(Edges[p])
           /\ \A q \in ToSet(Edges[p]) : \E n \in DOMAIN descriptors[p].requires :
                 q \in Compatible(p, descriptors[p].requires[n])
<1> DEFINE needed == descriptors[p].requires
           I == {n \in DOMAIN needed : Compatible(p, needed[n]) # {}}
           met == KeepAt(needed, I)
           found(r) == CHOOSE q \in Compatible(p, r) : TRUE
<1>1. needed \in Seq(ToSet(needed))
  BY DescriptorShape
<1>2. met \in Seq(ToSet(needed)) /\ ToSet(met) = {needed[n] : n \in DOMAIN needed \cap I}
  BY <1>1, KeepAtKeeps
<1>3. Edges[p] = [n \in DOMAIN met |-> found(met[n])]
  BY DEF Edges
<1> HIDE DEF met
<1>4. \A n \in DOMAIN met : \E k \in I : met[n] = needed[k]
  BY <1>2, ElementIsAt
<1>5. \A k \in I : \E n \in DOMAIN met : met[n] = needed[k]
  BY <1>2 DEF ToSet
<1>6. \A n \in DOMAIN met : found(met[n]) \in Compatible(p, met[n])
  BY <1>4
<1>7. \A r : Compatible(p, r) \subseteq Positions
  BY DEF Compatible, Candidates
<1>8. DOMAIN met = 1 .. Len(met) /\ Len(met) \in Nat
  BY <1>2
<1>9. \A n \in 1 .. Len(met) : Edges[p][n] \in Positions
  BY <1>3, <1>6, <1>7, <1>8
<1>10. Edges[p] \in Seq(Positions)
  <2>1. Edges[p] \in [1 .. Len(met) -> Positions]
    BY <1>3, <1>8, <1>9
  <2> QED BY <2>1, <1>8
<1>11. ASSUME NEW k \in I PROVE \E q \in Compatible(p, needed[k]) : q \in ToSet(Edges[p])
  <2>1. PICK n \in DOMAIN met : met[n] = needed[k]
    BY <1>5
  <2>2. Edges[p][n] \in Compatible(p, needed[k]) /\ n \in DOMAIN Edges[p]
    BY <1>3, <1>6, <2>1
  <2> QED BY <2>2 DEF ToSet
<1>12. ASSUME NEW q \in ToSet(Edges[p]) PROVE \E k \in DOMAIN needed : q \in Compatible(p, needed[k])
  <2>1. PICK n \in DOMAIN met : q = found(met[n])
    BY <1>3 DEF ToSet
  <2> QED BY <2>1, <1>4, <1>6
<1> QED BY <1>10, <1>11, <1>12

LEMMA EdgesAreInGraph == ASSUME descriptors \in [1 .. Count -> Descriptors] PROVE EdgesIn(Positions, Edges)
BY EdgesOf DEF EdgesIn

(* Two elements are more than one.                                          *)
LEMMA TwoAreMore ==
    ASSUME NEW T, IsFiniteSet(T), NEW a \in T, NEW b \in T, a # b
    PROVE  Cardinality(T) > 1
<1>1. Cardinality({a}) = 1 /\ IsFiniteSet({a})
  BY FS_Singleton
<1>2. {a} \in SUBSET T /\ {a} # T
  OBVIOUS
<1>3. Cardinality({a}) <= Cardinality(T) /\ Cardinality(T) # Cardinality({a}) /\ Cardinality(T) \in Nat
  BY <1>2, FS_Subset, FS_CardinalityType
<1> QED BY <1>1, <1>3

(* What the first pass lets through.                                        *)
LEMMA FirstPassed ==
    ASSUME descriptors \in [1 .. Count -> Descriptors], FirstPass = "ok"
    PROVE  /\ \A p, q \in Positions : descriptors[p].id = descriptors[q].id => p = q
           /\ \A p, q \in Positions : \A s \in descriptors[p].provides, t \in descriptors[q].provides :
                 descriptors[p].scope = descriptors[q].scope /\ s.service = t.service => p = q
<1> DEFINE zero(p) == descriptors[p].generation = 0
           again(p) == \E q \in Positions : q < p /\ descriptors[q].id = descriptors[p].id
<1>1. {p \in Positions : zero(p) \/ again(p)} = {} /\ ~DuplicateProvider
  BY DEF FirstPass
<1>2. Positions = 1 .. Count /\ Count \in Nat
  BY GraphAssumption DEF Positions
<1>3. \A p, q \in Positions : descriptors[p].id = descriptors[q].id => p = q
  <2> SUFFICES ASSUME NEW p \in Positions, NEW q \in Positions, descriptors[p].id = descriptors[q].id, p # q
               PROVE  FALSE
    OBVIOUS
  <2>1. p < q \/ q < p
    BY <1>2
  <2> QED BY <2>1, <1>1
<1>4. ASSUME NEW p \in Positions, NEW q \in Positions, NEW s \in descriptors[p].provides,
             NEW t \in descriptors[q].provides, descriptors[p].scope = descriptors[q].scope, s.service = t.service, p # q
      PROVE  FALSE
  <2> DEFINE C == Candidates(descriptors[p].scope, s.service)
             name == [k \in C |-> descriptors[k].id]
             T == {descriptors[k].id : k \in C}
  <2>1. p \in C /\ q \in C
    BY <1>4 DEF Candidates
  <2>2. IsFiniteSet(C)
    <3>1. IsFiniteSet(1 .. Count) /\ C \in SUBSET (1 .. Count)
      BY <1>2, FS_Interval DEF Candidates
    <3> QED BY <3>1, FS_Subset
  <2>3. IsFiniteSet(T)
    <3>1. name \in Surjection(C, T)
      BY DEF Surjection
    <3> QED BY <3>1, <2>2, FS_Surjection
  <2>4. descriptors[p].id \in T /\ descriptors[q].id \in T /\ descriptors[p].id # descriptors[q].id
    BY <2>1, <1>3, <1>4
  <2>5. Cardinality(T) > 1
    BY <2>3, <2>4, TwoAreMore
  <2>6. DuplicateProvider
    BY <2>5 DEF DuplicateProvider
  <2> QED BY <2>6, <1>1
<1> QED BY <1>3, <1>4

(* What the second pass lets through.                                       *)
LEMMA SecondPassed ==
    ASSUME descriptors \in [1 .. Count -> Descriptors], SecondPass = "ok",
           NEW p \in Positions, NEW n \in DOMAIN descriptors[p].requires
    PROVE  descriptors[p].requires[n].optional \/ Compatible(p, descriptors[p].requires[n]) # {}
<1> DEFINE failing(k) == {m \in DOMAIN descriptors[k].requires : Unmet(k, descriptors[k].requires[m]) # "ok"}
           bad == {k \in Positions : failing(k) # {}}
<1>1. bad = {}
  <2> SUFFICES ASSUME bad # {} PROVE FALSE
    OBVIOUS
  <2>1. bad \in SUBSET Nat
    BY GraphAssumption DEF Positions
  <2>2. Min(bad) \in bad
    BY <2>1, LeastIsMin
  <2> DEFINE k == Min(bad)
  <2>3. k \in Positions /\ failing(k) # {}
    BY <2>2
  <2> HIDE DEF k
  <2>4. failing(k) \in SUBSET Nat
    <3>1. descriptors[k].requires \in Seq(ToSet(descriptors[k].requires))
      BY <2>3, DescriptorShape
    <3> QED BY <3>1
  <2>5. Min(failing(k)) \in failing(k)
    BY <2>3, <2>4, LeastIsMin
  <2>6. Unmet(k, descriptors[k].requires[Min(failing(k))]) # "ok"
    BY <2>5
  <2>7. SecondPass = Unmet(k, descriptors[k].requires[Min(failing(k))])
    BY DEF SecondPass, k
  <2> QED BY <2>6, <2>7
<1>2. Unmet(p, descriptors[p].requires[n]) = "ok"
  BY <1>1
<1> QED BY <1>2 DEF Unmet

(* With one provider of a service, what a plugin needs is where its edges   *)
(* lead.                                                                    *)
LEMMA NeedsAreEdges ==
    ASSUME descriptors \in [1 .. Count -> Descriptors], FirstPass = "ok", NEW p \in Positions, NEW q \in Positions
    PROVE  Needs(p, q) <=> q \in ToSet(Edges[p])
<1>1. ASSUME Needs(p, q) PROVE q \in ToSet(Edges[p])
  <2>1. PICK n \in DOMAIN descriptors[p].requires : Offers(q, p, descriptors[p].requires[n])
    BY <1>1 DEF Needs
  <2> DEFINE r == descriptors[p].requires[n]
  <2>2. q \in Compatible(p, r)
    BY <2>1, OffersAreCompatible
  <2>3. PICK k \in Compatible(p, r) : k \in ToSet(Edges[p])
    BY <2>2, EdgesOf
  <2>4. k \in Positions /\ Offers(k, p, r)
    BY <2>3, OffersAreCompatible DEF Compatible, Candidates
  <2>5. descriptors[k].scope = descriptors[q].scope
    BY <2>1, <2>4 DEF Offers
  <2>6. PICK s \in descriptors[k].provides : s.service = r.service
    BY <2>4 DEF Offers
  <2>7. PICK t \in descriptors[q].provides : t.service = r.service
    BY <2>1 DEF Offers
  <2>8. k = q
    BY <2>4, <2>5, <2>6, <2>7, FirstPassed
  <2> QED BY <2>3, <2>8
<1>2. ASSUME q \in ToSet(Edges[p]) PROVE Needs(p, q)
  <2>1. PICK n \in DOMAIN descriptors[p].requires : q \in Compatible(p, descriptors[p].requires[n])
    BY <1>2, EdgesOf
  <2> QED BY <2>1, OffersAreCompatible DEF Needs
<1> QED BY <1>1, <1>2

-----------------------------------------------------------------------------
GraphInv ==
    /\ descriptors \in [1 .. Count -> Descriptors]
    /\ result \in {"visiting", "ok", "cycle"} =>
          FirstPass = "ok" /\ SecondPass = "ok" /\ VisitInv(visits, Positions, Edges, Positions)
    /\ result = "ok" => AllVisited(visits)
    /\ result = "cycle" => visits.cycle

LEMMA GraphStarts == ASSUME GraphInit PROVE GraphInv
BY DEF GraphInit, GraphInv

LEMMA AnswerIs ==
    ASSUME NEW w
    PROVE  /\ Answer(w) \in {"visiting", "ok", "cycle"}
           /\ Answer(w) = "ok" => AllVisited(w)
           /\ Answer(w) = "cycle" => w.cycle
BY DEF Answer, AllVisited

LEMMA PassesAnswer ==
    /\ FirstPass \in {"ok", "invalid", "duplicate"}
    /\ SecondPass \in {"ok", "incompatible", "missing"}
<1>1. \A p, r : Unmet(p, r) \in {"ok", "incompatible", "missing"}
  BY DEF Unmet
<1>2. SecondPass \in {"ok", "incompatible", "missing"}
  BY <1>1 DEF SecondPass
<1> QED BY <1>2 DEF FirstPass

LEMMA GraphStays ==
    ASSUME descriptors' = descriptors
    PROVE  Positions' = Positions /\ Edges' = Edges /\ FirstPass' = FirstPass /\ SecondPass' = SecondPass
<1>1. Positions' = Positions
  BY DEF Positions
<1>2. Edges' = Edges
  BY DEF Positions, Edges, Candidates, Compatible
<1>3. DuplicateProvider' = DuplicateProvider
  BY DEF Positions, DuplicateProvider, Candidates
<1>4. FirstPass' = FirstPass
  BY <1>1, <1>3 DEF FirstPass
<1>5. SecondPass' = SecondPass
  <2> DEFINE failing(k) == {m \in DOMAIN descriptors[k].requires : Unmet(k, descriptors[k].requires[m]) # "ok"}
             bad == {k \in Positions : failing(k) # {}}
             fault(k) == Unmet(k, descriptors[k].requires[Min(failing(k))])
  <2>1. \A k, m : Unmet(k, descriptors[k].requires[m])' = Unmet(k, descriptors[k].requires[m])
    BY DEF Candidates, Compatible, Unmet, Positions
  <2>2. \A k : failing(k)' = failing(k)
    BY <2>1
  <2>3. \A k : fault(k)' = fault(k)
    <3> SUFFICES ASSUME NEW k PROVE fault(k)' = fault(k)
      OBVIOUS
    <3> DEFINE m == Min(failing(k))
    <3>1. m' = m
      BY <2>2
    <3>2. fault(k)' = Unmet(k, descriptors[k].requires[m])'
      OBVIOUS
    <3> QED BY <3>1, <2>1 DEF Unmet, Candidates, Compatible, Positions
  <2>4. bad' = bad
    BY <1>1, <2>2
  <2>5. SecondPass = IF bad = {} THEN "ok" ELSE fault(Min(bad))
    BY DEF SecondPass
  <2>6. SecondPass' = IF bad' = {} THEN "ok" ELSE fault(Min(bad))'
    BY DEF SecondPass
  <2> HIDE DEF failing, bad, fault
  <2>7. fault(Min(bad))' = fault(Min(bad))
    BY <2>3, <2>4
  <2> QED BY <2>4, <2>5, <2>6, <2>7
<1> QED BY <1>1, <1>2, <1>4, <1>5

LEMMA GraphStep == ASSUME GraphInv, [GraphNext]_graphVars PROVE GraphInv'
<1>1. CASE Validate
  <2>1. result = "none" /\ descriptors' = descriptors
    BY <1>1 DEF Validate
  <2>2. Positions' = Positions /\ Edges' = Edges /\ FirstPass' = FirstPass /\ SecondPass' = SecondPass
    BY <2>1, GraphStays
  <2>3. CASE FirstPass # "ok" /\ result' = FirstPass
    <3>1. result' \in {"invalid", "duplicate"}
      BY <2>3, PassesAnswer
    <3> QED BY <2>1, <3>1 DEF GraphInv
  <2>4. CASE SecondPass # "ok" /\ result' = SecondPass
    <3>1. result' \in {"incompatible", "missing"}
      BY <2>4, PassesAnswer
    <3> QED BY <2>1, <3>1 DEF GraphInv
  <2>5. CASE /\ FirstPass = "ok" /\ SecondPass = "ok"
             /\ visits' = StartVisits([p \in Positions |-> p]) /\ result' = Answer(visits')
    <3> DEFINE roots == [p \in Positions |-> p]
    <3>1. Positions = 1 .. Count /\ Count \in Nat
      BY GraphAssumption DEF GraphInv, Positions
    <3>2. roots \in Seq(Positions) /\ ToSet(roots) = Positions
      BY <3>1 DEF ToSet
    <3>3. VisitInv(StartVisits(roots), Positions, Edges, Positions)
      BY <3>2, VisitsStart
    <3> HIDE DEF roots
    <3>4. visits' = StartVisits(roots)
      BY <2>5 DEF roots
    <3>5. VisitInv(visits', Positions', Edges', Positions')
      BY <2>2, <3>3, <3>4
    <3>6. /\ result' = "ok" => AllVisited(visits')
          /\ result' = "cycle" => visits.cycle'
      BY <2>5, AnswerIs
    <3> QED BY <2>1, <2>2, <2>5, <3>5, <3>6 DEF GraphInv
  <2> QED BY <1>1, <2>3, <2>4, <2>5 DEF Validate
<1>2. CASE DetectCycle
  <2>1. result = "visiting" /\ descriptors' = descriptors /\ VisitStep(visits, visits', Edges) /\ result' = Answer(visits')
    BY <1>2 DEF DetectCycle
  <2>2. Positions' = Positions /\ Edges' = Edges /\ FirstPass' = FirstPass /\ SecondPass' = SecondPass
    BY <2>1, GraphStays
  <2>3. VisitInv(visits, Positions, Edges, Positions) /\ EdgesIn(Positions, Edges) /\ FirstPass = "ok" /\ SecondPass = "ok"
    BY <2>1, EdgesAreInGraph DEF GraphInv
  <2>4. VisitInv(visits', Positions, Edges, Positions)
    BY <2>1, <2>3, VisitsGoOn
  <2>5. VisitInv(visits', Positions', Edges', Positions')
    BY <2>2, <2>4
  <2>6. /\ result' = "ok" => AllVisited(visits')
        /\ result' = "cycle" => visits.cycle'
    BY <2>1, AnswerIs
  <2> QED BY <2>1, <2>2, <2>3, <2>5, <2>6 DEF GraphInv
<1>3. CASE UNCHANGED graphVars
  <2>1. descriptors' = descriptors /\ result' = result /\ visits' = visits
    BY <1>3 DEF graphVars
  <2>2. Positions' = Positions /\ Edges' = Edges /\ FirstPass' = FirstPass /\ SecondPass' = SecondPass
    BY <2>1, GraphStays
  <2> QED BY <2>1, <2>2 DEF GraphInv
<1> QED BY <1>1, <1>2, <1>3 DEF GraphNext

(* The place of a plugin among those that were left is when it can start.   *)
LEMMA LeavingIsAnOrder ==
    ASSUME GraphInv, result = "ok"
    PROVE  \E order \in [Positions -> Positions] :
              \A p, q \in Positions : Needs(p, q) => order[q] < order[p]
<1> DEFINE done == visits.done
           order == [p \in Positions |-> CHOOSE i \in DOMAIN done : done[i] = p]
<1>1. done \in Seq(Positions) /\ LeftInOrder(visits, Edges) /\ Positions \subseteq ToSet(done)
      /\ descriptors \in [1 .. Count -> Descriptors] /\ FirstPass = "ok"
  BY VisitsEnd DEF GraphInv
<1>2. Positions = 1 .. Count /\ Count \in Nat
  BY <1>1, GraphAssumption DEF Positions
<1>3. \A p \in Positions : order[p] \in DOMAIN done /\ done[order[p]] = p
  BY <1>1 DEF ToSet
<1>4. \A i, j \in DOMAIN done : done[i] = done[j] => i = j
  BY <1>1 DEF LeftInOrder
<1>5. DOMAIN done = 1 .. Len(done) /\ Len(done) \in Nat
  BY <1>1
<1>6. Len(done) <= Count
  <2>0. done \in [1 .. Len(done) -> 1 .. Count]
    BY <1>1, <1>2
  <2> HIDE DEF done
  <2>1. done \in Injection(1 .. Len(done), 1 .. Count)
    BY <2>0, <1>4, <1>5 DEF Injection, IsInjective
  <2>2. Cardinality(1 .. Len(done)) <= Cardinality(1 .. Count)
    BY <2>1, <1>2, FS_Injection, FS_Interval
  <2>3. Cardinality(1 .. Len(done)) = Len(done) /\ Cardinality(1 .. Count) = Count
    <3>1. 1 \in Int /\ Len(done) \in Int /\ Count \in Int /\ (1 > Len(done) <=> Len(done) = 0) /\ (1 > Count <=> Count = 0)
      BY <1>2, <1>5
    <3>2. Cardinality(1 .. Len(done)) = IF 1 > Len(done) THEN 0 ELSE Len(done) - 1 + 1
      BY <3>1, FS_Interval
    <3>3. Cardinality(1 .. Count) = IF 1 > Count THEN 0 ELSE Count - 1 + 1
      BY <3>1, FS_Interval
    <3> QED BY <3>1, <3>2, <3>3, <1>2, <1>5
  <2> QED BY <2>2, <2>3
<1>7. order \in [Positions -> Positions]
  <2>1. \A i \in DOMAIN done : i \in Positions
    <3> HIDE DEF done, order
    <3> QED BY <1>2, <1>5, <1>6
  <2>2. \A p \in Positions : order[p] \in Positions
    BY <1>3, <2>1
  <2> QED BY <2>2
<1>8. ASSUME NEW p \in Positions, NEW q \in Positions, Needs(p, q) PROVE order[q] < order[p]
  <2>1. q \in ToSet(Edges[p])
    BY <1>1, <1>8, NeedsAreEdges
  <2>2. order[p] \in DOMAIN done /\ done[order[p]] = p /\ order[q] \in DOMAIN done /\ done[order[q]] = q
    BY <1>3
  <2> HIDE DEF order
  <2>3. PICK j \in DOMAIN done : j < order[p] /\ done[j] = q
    BY <1>1, <2>1, <2>2 DEF LeftInOrder
  <2>4. j = order[q]
    BY <1>4, <2>2, <2>3
  <2> QED BY <2>3, <2>4
<1> HIDE DEF order
<1> QED BY <1>7, <1>8

LEMMA LoopsHaveNoOrder ==
    ASSUME descriptors \in [1 .. Count -> Descriptors], FirstPass = "ok", Loop(Positions, Edges),
           NEW order \in [Positions -> Positions], \A p, q \in Positions : Needs(p, q) => order[q] < order[p]
    PROVE  FALSE
<1>1. PICK S \in SUBSET Positions : S # {} /\ \A p \in S : ToSet(Edges[p]) \cap S # {}
  BY DEF Loop
<1> DEFINE P == {order[p] : p \in S}
<1>2. P \in SUBSET Nat /\ P # {}
  BY <1>1, GraphAssumption DEF Positions
<1>3. PICK n \in P : \A m \in P : n <= m
  BY <1>2, LeastNumber
<1>4. PICK p \in S : n = order[p]
  BY <1>3
<1>5. PICK q \in S : q \in ToSet(Edges[p])
  BY <1>1
<1>6. Needs(p, q) /\ p \in Positions /\ q \in Positions
  BY <1>1, <1>5, NeedsAreEdges
<1>7. order[q] < order[p] /\ order[p] <= order[q] /\ order[p] \in Nat /\ order[q] \in Nat
  BY <1>2, <1>3, <1>4, <1>6
<1> QED BY <1>7

LEMMA GraphInvMeans == ASSUME GraphInv PROVE CompositionIsSound
<1>1. AcceptedCanStart
  <2> SUFFICES ASSUME result = "ok"
               PROVE  /\ \A p \in Positions : \A n \in DOMAIN descriptors[p].requires :
                            descriptors[p].requires[n].optional \/ \E q \in Positions : Offers(q, p, descriptors[p].requires[n])
                      /\ \E order \in [Positions -> Positions] :
                            \A p, q \in Positions : Needs(p, q) => order[q] < order[p]
    BY DEF AcceptedCanStart
  <2>1. ASSUME NEW p \in Positions, NEW n \in DOMAIN descriptors[p].requires, ~descriptors[p].requires[n].optional
        PROVE  \E q \in Positions : Offers(q, p, descriptors[p].requires[n])
    <3>1. descriptors \in [1 .. Count -> Descriptors] /\ SecondPass = "ok"
      BY DEF GraphInv
    <3>2. PICK q \in Compatible(p, descriptors[p].requires[n]) : TRUE
      BY <2>1, <3>1, SecondPassed
    <3>3. q \in Positions
      BY <3>2 DEF Compatible, Candidates
    <3> QED BY <3>1, <3>2, <3>3, OffersAreCompatible
  <2> QED BY <2>1, LeavingIsAnOrder
<1>2. CycleIsReal
  BY LoopsHaveNoOrder DEF CycleIsReal, GraphInv, VisitInv
<1>3. ProvidersAreDistinct
  <2> SUFFICES ASSUME result = "ok", NEW p \in Positions, NEW q \in Positions, p # q
               PROVE  /\ descriptors[p].id # descriptors[q].id
                      /\ descriptors[p].scope = descriptors[q].scope =>
                            {s.service : s \in descriptors[p].provides} \cap {s.service : s \in descriptors[q].provides} = {}
    BY DEF ProvidersAreDistinct
  <2>1. descriptors \in [1 .. Count -> Descriptors] /\ FirstPass = "ok"
    BY DEF GraphInv
  <2>2. \A s \in descriptors[p].provides, t \in descriptors[q].provides :
           ~(descriptors[p].scope = descriptors[q].scope /\ s.service = t.service)
    BY <2>1, FirstPassed
  <2>3. descriptors[p].id # descriptors[q].id
    BY <2>1, FirstPassed
  <2> QED BY <2>2, <2>3
<1> QED BY <1>1, <1>2, <1>3 DEF CompositionIsSound

(* Compositions of any number of plugins are accepted exactly when they can *)
(* be started with one provider for each service (PluginGraph::validate).   *)
THEOREM CompositionsAreSound == GraphSpec => []CompositionIsSound
<1>1. GraphInit => GraphInv
  BY GraphStarts
<1>2. GraphInv /\ [GraphNext]_graphVars => GraphInv'
  BY GraphStep
<1>3. GraphInv => CompositionIsSound
  BY GraphInvMeans
<1> QED BY <1>1, <1>2, <1>3, PTL DEF GraphSpec

-----------------------------------------------------------------------------
(* The plan of a task graph.                                                *)

(* The tasks of a graph are told apart.                                     *)
Distinct(g) == \A i, j \in DOMAIN g : g[i].id = g[j].id => i = j

LEMMA LeastOfAll ==
    ASSUME NEW S \in SUBSET Nat, S # {}
    PROVE  Min(S) \in S /\ \A n \in S : Min(S) <= n
BY LeastNumber DEF Min

LEMMA GraphShape ==
    ASSUME NEW g \in Graphs
    PROVE  /\ g \in Seq(ToSet(g)) /\ DOMAIN g = 1..Len(g) /\ Len(g) \in Nat
           /\ NoParent \notin TaskIds(g)
           /\ \A i \in DOMAIN g : /\ g[i].granted \in Nat /\ g[i].id \in TaskIds(g)
                                  /\ g[i].depends \in Seq(ToSet(g[i].depends))
                                  /\ g[i].scope \in Seq(ToSet(g[i].scope))
                                  /\ \A k \in DOMAIN g[i].scope : /\ g[i].scope[k] # <<>>
                                                                  /\ g[i].scope[k] \in Seq(ToSet(g[i].scope[k]))
<1>1. g \in Seq(ToSet(g))
  BY PlanAssumption
<1>2. DOMAIN g = 1..Len(g) /\ Len(g) \in Nat
  BY <1>1
<1>3. NoParent \notin TaskIds(g)
  BY PlanAssumption DEF TaskIds
<1> QED BY <1>1, <1>2, <1>3, PlanAssumption DEF TaskIds

LEMMA NodeIs ==
    ASSUME NEW g, Distinct(g), NEW i \in DOMAIN g
    PROVE  Node(g, g[i].id) = g[i]
<1> DEFINE j == CHOOSE j \in DOMAIN g : g[j].id = g[i].id
<1>1. j \in DOMAIN g /\ g[j].id = g[i].id
  OBVIOUS
<1>2. j = i
  BY <1>1 DEF Distinct
<1> QED BY <1>2 DEF Node

(* There are no more tasks than nodes.                                      *)
LEMMA TasksAreCounted ==
    ASSUME NEW g \in Graphs
    PROVE  /\ IsFiniteSet(TaskIds(g)) /\ Cardinality(TaskIds(g)) <= Len(g)
           /\ Distinct(g) => Cardinality(TaskIds(g)) = Len(g)
<1> DEFINE name == [i \in 1..Len(g) |-> g[i].id]
<1>1. DOMAIN g = 1..Len(g) /\ Len(g) \in Nat
  BY GraphShape
<1>2. name \in Surjection(1..Len(g), TaskIds(g))
  BY <1>1 DEF Surjection, TaskIds
<1>3. IsFiniteSet(1..Len(g)) /\ Cardinality(1..Len(g)) = Len(g)
  <2>1. 1 \in Int /\ Len(g) \in Int /\ (1 > Len(g) <=> Len(g) = 0)
    BY <1>1
  <2>2. IsFiniteSet(1..Len(g)) /\ Cardinality(1..Len(g)) = IF 1 > Len(g) THEN 0 ELSE Len(g) - 1 + 1
    BY <2>1, FS_Interval
  <2> QED BY <2>1, <2>2, <1>1
<1>4. /\ IsFiniteSet(TaskIds(g)) /\ Cardinality(TaskIds(g)) <= Len(g)
      /\ Cardinality(TaskIds(g)) = Len(g) <=> name \in Injection(1..Len(g), TaskIds(g))
  BY <1>2, <1>3, FS_Surjection
<1>5. ASSUME Distinct(g) PROVE name \in Injection(1..Len(g), TaskIds(g))
  <2>1. \A i, j \in 1..Len(g) : name[i] = name[j] => i = j
    BY <1>1, <1>5 DEF Distinct
  <2>2. name \in [1..Len(g) -> TaskIds(g)]
    BY <1>2 DEF Surjection
  <2> HIDE DEF name
  <2> QED BY <2>1, <2>2 DEF Injection, IsInjective
<1> QED BY <1>4, <1>5

-----------------------------------------------------------------------------
(* The walk of the parents: f is where it is after each of the first n.     *)
HoldsParents(f, g, t, n) ==
    f = [k \in 0..n |-> IF k = 0 THEN Node(g, t).parent
                        ELSE IF f[k - 1] \in TaskIds(g) THEN Node(g, f[k - 1]).parent ELSE f[k - 1]]

LEMMA ParentsAreHeld == ASSUME NEW g, NEW t, NEW n \in Nat PROVE \E f : HoldsParents(f, g, t, n)
<1> DEFINE Up(u) == IF u \in TaskIds(g) THEN Node(g, u).parent ELSE u
           Held == {m \in Nat : \E f : HoldsParents(f, g, t, m)}
<1>1. 0 \in Held
  <2> DEFINE f == [k \in 0..0 |-> Node(g, t).parent]
  <2>1. \A k \in 0..0 : k = 0
    OBVIOUS
  <2>2. f = [k \in 0..0 |-> IF k = 0 THEN Node(g, t).parent
                        ELSE IF f[k - 1] \in TaskIds(g) THEN Node(g, f[k - 1]).parent ELSE f[k - 1]]
    BY <2>1
  <2> QED BY <2>2 DEF HoldsParents
<1>2. ASSUME NEW m \in Held PROVE m + 1 \in Held
  <2>1. PICK f : HoldsParents(f, g, t, m)
    OBVIOUS
  <2> DEFINE h == [k \in 0..(m + 1) |-> IF k = m + 1 THEN Up(f[m]) ELSE f[k]]
  <2>2. m \in Nat
    OBVIOUS
  <2> HIDE DEF Up
  <2>3. ASSUME NEW k \in 0..(m + 1)
        PROVE  h[k] = IF k = 0 THEN Node(g, t).parent ELSE Up(h[k - 1])
    <3>1. CASE k = m + 1
      <4>1. k # 0 /\ k - 1 = m /\ m \in 0..(m + 1) /\ m # m + 1
        BY <2>2, <3>1
      <4>2. h[k] = Up(f[m]) /\ h[m] = f[m]
        BY <3>1, <4>1
      <4> QED BY <3>1, <4>1, <4>2
    <3>2. CASE k # m + 1
      <4>1. k \in 0..m /\ (k # 0 => k - 1 \in 0..(m + 1) /\ k - 1 # m + 1)
        BY <2>2, <3>2
      <4>2. h[k] = f[k] /\ (k # 0 => h[k - 1] = f[k - 1])
        BY <3>2, <4>1
      <4>3. f[k] = IF k = 0 THEN Node(g, t).parent ELSE Up(f[k - 1])
        BY <2>1, <4>1 DEF HoldsParents, Up
      <4> QED BY <4>2, <4>3
    <3> QED BY <3>1, <3>2
  <2>4. h = [k \in 0..(m + 1) |-> IF k = 0 THEN Node(g, t).parent ELSE Up(h[k - 1])]
    BY <2>3
  <2> HIDE DEF h
  <2>5. HoldsParents(h, g, t, m + 1)
    BY <2>4 DEF HoldsParents, Up
  <2> QED BY <2>2, <2>5
<1>3. Held = Nat
  <2> HIDE DEF Held
  <2>1. Held \in SUBSET Nat
    BY DEF Held
  <2> QED BY <1>1, <1>2, <2>1, NumbersByStep
<1> QED BY <1>3

LEMMA ParentsStep ==
    ASSUME NEW g, NEW t, NEW n \in Nat
    PROVE  /\ ParentsOf(g, t, n)[0] = Node(g, t).parent
           /\ \A k \in 0..(n - 1) :
                 ParentsOf(g, t, n)[k] \in TaskIds(g) => ParentsOf(g, t, n)[k + 1] = Node(g, ParentsOf(g, t, n)[k]).parent
<1> DEFINE f == ParentsOf(g, t, n)
<1>1. HoldsParents(f, g, t, n)
  <2>1. f = CHOOSE h : HoldsParents(h, g, t, n)
    BY DEF ParentsOf, HoldsParents
  <2> HIDE DEF f
  <2> QED BY <2>1, ParentsAreHeld
<1> HIDE DEF f
<1>2. \A k \in 0..n : f[k] = IF k = 0 THEN Node(g, t).parent
                      ELSE IF f[k - 1] \in TaskIds(g) THEN Node(g, f[k - 1]).parent ELSE f[k - 1]
  BY <1>1 DEF HoldsParents
<1>3. f[0] = Node(g, t).parent
  <2>1. 0 \in 0..n
    OBVIOUS
  <2> QED BY <2>1, <1>2
<1>4. ASSUME NEW k \in 0..(n - 1), f[k] \in TaskIds(g) PROVE f[k + 1] = Node(g, f[k]).parent
  <2>1. k + 1 \in 0..n /\ k + 1 # 0 /\ (k + 1) - 1 = k
    OBVIOUS
  <2> QED BY <1>2, <1>4, <2>1
<1> QED BY <1>3, <1>4 DEF f

(* Tasks whose parents are all among them.                                  *)
ParentLoop(g, S) == S \in SUBSET TaskIds(g) /\ S # {} /\ \A u \in S : Node(g, u).parent \in S

(* The walk does not leave such tasks.                                      *)
LEMMA LoopHoldsWalk ==
    ASSUME NEW g, NEW t, NEW n \in Nat, NEW S, ParentLoop(g, S), NEW i \in 0..n, ParentsOf(g, t, n)[i] \in S
    PROVE  \A k \in i..n : ParentsOf(g, t, n)[k] \in S
<1> DEFINE f == ParentsOf(g, t, n)
           Good == {d \in Nat : i + d <= n => f[i + d] \in S}
<1>1. \A k \in 0..(n - 1) : f[k] \in TaskIds(g) => f[k + 1] = Node(g, f[k]).parent
  BY ParentsStep
<1>2. f[i] \in S /\ i \in Nat /\ i <= n
  OBVIOUS
<1> HIDE DEF f
<1>3. 0 \in Good
  BY <1>2
<1>4. ASSUME NEW d \in Good PROVE d + 1 \in Good
  <2> SUFFICES ASSUME i + (d + 1) <= n PROVE f[i + (d + 1)] \in S
    OBVIOUS
  <2> DEFINE k == i + d
  <2>1. k \in 0..(n - 1) /\ k <= n /\ i + (d + 1) = k + 1
    BY <1>2
  <2>2. f[k] \in S
    BY <2>1
  <2> HIDE DEF k
  <2>3. f[k + 1] = Node(g, f[k]).parent
    BY <1>1, <2>1, <2>2 DEF ParentLoop
  <2> QED BY <2>1, <2>2, <2>3 DEF ParentLoop
<1>5. Good = Nat
  <2> HIDE DEF Good
  <2>1. Good \in SUBSET Nat
    BY DEF Good
  <2> QED BY <1>3, <1>4, <2>1, NumbersByStep
<1>6. ASSUME NEW k \in i..n PROVE f[k] \in S
  <2>1. k - i \in Nat /\ i + (k - i) = k /\ k <= n
    BY <1>2
  <2>2. k - i \in Good
    <3> HIDE DEF Good
    <3> QED BY <1>5, <2>1
  <2> QED BY <2>1, <2>2
<1> QED BY <1>6 DEF f

(* A walk that comes to a task again is in a loop.                          *)
LEMMA WalkRepeats ==
    ASSUME NEW g, NEW t, NEW n \in Nat, NEW i \in 0..n, NEW j \in 0..n, i < j,
           ParentsOf(g, t, n)[i] = ParentsOf(g, t, n)[j],
           \A k \in i..(j - 1) : ParentsOf(g, t, n)[k] \in TaskIds(g)
    PROVE  \E S : ParentLoop(g, S) /\ ParentsOf(g, t, n)[i] \in S
<1> DEFINE f == ParentsOf(g, t, n)
           S == {f[k] : k \in i..(j - 1)}
<1>1. \A k \in 0..(n - 1) : f[k] \in TaskIds(g) => f[k + 1] = Node(g, f[k]).parent
  BY ParentsStep
<1>2. f[i] = f[j] /\ \A k \in i..(j - 1) : f[k] \in TaskIds(g)
  OBVIOUS
<1> HIDE DEF f
<1>3. i \in i..(j - 1)
  OBVIOUS
<1>4. ASSUME NEW k \in i..(j - 1) PROVE Node(g, f[k]).parent \in S
  <2>1. k \in 0..(n - 1) /\ (k + 1 \in i..(j - 1) \/ k + 1 = j)
    OBVIOUS
  <2>2. f[k + 1] = Node(g, f[k]).parent
    BY <1>1, <1>2, <2>1
  <2> QED BY <1>2, <1>3, <2>1, <2>2
<1>5. ParentLoop(g, S)
  BY <1>2, <1>3, <1>4 DEF ParentLoop
<1> QED BY <1>3, <1>5 DEF f

LEMMA ParentLoopIsCycle == ASSUME NEW g, NEW S, ParentLoop(g, S) PROVE Cyclic(g)
<1>1. OnCycle(S, [t \in S |-> {Node(g, t).parent}])
  BY DEF OnCycle, ParentLoop
<1> QED BY <1>1 DEF Cyclic, ParentLoop
(* The depth of a task is where its walk ends, and a walk that is cut off   *)
(* is in a loop: it has passed more tasks than there are.                   *)
LEMMA DepthIs ==
    ASSUME NEW g \in Graphs, NEW t
    PROVE  LET d == DepthFromParents(g, t)
               up == ParentsOf(g, t, Len(g) + 1)
           IN  \/ d = -1 /\ \E S : ParentLoop(g, S)
               \/ /\ d \in 0..(Len(g) + 1) /\ up[d] \notin TaskIds(g)
                  /\ \A k \in 0..(d - 1) : up[k] \in TaskIds(g)
<1> DEFINE n == Len(g) + 1
           up == ParentsOf(g, t, n)
           d == DepthFromParents(g, t)
           ends == {k \in 0..n : up[k] = NoParent \/ (k < n /\ up[k] \notin TaskIds(g))}
<1>1. Len(g) \in Nat /\ NoParent \notin TaskIds(g)
  BY GraphShape
<1>2. d = IF ends = {} THEN -1 ELSE Min(ends)
  BY DEF DepthFromParents, DepthWithin
<1> HIDE DEF up, d
<1>3. CASE ends = {}
  <2>1. \A k \in 0..Len(g) : up[k] \in TaskIds(g)
    BY <1>1, <1>3
  <2> DEFINE f == [k \in 0..Len(g) |-> up[k]]
  <2>2. f \in [0..Len(g) -> TaskIds(g)]
    BY <2>1
  <2>3. IsFiniteSet(0..Len(g)) /\ Cardinality(0..Len(g)) = Len(g) + 1
    <3>1. 0 \in Int /\ Len(g) \in Int /\ ~(0 > Len(g))
      BY <1>1
    <3>2. IsFiniteSet(0..Len(g)) /\ Cardinality(0..Len(g)) = IF 0 > Len(g) THEN 0 ELSE Len(g) - 0 + 1
      BY <3>1, FS_Interval
    <3> QED BY <3>1, <3>2, <1>1
  <2>4. IsFiniteSet(TaskIds(g)) /\ Cardinality(TaskIds(g)) < Cardinality(0..Len(g))
    <3>1. IsFiniteSet(TaskIds(g)) /\ Cardinality(TaskIds(g)) <= Len(g) /\ Cardinality(TaskIds(g)) \in Nat
      BY TasksAreCounted, FS_CardinalityType
    <3> QED BY <3>1, <2>3, <1>1
  <2>5. PICK i \in 0..Len(g), j \in 0..Len(g) : i # j /\ f[i] = f[j]
    <3> HIDE DEF f
    <3> QED BY <2>2, <2>3, <2>4, FS_PigeonHole
  <2>6. PICK a \in 0..Len(g), b \in 0..Len(g) : a < b /\ up[a] = up[b]
    <3>1. i < j \/ j < i
      BY <1>1, <2>5
    <3>2. up[i] = up[j]
      BY <2>5
    <3> QED BY <3>1, <3>2
  <2>7. n \in Nat /\ a \in 0..n /\ b \in 0..n /\ \A k \in a..(b - 1) : up[k] \in TaskIds(g)
    BY <1>1, <2>1, <2>6
  <2>8. \E S : ParentLoop(g, S)
    <3> HIDE DEF n
    <3> QED BY <2>6, <2>7, WalkRepeats DEF up
  <2> QED BY <1>2, <1>3, <2>8 DEF up, d
<1>4. CASE ends # {}
  <2>1. ends \in SUBSET Nat
    BY <1>1
  <2> HIDE DEF ends
  <2>2. d \in ends /\ \A k \in ends : d <= k
    BY <1>2, <1>4, <2>1, LeastOfAll
  <2>3. d \in 0..n /\ up[d] \notin TaskIds(g)
    BY <1>1, <2>2 DEF ends
  <2>4. ASSUME NEW k \in 0..(d - 1) PROVE up[k] \in TaskIds(g)
    <3>1. k \in 0..n /\ k < n /\ ~(d <= k)
      BY <1>1, <2>3
    <3> QED BY <2>2, <3>1 DEF ends
  <2> QED BY <2>3, <2>4 DEF up, d
<1> QED BY <1>3, <1>4

(* A task with a depth is in no loop of parents.                            *)
LEMMA DeepIsNoLoop ==
    ASSUME NEW g \in Graphs, NEW t, DepthFromParents(g, t) # -1, NEW S, ParentLoop(g, S), t \in S
    PROVE  FALSE
<1> DEFINE n == Len(g) + 1
           d == DepthFromParents(g, t)
<1>1. d \in 0..n /\ ParentsOf(g, t, n)[d] \notin TaskIds(g)
  BY DepthIs
<1>2. n \in Nat /\ 0 \in 0..n
  BY GraphShape
<1> HIDE DEF n, d
<1>3. ParentsOf(g, t, n)[0] \in S
  BY <1>2, ParentsStep DEF ParentLoop
<1>4. \A k \in 0..n : ParentsOf(g, t, n)[k] \in S
  BY <1>2, <1>3, LoopHoldsWalk
<1> QED BY <1>1, <1>4 DEF ParentLoop

(* The ancestors of a task are those its walk passes, ...                   *)
LEMMA TasksAboveAre ==
    ASSUME NEW g \in Graphs, NEW t, DepthFromParents(g, t) # -1
    PROVE  TasksAbove(g, t) = {ParentsOf(g, t, Len(g) + 1)[k] : k \in 0..(DepthFromParents(g, t) - 1)}
<1> DEFINE n == Len(g) + 1
           d == DepthFromParents(g, t)
           up == ParentsOf(g, t, n)
           A == {up[k] : k \in 0..(d - 1)}
           shut(S) == \A u \in S \cup {t} : Node(g, u).parent \in TaskIds(g) => Node(g, u).parent \in S
<1>1. d \in 0..n /\ up[d] \notin TaskIds(g) /\ \A k \in 0..(d - 1) : up[k] \in TaskIds(g)
  BY DepthIs
<1>2. n \in Nat
  BY GraphShape
<1>3. up[0] = Node(g, t).parent /\ \A k \in 0..(n - 1) : up[k] \in TaskIds(g) => up[k + 1] = Node(g, up[k]).parent
  BY <1>2, ParentsStep
<1> HIDE DEF n, d, up
<1>4. \A k \in 0..(d - 1) : up[k + 1] = Node(g, up[k]).parent
  BY <1>1, <1>2, <1>3
<1>5. shut(A)
  <2> SUFFICES ASSUME NEW u \in A \cup {t}, Node(g, u).parent \in TaskIds(g)
               PROVE  Node(g, u).parent \in A
    OBVIOUS
  <2>1. CASE u = t
    <3>1. d # 0
      BY <1>1, <1>3, <2>1
    <3>2. 0 \in 0..(d - 1)
      BY <1>1, <3>1
    <3> QED BY <1>3, <2>1, <3>2
  <2>2. CASE u \in A
    <3>1. PICK k \in 0..(d - 1) : u = up[k]
      BY <2>2
    <3>2. up[k + 1] = Node(g, u).parent
      BY <1>4, <3>1
    <3>3. k + 1 # d
      BY <1>1, <3>2
    <3>4. k + 1 \in 0..(d - 1)
      BY <1>1, <3>3
    <3> QED BY <3>2, <3>4
  <2> QED BY <2>1, <2>2
<1>6. A \in SUBSET TaskIds(g)
  BY <1>1
<1>7. ASSUME NEW S \in SUBSET TaskIds(g), shut(S) PROVE A \subseteq S
  <2> DEFINE Good == {k \in Nat : k < d => up[k] \in S}
  <2>1. 0 \in Good
    <3> SUFFICES ASSUME 0 < d PROVE up[0] \in S
      OBVIOUS
    <3>1. 0 \in 0..(d - 1)
      BY <1>1
    <3> QED BY <1>1, <1>3, <1>7, <3>1
  <2>2. ASSUME NEW k \in Good PROVE k + 1 \in Good
    <3> SUFFICES ASSUME k + 1 < d PROVE up[k + 1] \in S
      OBVIOUS
    <3>1. k \in 0..(d - 1) /\ k + 1 \in 0..(d - 1) /\ k < d
      BY <1>1
    <3>2. up[k] \in S /\ up[k + 1] = Node(g, up[k]).parent /\ up[k + 1] \in TaskIds(g)
      BY <1>1, <1>4, <3>1
    <3> QED BY <3>2, <1>7
  <2>3. Good = Nat
    <3> HIDE DEF Good
    <3>1. Good \in SUBSET Nat
      BY DEF Good
    <3> QED BY <2>1, <2>2, <3>1, NumbersByStep
  <2>4. ASSUME NEW k \in 0..(d - 1) PROVE up[k] \in S
    <3>1. k \in Nat /\ k < d
      BY <1>1
    <3>2. k \in Good
      <4> HIDE DEF Good
      <4> QED BY <2>3, <3>1
    <3> QED BY <3>1, <3>2
  <2> QED BY <2>4
<1>8. TasksAbove(g, t) = {u \in TaskIds(g) : \A S \in SUBSET TaskIds(g) : shut(S) => u \in S}
  BY DEF TasksAbove
<1> HIDE DEF shut, A
<1>9. TasksAbove(g, t) = A
  BY <1>5, <1>6, <1>7, <1>8
<1> QED BY <1>9 DEF A, up, d, n

(* ... each once, so that the depth counts them.                            *)
LEMMA DepthCounts ==
    ASSUME NEW g \in Graphs, NEW t, DepthFromParents(g, t) # -1
    PROVE  DepthFromParents(g, t) = Cardinality(TasksAbove(g, t))
<1> DEFINE n == Len(g) + 1
           d == DepthFromParents(g, t)
           up == ParentsOf(g, t, n)
           A == TasksAbove(g, t)
           f == [k \in 0..(d - 1) |-> up[k]]
<1>1. d \in 0..n /\ up[d] \notin TaskIds(g) /\ \A k \in 0..(d - 1) : up[k] \in TaskIds(g)
  BY DepthIs
<1>2. n \in Nat
  BY GraphShape
<1>3. A = {up[k] : k \in 0..(d - 1)}
  BY TasksAboveAre
<1>4. ASSUME NEW i \in 0..(d - 1), NEW j \in 0..(d - 1), i < j, up[i] = up[j] PROVE FALSE
  <2> HIDE DEF n, d
  <2>1. i \in 0..n /\ j \in 0..n /\ d \in i..n /\ \A k \in i..(j - 1) : k \in 0..(d - 1)
    BY <1>1, <1>2, <1>4
  <2>2. PICK S : ParentLoop(g, S) /\ up[i] \in S
    BY <1>1, <1>2, <1>4, <2>1, WalkRepeats
  <2>3. up[d] \in S
    BY <1>2, <2>1, <2>2, LoopHoldsWalk
  <2> QED BY <1>1, <2>2, <2>3 DEF ParentLoop
<1> HIDE DEF n, d, up, A
<1>5. \A i, j \in 0..(d - 1) : up[i] = up[j] => i = j
  <2> SUFFICES ASSUME NEW i \in 0..(d - 1), NEW j \in 0..(d - 1), up[i] = up[j], i # j PROVE FALSE
    OBVIOUS
  <2>1. i < j \/ j < i
    BY <1>1
  <2> QED BY <2>1, <1>4
<1>6. f \in Surjection(0..(d - 1), A)
  BY <1>3 DEF Surjection
<1>7. f \in Injection(0..(d - 1), A)
  <2>1. f \in [0..(d - 1) -> A] /\ \A i, j \in 0..(d - 1) : f[i] = f[j] => i = j
    BY <1>5, <1>6 DEF Surjection
  <2> HIDE DEF f
  <2> QED BY <2>1 DEF Injection, IsInjective
<1>8. IsFiniteSet(0..(d - 1)) /\ Cardinality(0..(d - 1)) = d
  <2>1. 0 \in Int /\ d - 1 \in Int /\ (0 > d - 1 <=> d = 0)
    BY <1>1
  <2>2. IsFiniteSet(0..(d - 1)) /\ Cardinality(0..(d - 1)) = IF 0 > d - 1 THEN 0 ELSE (d - 1) - 0 + 1
    BY <2>1, FS_Interval
  <2> QED BY <2>1, <2>2, <1>1
<1>9. Cardinality(A) = d
  <2> HIDE DEF f
  <2> QED BY <1>6, <1>7, <1>8, FS_Surjection
<1> QED BY <1>9 DEF A, d

-----------------------------------------------------------------------------
(* What compile has passed, and what it reports.                            *)

LEMMA FirstErrorIs ==
    ASSUME NEW errors, DOMAIN errors \in SUBSET Nat
    PROVE  /\ FirstError(errors) = "none" => \A i \in DOMAIN errors : errors[i] = "none"
           /\ FirstError(errors) # "none" => \E i \in DOMAIN errors : errors[i] = FirstError(errors)
<1> DEFINE bad == {i \in DOMAIN errors : errors[i] # "none"}
           first == CHOOSE i \in bad : \A j \in bad : i <= j
<1>1. FirstError(errors) = IF bad = {} THEN "none" ELSE errors[first]
  BY DEF FirstError
<1>2. CASE bad = {}
  BY <1>1, <1>2
<1>3. CASE bad # {}
  <2>1. bad \in SUBSET Nat
    OBVIOUS
  <2>2. \E i \in bad : \A j \in bad : i <= j
    <3> HIDE DEF bad
    <3> QED BY <1>3, <2>1, LeastNumber
  <2>3. first \in bad
    <3> HIDE DEF bad
    <3> QED BY <2>2
  <2> HIDE DEF first
  <2> QED BY <1>1, <1>3, <2>3
<1> QED BY <1>2, <1>3

LEMMA NodeIsThere ==
    ASSUME NEW g, NEW t \in TaskIds(g)
    PROVE  \E i \in DOMAIN g : Node(g, t) = g[i] /\ g[i].id = t
<1> DEFINE i == CHOOSE i \in DOMAIN g : g[i].id = t
<1>1. i \in DOMAIN g /\ g[i].id = t
  BY DEF TaskIds
<1> QED BY <1>1 DEF Node

LEMMA NoErrorMeans ==
    ASSUME NEW g \in Graphs, CompileError(g) = "none"
    PROVE  /\ Distinct(g) /\ ScopeError(g) = "none"
           /\ \A t \in TaskIds(g) : DepthError(g, t) = "none" /\ DependsError(g, t) = "none"
<1> DEFINE nodes == [i \in DOMAIN g |-> NodeError(g, i)]
           depths == [i \in DOMAIN g |-> DepthError(g, g[i].id)]
           depends == [i \in DOMAIN g |-> DependsError(g, g[i].id)]
           checks == <<FirstError(depths), ScopeError(g), FirstError(depends)>>
<1>1. FirstError(nodes) = "none" /\ FirstError(checks) = "none"
  BY DEF CompileError
<1>2. DOMAIN g = 1..Len(g) /\ Len(g) \in Nat
  BY GraphShape
<1>3. DOMAIN nodes \in SUBSET Nat /\ DOMAIN depths \in SUBSET Nat /\ DOMAIN depends \in SUBSET Nat
  BY <1>2
<1>4. \A i \in DOMAIN g : NodeError(g, i) = "none"
  <2>1. \A i \in DOMAIN nodes : nodes[i] = "none"
    <3> HIDE DEF nodes
    <3> QED BY <1>1, <1>3, FirstErrorIs
  <2> QED BY <2>1
<1>5. FirstError(depths) = "none" /\ ScopeError(g) = "none" /\ FirstError(depends) = "none"
  <2>1. DOMAIN checks = {1, 2, 3} /\ checks[1] = FirstError(depths) /\ checks[2] = ScopeError(g)
        /\ checks[3] = FirstError(depends)
    OBVIOUS
  <2> HIDE DEF checks
  <2>2. \A i \in DOMAIN checks : checks[i] = "none"
    <3>1. DOMAIN checks \in SUBSET Nat
      BY <2>1
    <3> QED BY <1>1, <3>1, FirstErrorIs
  <2> QED BY <2>1, <2>2
<1>6. \A i \in DOMAIN g : DepthError(g, g[i].id) = "none"
  <2>1. \A i \in DOMAIN depths : depths[i] = "none"
    <3> HIDE DEF depths
    <3> QED BY <1>5, <1>3, FirstErrorIs
  <2> QED BY <2>1
<1>7. \A i \in DOMAIN g : DependsError(g, g[i].id) = "none"
  <2>1. \A i \in DOMAIN depends : depends[i] = "none"
    <3> HIDE DEF depends
    <3> QED BY <1>5, <1>3, FirstErrorIs
  <2> QED BY <2>1
<1>8. Distinct(g)
  <2> SUFFICES ASSUME NEW i \in DOMAIN g, NEW j \in DOMAIN g, g[i].id = g[j].id, i < j PROVE FALSE
    BY <1>2 DEF Distinct
  <2>1. i \in 1..(j - 1)
    BY <1>2
  <2>2. NodeError(g, j) # "none"
    BY <2>1 DEF NodeError
  <2> QED BY <2>2, <1>4
<1> QED BY <1>5, <1>6, <1>7, <1>8 DEF TaskIds

(* A dependency error of a task, and what there is when there is none.      *)
LEMMA DependsErrorIs ==
    ASSUME NEW g \in Graphs, NEW t \in TaskIds(g)
    PROVE  /\ DependsError(g, t) = "cycle" => t \in ToSet(Node(g, t).depends)
           /\ DependsError(g, t) = "none" => Node(g, t).depends \in Seq(TaskIds(g))
<1> DEFINE d == Node(g, t).depends
           bad == {i \in DOMAIN d : \/ d[i] = t \/ d[i] \notin TaskIds(g) \/ \E j \in 1..(i - 1) : d[j] = d[i]}
           first == CHOOSE i \in bad : \A j \in bad : i <= j
<1>1. d \in Seq(ToSet(d))
  BY NodeIsThere, GraphShape
<1>2. DependsError(g, t) = IF bad = {} THEN "none"
                           ELSE IF d[first] = t THEN "cycle"
                           ELSE IF d[first] \notin TaskIds(g) THEN "unknown" ELSE "duplicate"
  BY DEF DependsError
<1>3. bad \in SUBSET Nat /\ bad \subseteq DOMAIN d
  BY <1>1
<1> HIDE DEF d
<1>4. CASE bad = {}
  <2>1. DependsError(g, t) = "none"
    <3> HIDE DEF first, bad
    <3> QED BY <1>2, <1>4
  <2>2. \A i \in DOMAIN d : d[i] \in TaskIds(g)
    BY <1>4
  <2>3. d \in Seq(TaskIds(g))
    BY <1>1, <2>2
  <2> QED BY <2>1, <2>3 DEF d
<1>5. CASE bad # {}
  <2>1. first \in bad
    <3> HIDE DEF bad
    <3> QED BY <1>3, <1>5, LeastNumber
  <2> HIDE DEF first, bad
  <2>2. DependsError(g, t) # "none"
    BY <1>2, <1>5
  <2>3. ASSUME DependsError(g, t) = "cycle" PROVE t \in ToSet(d)
    <3>1. d[first] = t
      BY <1>2, <1>5, <2>3
    <3> QED BY <3>1, <2>1, <1>3, ElementIsAt
  <2> QED BY <2>2, <2>3 DEF d
<1> QED BY <1>4, <1>5

LEMMA LoopIsCycle ==
    ASSUME NEW g, Loop(TaskIds(g), Depends(g))
    PROVE  Cyclic(g)
<1>1. PICK S \in SUBSET TaskIds(g) : S # {} /\ \A v \in S : ToSet(Depends(g)[v]) \cap S # {}
  BY DEF Loop
<1>2. OnCycle(S, [t \in S |-> ToSet(Node(g, t).depends)])
  BY <1>1 DEF OnCycle, Depends
<1> QED BY <1>2 DEF Cyclic

(* The checks report a cycle only where there is one.                       *)
LEMMA CycleErrorMeans ==
    ASSUME NEW g \in Graphs, CompileError(g) = "cycle"
    PROVE  Cyclic(g)
<1> DEFINE nodes == [i \in DOMAIN g |-> NodeError(g, i)]
           depths == [i \in DOMAIN g |-> DepthError(g, g[i].id)]
           depends == [i \in DOMAIN g |-> DependsError(g, g[i].id)]
           checks == <<FirstError(depths), ScopeError(g), FirstError(depends)>>
<1>1. DOMAIN g = 1..Len(g) /\ Len(g) \in Nat
  BY GraphShape
<1>2. DOMAIN nodes \in SUBSET Nat /\ DOMAIN depths \in SUBSET Nat /\ DOMAIN depends \in SUBSET Nat
  BY <1>1
<1>3. \A i : NodeError(g, i) # "cycle"
  BY DEF NodeError
<1>4. FirstError(nodes) # "cycle"
  <2> SUFFICES ASSUME FirstError(nodes) = "cycle" PROVE FALSE
    OBVIOUS
  <2>1. \E i \in DOMAIN nodes : nodes[i] = "cycle"
    <3> HIDE DEF nodes
    <3> QED BY <1>2, FirstErrorIs
  <2> QED BY <2>1, <1>3
<1>5. FirstError(checks) = "cycle"
  BY <1>4 DEF CompileError
<1>6. FirstError(depths) = "cycle" \/ FirstError(depends) = "cycle"
  <2>1. DOMAIN checks = {1, 2, 3} /\ checks[1] = FirstError(depths) /\ checks[2] = ScopeError(g)
        /\ checks[3] = FirstError(depends)
    OBVIOUS
  <2> HIDE DEF checks, depths, depends
  <2>2. \E i \in DOMAIN checks : checks[i] = "cycle"
    <3>1. DOMAIN checks \in SUBSET Nat
      BY <2>1
    <3> QED BY <1>5, <3>1, FirstErrorIs
  <2>3. ScopeError(g) # "cycle"
    BY DEF ScopeError
  <2> QED BY <2>1, <2>2, <2>3
<1>7. CASE FirstError(depths) = "cycle"
  <2>1. \E i \in DOMAIN depths : depths[i] = "cycle"
    <3> HIDE DEF depths
    <3> QED BY <1>2, <1>7, FirstErrorIs
  <2>2. PICK t : DepthError(g, t) = "cycle"
    BY <2>1
  <2>3. DepthFromParents(g, t) = -1
    BY <2>2 DEF DepthError
  <2>4. \E S : ParentLoop(g, S)
    <3>1. ~(-1 \in 0..(Len(g) + 1))
      BY <1>1
    <3> QED BY <2>3, <3>1, DepthIs
  <2> QED BY <2>4, ParentLoopIsCycle
<1>8. CASE FirstError(depends) = "cycle"
  <2>1. \E i \in DOMAIN depends : depends[i] = "cycle"
    <3> HIDE DEF depends
    <3> QED BY <1>2, <1>8, FirstErrorIs
  <2>2. PICK t \in TaskIds(g) : DependsError(g, t) = "cycle"
    BY <2>1 DEF TaskIds
  <2>3. t \in ToSet(Node(g, t).depends)
    BY <2>2, DependsErrorIs
  <2>4. OnCycle({t}, [u \in {t} |-> ToSet(Node(g, u).depends)])
    BY <2>3 DEF OnCycle
  <2> QED BY <2>4 DEF Cyclic
<1> QED BY <1>6, <1>7, <1>8

-----------------------------------------------------------------------------
(* Before the sort the graph has passed the checks; the sort keeps the      *)
(* invariant of its walk.                                                   *)
PlanIInv ==
    /\ graph \in Graphs
    /\ plan.state \in {"sorting", "compiled"} =>
          /\ CompileError(graph) = "none"
          /\ VisitInv(search, TaskIds(graph), Depends(graph), TaskIds(graph))
    /\ plan.state = "compiled" =>
          /\ AllVisited(search)
          /\ plan = [state |-> "compiled", order |-> search.done,
                     depth |-> [t \in TaskIds(graph) |-> DepthFromParents(graph, t)]]
    /\ plan.state = "refused" /\ plan.why = "cycle" => Cyclic(graph)

LEMMA PlanStarts == ASSUME PlanInit PROVE PlanIInv
BY DEF PlanInit, PlanIInv, Pending

LEMMA SortedIs ==
    ASSUME NEW w
    PROVE  /\ Sorted(w).state \in {"refused", "sorting", "compiled"}
           /\ Sorted(w).state = "compiled" =>
                 /\ AllVisited(w)
                 /\ Sorted(w) = [state |-> "compiled", order |-> w.done,
                                 depth |-> [t \in TaskIds(graph) |-> DepthFromParents(graph, t)]]
           /\ Sorted(w).state = "refused" => w.cycle
BY DEF Sorted, Refused, AllVisited

LEMMA GraphEdges ==
    ASSUME NEW g \in Graphs, CompileError(g) = "none"
    PROVE  EdgesIn(TaskIds(g), Depends(g))
<1>1. \A t \in TaskIds(g) : Node(g, t).depends \in Seq(TaskIds(g))
  BY NoErrorMeans, DependsErrorIs
<1> QED BY <1>1 DEF EdgesIn, Depends

(* What a walk of the sort leaves behind, at each of its steps.             *)
LEMMA SortGoesOn ==
    ASSUME graph \in Graphs, CompileError(graph) = "none", graph' = graph,
           VisitInv(search', TaskIds(graph), Depends(graph), TaskIds(graph)), plan' = Sorted(search')
    PROVE  PlanIInv'
<1>1. VisitInv(search', TaskIds(graph'), Depends(graph'), TaskIds(graph')) /\ CompileError(graph') = "none"
      /\ graph' \in Graphs
  OBVIOUS
<1>2. plan'.state = "compiled" =>
          /\ AllVisited(search')
          /\ plan' = [state |-> "compiled", order |-> search'.done,
                      depth |-> [t \in TaskIds(graph') |-> DepthFromParents(graph', t)]]
  BY SortedIs
<1>3. ASSUME plan'.state = "refused" PROVE Cyclic(graph')
  <2>1. search'.cycle
    BY <1>3, SortedIs
  <2>2. Loop(TaskIds(graph), Depends(graph))
    BY <2>1 DEF VisitInv
  <2> QED BY <2>2, LoopIsCycle
<1> QED BY <1>1, <1>2, <1>3 DEF PlanIInv

LEMMA PlanStep == ASSUME PlanIInv, [PlanNext]_planVars PROVE PlanIInv'
<1>1. CASE Compile
  <2>1. graph' = graph /\ graph \in Graphs
    BY <1>1 DEF Compile, PlanIInv
  <2>2. CASE CompileError(graph) # "none" /\ plan' = Refused(CompileError(graph))
    <3>1. plan'.state = "refused" /\ plan'.why = CompileError(graph)
      BY <2>2 DEF Refused
    <3> QED BY <2>1, <3>1, CycleErrorMeans DEF PlanIInv
  <2>3. CASE /\ CompileError(graph) = "none"
             /\ search' = StartVisits([i \in DOMAIN graph |-> graph[i].id])
             /\ plan' = Sorted(search')
    <3> DEFINE roots == [i \in DOMAIN graph |-> graph[i].id]
    <3>1. DOMAIN graph = 1..Len(graph) /\ Len(graph) \in Nat
      BY <2>1, GraphShape
    <3>2. roots \in Seq(TaskIds(graph)) /\ ToSet(roots) = TaskIds(graph)
      BY <3>1 DEF ToSet, TaskIds
    <3> HIDE DEF roots
    <3>3. VisitInv(StartVisits(roots), TaskIds(graph), Depends(graph), ToSet(roots))
      BY <3>2, VisitsStart
    <3>4. VisitInv(search', TaskIds(graph), Depends(graph), TaskIds(graph))
      BY <2>3, <3>2, <3>3 DEF roots
    <3> QED BY <2>1, <2>3, <3>4, SortGoesOn
  <2> QED BY <1>1, <2>2, <2>3 DEF Compile
<1>2. CASE TopologicalSort
  <2>1. /\ graph' = graph /\ plan.state = "sorting" /\ plan' = Sorted(search')
        /\ VisitStep(search, search', Depends(graph))
    BY <1>2 DEF TopologicalSort
  <2>2. /\ graph \in Graphs /\ CompileError(graph) = "none"
        /\ VisitInv(search, TaskIds(graph), Depends(graph), TaskIds(graph))
    BY <2>1 DEF PlanIInv
  <2>3. VisitInv(search', TaskIds(graph), Depends(graph), TaskIds(graph))
    BY <2>1, <2>2, GraphEdges, VisitsGoOn
  <2> QED BY <2>1, <2>2, <2>3, SortGoesOn
<1>3. CASE UNCHANGED planVars
  <2>1. graph' = graph /\ plan' = plan /\ search' = search
    BY <1>3 DEF planVars
  <2> QED BY <2>1 DEF PlanIInv
<1> QED BY <1>1, <1>2, <1>3 DEF PlanNext

-----------------------------------------------------------------------------
(* A list in which something stands at one place only has as many elements  *)
(* as it has places.                                                        *)
LEMMA ListsAreCounted ==
    ASSUME NEW S, NEW s \in Seq(S), \A i, j \in DOMAIN s : s[i] = s[j] => i = j, NEW T, ToSet(s) = T
    PROVE  Cardinality(T) = Len(s)
<1>1. DOMAIN s = 1..Len(s) /\ Len(s) \in Nat /\ s \in [1..Len(s) -> ToSet(s)]
  BY DEF ToSet
<1>2. s \in Surjection(1..Len(s), T) /\ s \in Injection(1..Len(s), T)
  BY <1>1 DEF Surjection, Injection, IsInjective, ToSet
<1>3. IsFiniteSet(1..Len(s)) /\ Cardinality(1..Len(s)) = Len(s)
  <2>1. 1 \in Int /\ Len(s) \in Int /\ (1 > Len(s) <=> Len(s) = 0)
    BY <1>1
  <2>2. IsFiniteSet(1..Len(s)) /\ Cardinality(1..Len(s)) = IF 1 > Len(s) THEN 0 ELSE Len(s) - 1 + 1
    BY <2>1, FS_Interval
  <2> QED BY <2>1, <2>2, <1>1
<1> QED BY <1>2, <1>3, FS_Surjection

(* The order of a compiled plan.                                            *)
LEMMA CompiledInOrder ==
    ASSUME PlanIInv, plan.state = "compiled"
    PROVE  /\ plan.order \in Seq(TaskIds(graph)) /\ ToSet(plan.order) = TaskIds(graph)
           /\ LeftInOrder(search, Depends(graph)) /\ search.done = plan.order
           /\ graph \in Graphs /\ CompileError(graph) = "none"
<1>1. /\ VisitInv(search, TaskIds(graph), Depends(graph), TaskIds(graph)) /\ AllVisited(search)
      /\ plan.order = search.done /\ graph \in Graphs /\ CompileError(graph) = "none"
  BY DEF PlanIInv
<1>2. /\ search.done \in Seq(TaskIds(graph)) /\ LeftInOrder(search, Depends(graph))
      /\ TaskIds(graph) \subseteq ToSet(search.done)
  BY <1>1, VisitsEnd
<1> QED BY <1>1, <1>2, ElementsAreTyped

LEMMA SoundOrder == ASSUME PlanIInv PROVE DependenciesFirst
<1> SUFFICES ASSUME plan.state = "compiled"
             PROVE  /\ ToSet(plan.order) = TaskIds(graph) /\ Len(plan.order) = Len(graph)
                    /\ \A i \in DOMAIN plan.order :
                           ToSet(Node(graph, plan.order[i]).depends) \subseteq ToSet(SubSeq(plan.order, 1, i - 1))
  BY DEF DependenciesFirst
<1> DEFINE order == plan.order
<1>1. /\ order \in Seq(TaskIds(graph)) /\ ToSet(order) = TaskIds(graph)
      /\ LeftInOrder(search, Depends(graph)) /\ search.done = order
      /\ graph \in Graphs /\ CompileError(graph) = "none"
  BY CompiledInOrder
<1>2. \A i, j \in DOMAIN order : order[i] = order[j] => i = j
  BY <1>1 DEF LeftInOrder
<1>3. DOMAIN order = 1..Len(order) /\ Len(order) \in Nat
  BY <1>1
<1> HIDE DEF order
<1>4. Len(order) = Len(graph)
  BY <1>1, <1>2, ListsAreCounted, TasksAreCounted, NoErrorMeans
<1>5. ASSUME NEW i \in DOMAIN order, NEW c \in ToSet(Node(graph, order[i]).depends)
      PROVE  c \in ToSet(SubSeq(order, 1, i - 1))
  <2>1. order[i] \in TaskIds(graph)
    BY <1>1
  <2>2. c \in ToSet(Depends(graph)[order[i]])
    BY <2>1 DEF Depends
  <2>3. PICK j \in DOMAIN order : j < i /\ order[j] = c
    BY <1>1, <2>2 DEF LeftInOrder
  <2>4. j \in 1..(i - 1) /\ i - 1 \in 0..Len(order)
    BY <1>3, <2>3
  <2>5. DOMAIN SubSeq(order, 1, i - 1) = 1..(i - 1) /\ SubSeq(order, 1, i - 1)[j] = order[j]
    BY <1>1, <1>3, <2>4
  <2> QED BY <2>3, <2>4, <2>5 DEF ToSet
<1> QED BY <1>1, <1>4, <1>5 DEF order

LEMMA SoundRefusals == ASSUME PlanIInv PROVE CyclesRefused
<1>1. plan.state = "refused" /\ plan.why = "cycle" => Cyclic(graph)
  BY DEF PlanIInv
<1>2. ASSUME plan.state = "compiled", Cyclic(graph) PROVE FALSE
  <2>1. /\ plan.order \in Seq(TaskIds(graph)) /\ ToSet(plan.order) = TaskIds(graph)
        /\ LeftInOrder(search, Depends(graph)) /\ search.done = plan.order
        /\ graph \in Graphs /\ CompileError(graph) = "none"
    BY <1>2, CompiledInOrder
  <2>2. PICK S \in SUBSET TaskIds(graph) :
            \/ OnCycle(S, [t \in S |-> ToSet(Node(graph, t).depends)])
            \/ OnCycle(S, [t \in S |-> {Node(graph, t).parent}])
    BY <1>2 DEF Cyclic
  <2>3. CASE OnCycle(S, [t \in S |-> ToSet(Node(graph, t).depends)])
    <3> DEFINE order == plan.order
               P == {i \in DOMAIN order : order[i] \in S}
    <3>1. S # {} /\ \A t \in S : ToSet(Depends(graph)[t]) \cap S # {}
      BY <2>3 DEF OnCycle, Depends
    <3>2. P # {} /\ P \in SUBSET Nat
      BY <2>1, <3>1 DEF ToSet
    <3>3. PICK i \in P : \A j \in P : i <= j
      <4> HIDE DEF P
      <4> QED BY <3>2, LeastNumber
    <3>4. PICK c \in S : c \in ToSet(Depends(graph)[order[i]])
      BY <3>1
    <3>5. PICK j \in DOMAIN order : j < i /\ order[j] = c
      <4>1. i \in DOMAIN search.done /\ c \in ToSet(Depends(graph)[search.done[i]])
        BY <2>1, <3>4
      <4>2. \E j \in DOMAIN search.done : j < i /\ search.done[j] = c
        BY <4>1, <2>1 DEF LeftInOrder
      <4> QED BY <4>2, <2>1
    <3>6. j \in P /\ j \in Nat /\ i \in Nat
      BY <2>1, <3>4, <3>5
    <3> QED BY <3>3, <3>5, <3>6
  <2>4. CASE OnCycle(S, [t \in S |-> {Node(graph, t).parent}])
    <3>1. ParentLoop(graph, S)
      BY <2>4 DEF OnCycle, ParentLoop
    <3>2. PICK t \in S : t \in TaskIds(graph)
      BY <3>1 DEF ParentLoop
    <3>3. DepthError(graph, t) = "none"
      BY <2>1, <3>2, NoErrorMeans
    <3>4. DepthFromParents(graph, t) # -1
      BY <3>3 DEF DepthError
    <3> QED BY <2>1, <3>1, <3>2, <3>4, DeepIsNoLoop
  <2> QED BY <2>2, <2>3, <2>4
<1> QED BY <1>1, <1>2 DEF CyclesRefused

LEMMA SoundDepths == ASSUME PlanIInv PROVE DepthsWithinGrants
<1> SUFFICES ASSUME plan.state = "compiled", NEW t \in TaskIds(graph)
             PROVE  /\ plan.depth[t] = Cardinality(TasksAbove(graph, t))
                    /\ plan.depth[t] <= Node(graph, t).granted
  BY DEF DepthsWithinGrants
<1>1. plan.depth[t] = DepthFromParents(graph, t) /\ graph \in Graphs /\ CompileError(graph) = "none"
  BY DEF PlanIInv
<1>2. DepthError(graph, t) = "none"
  BY <1>1, NoErrorMeans
<1>3. DepthFromParents(graph, t) # -1
  BY <1>2 DEF DepthError
<1>4. DepthFromParents(graph, t) \in Nat /\ Node(graph, t).granted \in Nat
  BY <1>1, <1>3, DepthIs, NodeIsThere, GraphShape
<1>5. DepthFromParents(graph, t) <= Node(graph, t).granted
  BY <1>2, <1>4 DEF DepthError
<1> QED BY <1>1, <1>3, <1>5, DepthCounts

-----------------------------------------------------------------------------
(* Scopes.                                                                  *)

(* A path stripped of what trails is one with the same beginning.           *)
LEMMA Trimmed ==
    ASSUME NEW S, NEW p \in Seq(S), p # <<>>
    PROVE  TrimEnd(p) \in Seq(S) /\ Len(TrimEnd(p)) \in Nat \ {0}
<1> DEFINE T == {1} \cup {n \in DOMAIN p : p[n] # ""}
           L == {Len(p) - n : n \in T}
<1>1. Len(p) \in Nat \ {0} /\ DOMAIN p = 1..Len(p) /\ \A n \in DOMAIN p : p[n] \in S
  BY ElementIsAt
<1>2. T # {} /\ T \subseteq 1..Len(p)
  <2>1. 1 \in 1..Len(p)
    BY <1>1
  <2>2. {n \in DOMAIN p : p[n] # ""} \subseteq 1..Len(p)
    BY <1>1
  <2> HIDE DEF L
  <2> QED BY <2>1, <2>2
<1> HIDE DEF T
<1>3. L \in SUBSET Nat /\ L # {}
  <2>1. \A n \in T : Len(p) - n \in Nat
    BY <1>1, <1>2
  <2> QED BY <1>2, <2>1
<1>4. PICK l \in L : \A k \in L : l <= k
  <2> HIDE DEF L
  <2> QED BY <1>3, LeastNumber
<1>5. PICK m \in T : l = Len(p) - m
  BY <1>4
<1>6. \A n \in T : m >= n
  <2> SUFFICES ASSUME NEW n \in T PROVE m >= n
    OBVIOUS
  <2>1. Len(p) - m <= Len(p) - n
    BY <1>4, <1>5
  <2>2. m \in Nat /\ n \in Nat
    BY <1>2
  <2> QED BY <1>1, <2>1, <2>2
<1>7. Max(T) \in T
  BY <1>6 DEF Max
<1>8. TrimEnd(p) = SubSeq(p, 1, Max(T)) /\ Max(T) \in 1..Len(p)
  BY <1>2, <1>7 DEF TrimEnd, T
<1> QED BY <1>1, <1>8

(* For a path that does not begin with a dot when it is compared, the two   *)
(* normal forms of a scope are one.                                         *)
LEMMA OneNormalForm ==
    ASSUME NEW S, NEW p \in Seq(S), p # <<>>, ~Dotted(p)
    PROVE  /\ StripDots(TrimEnd(p)) = NormalizeScopePath(p)
           /\ NormalizeScopePath(p) \in Seq(S) /\ NormalizeScopePath(p) # <<".">>
<1> DEFINE t == TrimEnd(p)
           s == NormalizeScopePath(p)
           P == {Len(t)} \cup {n \in DOMAIN t : t[n] # "."}
<1>1. t \in Seq(S) /\ Len(t) \in Nat \ {0} /\ DOMAIN t = 1..Len(t)
  BY Trimmed
<1>2. s = IF Len(t) > 1 /\ Head(t) = "." THEN Tail(t) ELSE t
  BY DEF NormalizeScopePath
<1>3. StripDots(t) = SubSeq(t, Min(P), Len(t))
  BY DEF StripDots
<1>4. Head(s) # "."
  BY DEF Dotted
<1> HIDE DEF t, s
<1>5. P \in SUBSET Nat /\ P # {}
  BY <1>1
<1>6. Min(P) \in P /\ \A n \in P : Min(P) <= n
  <2> HIDE DEF P
  <2> QED BY <1>5, LeastOfAll
<1>7. CASE Len(t) > 1 /\ Head(t) = "."
  <2>1. s = Tail(t) /\ t[1] = "." /\ Head(s) = t[2]
    BY <1>1, <1>2, <1>7
  <2>2. 2 \in P /\ 1 \notin P
    BY <1>1, <1>4, <1>7, <2>1
  <2>3. Min(P) = 2
    <3>1. Min(P) \in 1..Len(t) /\ Min(P) <= 2 /\ Min(P) # 1
      BY <1>1, <1>6, <2>2
    <3> HIDE DEF P
    <3> QED BY <3>1
  <2>4. SubSeq(t, 2, Len(t)) = Tail(t)
    BY <1>1, <1>7
  <2>5. s \in Seq(S) /\ s # <<".">>
    <3>1. Tail(t) \in Seq(S)
      BY <1>1, <1>7
    <3>2. Head(<<".">>) = "."
      OBVIOUS
    <3> QED BY <1>4, <2>1, <3>1, <3>2
  <2> QED BY <1>3, <2>1, <2>3, <2>4, <2>5 DEF t, s
<1>8. CASE ~(Len(t) > 1 /\ Head(t) = ".")
  <2>1. s = t /\ t[1] # "."
    <3>1. s = t
      BY <1>2, <1>8
    <3>2. Head(t) = t[1]
      BY <1>1
    <3> QED BY <1>4, <3>1, <3>2
  <2>2. 1 \in P
    BY <1>1, <2>1
  <2>3. Min(P) = 1
    <3>1. Min(P) \in 1..Len(t) /\ Min(P) <= 1
      BY <1>1, <1>6, <2>2
    <3> HIDE DEF P
    <3> QED BY <3>1
  <2>4. SubSeq(t, 1, Len(t)) = t
    BY <1>1
  <2>5. s # <<".">>
    BY <1>4
  <2> QED BY <1>1, <1>3, <2>1, <2>3, <2>4, <2>5 DEF t, s
<1> QED BY <1>7, <1>8

LEMMA PrefixIs ==
    ASSUME NEW A, NEW B, NEW s \in Seq(A), NEW f \in Seq(B)
    PROVE  IsPrefix(s, f) <=> Len(s) <= Len(f) /\ \A i \in 1..Len(s) : s[i] = f[i]
<1>1. Len(s) \in Nat /\ Len(f) \in Nat
  OBVIOUS
<1>2. SubSeq(s, 1, Len(s)) = s
  OBVIOUS
<1>3. CASE Len(s) <= Len(f)
  <2>1. Len(SubSeq(f, 1, Len(s))) = Len(s) /\ SubSeq(f, 1, Len(s)) \in Seq(B)
        /\ \A i \in 1..Len(s) : SubSeq(f, 1, Len(s))[i] = f[i]
    BY <1>1, <1>3
  <2>2. s = SubSeq(f, 1, Len(s)) <=> \A i \in 1..Len(s) : s[i] = f[i]
    <3>1. s = [i \in 1..Len(s) |-> s[i]]
      OBVIOUS
    <3>2. SubSeq(f, 1, Len(s)) = [i \in 1..Len(s) |-> f[i]]
      BY <1>1, <1>3
    <3> QED BY <3>1, <3>2
  <2> QED BY <1>2, <1>3, <2>2 DEF IsPrefix
<1>4. CASE ~(Len(s) <= Len(f))
  BY <1>4 DEF IsPrefix
<1> QED BY <1>3, <1>4

(* Of two beginnings of a path, one begins the other.                       *)
LEMMA PrefixesOverlap ==
    ASSUME NEW A, NEW B, NEW C, NEW s \in Seq(A), NEW t \in Seq(B), NEW f \in Seq(C), IsPrefix(s, f), IsPrefix(t, f)
    PROVE  ScopesOverlap(s, t)
<1>1. Len(s) \in Nat /\ Len(t) \in Nat
  OBVIOUS
<1>2. (\A i \in 1..Len(s) : s[i] = f[i]) /\ (\A i \in 1..Len(t) : t[i] = f[i])
  BY PrefixIs
<1>3. CASE Len(s) <= Len(t)
  <2>1. \A i \in 1..Len(s) : i \in 1..Len(t)
    BY <1>1, <1>3
  <2>2. \A i \in 1..Len(s) : s[i] = t[i]
    BY <1>2, <2>1
  <2> QED BY <1>3, <2>2, PrefixIs DEF ScopesOverlap
<1>4. CASE ~(Len(s) <= Len(t))
  <2>0. Len(t) <= Len(s)
    BY <1>1, <1>4
  <2>1. \A i \in 1..Len(t) : i \in 1..Len(s)
    BY <1>1, <2>0
  <2>2. \A i \in 1..Len(t) : t[i] = s[i]
    BY <1>2, <2>1
  <2> QED BY <2>0, <2>2, PrefixIs DEF ScopesOverlap
<1> QED BY <1>3, <1>4

LEMMA SoundOwners == ASSUME PlanIInv PROVE OneOwnerPerFile
<1> SUFFICES ASSUME plan.state = "compiled", NEW i \in DOMAIN graph, NEW j \in DOMAIN graph, i # j,
                    NEW a \in ToSet(graph[i].scope), NEW b \in ToSet(graph[j].scope), ~Dotted(a), ~Dotted(b),
                    NEW f \in Files, f \in Writable(a), f \in Writable(b)
             PROVE  FALSE
  BY DEF OneOwnerPerFile, Writable
<1>1. graph \in Graphs /\ CompileError(graph) = "none"
  BY DEF PlanIInv
<1>2. PICK k \in DOMAIN graph[i].scope : graph[i].scope[k] = a
  BY DEF ToSet
<1>3. PICK l \in DOMAIN graph[j].scope : graph[j].scope[l] = b
  BY DEF ToSet
<1>4. a \in Seq(ToSet(a)) /\ a # <<>> /\ b \in Seq(ToSet(b)) /\ b # <<>> /\ f \in Seq(ToSet(f))
  BY <1>1, <1>2, <1>3, GraphShape, PlanAssumption
<1>5. /\ StripDots(TrimEnd(a)) = NormalizeScopePath(a) /\ NormalizeScopePath(a) \in Seq(ToSet(a))
      /\ NormalizeScopePath(a) # <<".">>
      /\ StripDots(TrimEnd(b)) = NormalizeScopePath(b) /\ NormalizeScopePath(b) \in Seq(ToSet(b))
      /\ NormalizeScopePath(b) # <<".">>
  BY <1>4, OneNormalForm
<1>6. IsPrefix(NormalizeScopePath(a), f) /\ IsPrefix(NormalizeScopePath(b), f)
  BY <1>5 DEF Writable
<1>7. ScopesOverlap(NormalizeScopePath(a), NormalizeScopePath(b))
  BY <1>4, <1>5, <1>6, PrefixesOverlap
<1>8. /\ <<i, k>> \in Claims(graph) /\ <<j, l>> \in Claims(graph) /\ <<i, k>> # <<j, l>>
      /\ Claimed(graph, <<i, k>>) = NormalizeScopePath(a) /\ Claimed(graph, <<j, l>>) = NormalizeScopePath(b)
  BY <1>2, <1>3 DEF Claims, Claimed
<1>9. ScopeError(graph) # "none"
  BY <1>7, <1>8 DEF ScopeError
<1> QED BY <1>1, <1>9, NoErrorMeans

(* A plan that was compiled has an order and depths, no cycle, and one      *)
(* owner of each file, whatever graph is proposed; a graph is refused for a *)
(* cycle only when it has one (TaskPlan::compile, contracts.rs).            *)
THEOREM PlansAreSound == PlanSpec => []PlanInv
<1>1. PlanIInv => PlanInv
  BY SoundOrder, SoundRefusals, SoundDepths, SoundOwners DEF PlanInv
<1> QED BY <1>1, PlanStarts, PlanStep, PTL DEF PlanSpec
=============================================================================
