----------------------------- MODULE ServiceDrain ---------------------------
(***************************************************************************)
(* A service provider of the kernel (harness-kernel lib.rs): clients call  *)
(* it under leases of a generation; whoever notices its loss stops new     *)
(* calls, waits for the active ones and releases the resource.  Several    *)
(* may notice, and one that waits may be dropped (a timeout).              *)
(***************************************************************************)
EXTENDS Naturals, FiniteSets

CONSTANTS
    Clients,        \* holders of leases
    CallIds,        \* identifiers of calls
    Drainers,       \* reports of the loss, each with its drain
    DroppedDrains,  \* the drains that may be dropped while they wait
    None

ASSUME DrainAssumption ==
    /\ IsFiniteSet(Clients) /\ IsFiniteSet(Drainers) /\ DroppedDrains \subseteq Drainers /\ None \notin CallIds
    /\ {None, "set"} \cap Drainers = {} /\ None # "set"

VARIABLES
    generation, healthy,
    inFlight,       \* the counter of calls
    active,         \* the identifiers of calls under way
    lost,           \* lost_with: none yet, or what was active at the loss
    client,         \* what each client does
    drain,          \* what each drain does
    notified,       \* drains whose Notified future was woken
    released,       \* nobody, the drain that initialises it, or "set"
    resource        \* how often the resource was told to shut down, and joined

drainVars == <<generation, healthy, inFlight, active, lost, client, drain, notified, released, resource>>
callVars == <<generation, healthy, lost, drain, released, resource>>
providerVars == <<generation, healthy, inFlight, active, client>>

NotLost == [yes |-> FALSE, calls |-> {}]
NoLease == [pc |-> "none", id |-> None, lease |-> 0]

DrainInit ==
    /\ generation = 1 /\ healthy = TRUE /\ inFlight = 0 /\ active = {} /\ lost = NotLost
    /\ client = [k \in Clients |-> NoLease] /\ drain = [d \in Drainers |-> "none"]
    /\ notified = {} /\ released = None /\ resource = [shutdowns |-> 0, joins |-> 0]

-----------------------------------------------------------------------------
(* The clients.                                                             *)

Lease(k) ==
    /\ client[k].pc = "none"
    /\ client' = [client EXCEPT ![k] = [pc |-> "leased", id |-> None, lease |-> generation]]
    /\ UNCHANGED <<callVars, inFlight, active, notified>>

(* Checked with the calls locked, as the loss is.                           *)
Admitted(k) == healthy /\ client[k].lease = generation

BeginCall(k, id) ==
    /\ client[k].pc = "leased" /\ Admitted(k) /\ id \notin active
    /\ inFlight' = inFlight + 1 /\ active' = active \cup {id}
    /\ client' = [client EXCEPT ![k].pc = "calling", ![k].id = id]
    /\ UNCHANGED <<callVars, notified>>

(* finish_call, of a call that settles or is dropped: it leaves the set     *)
(* under the lock, and the counter after it.                                *)
LeaveSet(k) ==
    /\ client[k].pc = "calling" /\ active' = active \ {client[k].id}
    /\ client' = [client EXCEPT ![k].pc = "leaving"]
    /\ UNCHANGED <<callVars, inFlight, notified>>

(* A mutant: a drain can be woken only once it awaits its future.           *)
WakesAwaiting(k) ==
    /\ client[k].pc = "leaving" /\ inFlight' = inFlight - 1
    /\ client' = [client EXCEPT ![k].pc = "leased", ![k].id = None]
    /\ notified' = IF inFlight = 1 THEN {d \in Drainers : drain[d] = "parked"} ELSE notified
    /\ UNCHANGED <<callVars, active>>

(* The last call wakes every drain that has its future.                     *)
LeaveCount(k) ==
    /\ client[k].pc = "leaving" /\ inFlight' = inFlight - 1
    /\ client' = [client EXCEPT ![k].pc = "leased", ![k].id = None]
    /\ notified' = IF inFlight = 1 THEN {d \in Drainers : drain[d] \in {"check", "await", "parked"}} ELSE notified
    /\ UNCHANGED <<callVars, active>>

-----------------------------------------------------------------------------
(* lose_and_drain.                                                          *)

(* The first report of the loss changes health and generation and notes     *)
(* what is active.                                                          *)
Lose(d) ==
    /\ drain[d] = "none" /\ drain' = [drain EXCEPT ![d] = "loop"]
    /\ IF lost.yes THEN UNCHANGED <<lost, healthy, generation>>
                   ELSE lost' = [yes |-> TRUE, calls |-> active] /\ healthy' = FALSE /\ generation' = generation + 1
    /\ UNCHANGED <<inFlight, active, client, notified, released, resource>>

(* The future is made first, so that it sees a wake-up from here on.        *)
MakeFuture(d) ==
    /\ drain[d] = "loop" /\ drain' = [drain EXCEPT ![d] = "check"] /\ notified' = notified \ {d}
    /\ UNCHANGED <<providerVars, lost, released, resource>>

(* A mutant: the drain looks at the active set, which a call leaves first.  *)
ChecksSet(d) ==
    /\ drain[d] = "check" /\ drain' = [drain EXCEPT ![d] = IF active = {} THEN "cell" ELSE "await"]
    /\ UNCHANGED <<providerVars, lost, notified, released, resource>>

CheckCount(d) ==
    /\ drain[d] = "check" /\ drain' = [drain EXCEPT ![d] = IF inFlight = 0 THEN "cell" ELSE "await"]
    /\ UNCHANGED <<providerVars, lost, notified, released, resource>>

Park(d) ==
    /\ drain[d] = "await" /\ drain' = [drain EXCEPT ![d] = "parked"]
    /\ UNCHANGED <<providerVars, lost, notified, released, resource>>

Wake(d) ==
    /\ drain[d] = "parked" /\ d \in notified /\ drain' = [drain EXCEPT ![d] = "loop"]
    /\ UNCHANGED <<providerVars, lost, notified, released, resource>>

(* released.get_or_init: one initialises, the others wait for it.           *)
EnterCell(d) ==
    /\ drain[d] = "cell"
    /\ \/ released = None /\ released' = d /\ drain' = [drain EXCEPT ![d] = "shutdown"]
          /\ resource' = [resource EXCEPT !.shutdowns = @ + 1]
       \/ released = "set" /\ drain' = [drain EXCEPT ![d] = "done"] /\ UNCHANGED <<released, resource>>
    /\ UNCHANGED <<providerVars, lost, notified>>

(* close_resources: shutdown is awaited, then join.                         *)
ShutDown(d) ==
    /\ drain[d] = "shutdown" /\ drain' = [drain EXCEPT ![d] = "join"]
    /\ UNCHANGED <<providerVars, lost, notified, released, resource>>

Join(d) ==
    /\ drain[d] = "join" /\ drain' = [drain EXCEPT ![d] = "done"] /\ released' = "set"
    /\ resource' = [resource EXCEPT !.joins = @ + 1]
    /\ UNCHANGED <<providerVars, lost, notified>>

(* The drain is dropped where it awaits; an initialisation that is dropped  *)
(* leaves the cell empty.                                                   *)
CancelDrain(d) ==
    /\ d \in DroppedDrains /\ drain[d] \in {"parked", "cell", "shutdown", "join"}
    /\ drain' = [drain EXCEPT ![d] = "cancelled"] /\ released' = IF released = d THEN None ELSE released
    /\ UNCHANGED <<providerVars, lost, notified, resource>>

CallEnds(k) == LeaveSet(k) \/ LeaveCount(k)
DrainStep(d) == MakeFuture(d) \/ CheckCount(d) \/ Park(d) \/ Wake(d) \/ EnterCell(d) \/ ShutDown(d) \/ Join(d)

DrainNext ==
    \/ \E k \in Clients : Lease(k) \/ CallEnds(k) \/ \E id \in CallIds : BeginCall(k, id)
    \/ \E d \in Drainers : Lose(d) \/ DrainStep(d) \/ CancelDrain(d)

(* A call ends (it settles or is dropped) and a drain is polled when it can *)
(* go on.                                                                   *)
DrainSpec ==
    /\ DrainInit /\ [][DrainNext]_drainVars
    /\ \A k \in Clients : WF_drainVars(CallEnds(k))
    /\ \A d \in Drainers : WF_drainVars(DrainStep(d))

-----------------------------------------------------------------------------
Busy == {k \in Clients : client[k].pc \in {"calling", "leaving"}}

DrainTypeOK ==
    /\ generation \in Nat /\ healthy \in BOOLEAN /\ inFlight \in Nat /\ active \subseteq CallIds
    /\ lost \in [yes : BOOLEAN, calls : SUBSET CallIds]
    /\ client \in [Clients -> [pc : {"none", "leased", "calling", "leaving"}, id : CallIds \cup {None}, lease : Nat]]
    /\ drain \in [Drainers -> {"none", "loop", "check", "await", "parked", "cell", "shutdown", "join", "done", "cancelled"}]
    /\ notified \subseteq Drainers /\ released \in Drainers \cup {None, "set"}
    /\ resource \in [shutdowns : Nat, joins : Nat]

(* The resource is not released under a call: from the moment a drain is    *)
(* through its wait nobody is in a call, and nobody enters one              *)
(* (lose_and_drain: "wait for active calls, then release the owned          *)
(* resource").                                                              *)
ReleasedWhenQuiet ==
    (\E d \in Drainers : drain[d] \in {"cell", "shutdown", "join", "done"}) => Busy = {} /\ active = {} /\ ~healthy

(* A call that was under way at the loss is among the uncertain ones,       *)
(* whichever report of the loss one looks at ("the uncertain calls are the  *)
(* ones active at the first loss").                                         *)
ActiveIsUncertain ==
    lost.yes => \A k \in Clients : client[k].pc = "calling" => client[k].id \in lost.calls

(* What was uncertain stays so in every later report.                       *)
UncertainStays == [][lost.yes => lost' = lost]_drainVars

(* The resource is told to shut down once, however often the loss is        *)
(* reported, and once more at most for every drain that was dropped         *)
(* (released: "run once however often loss is reported").                   *)
ReleasedOnce == resource.shutdowns <= 1 + Cardinality({d \in Drainers : drain[d] = "cancelled"})

(* Every drain that is not dropped ends.                                    *)
LossDrainEnds == \A d \in Drainers : drain[d] = "loop" ~> drain[d] \in {"done", "cancelled"}

(* A lost service is released once nobody is in a call, once for every      *)
(* drain, with the calls of the first loss in every report                  *)
(* (lose_and_drain).                                                        *)
DrainSafe == [](DrainTypeOK /\ ReleasedWhenQuiet /\ ActiveIsUncertain /\ ReleasedOnce) /\ UncertainStays
=============================================================================
