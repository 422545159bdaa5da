----------------------------- MODULE PluginGraph ----------------------------
(***************************************************************************)
(* The validation of the plugins a kernel is composed of (harness-kernel   *)
(* lib.rs, PluginGraph::validate): instances are told apart, a service has *)
(* one provider in a scope, what is required is there in its version, and  *)
(* the dependencies have no cycle.  A contract without a name or a version *)
(* is refused too, and not modelled.                                       *)
(***************************************************************************)
EXTENDS Naturals, Sequences, FiniteSets, SequencesExt, DepthFirst, Lists

CONSTANTS
    Ids, PluginScopes, \* plugin instances and scopes
    Provides,       \* what a plugin may offer: sets of [service, version]
    Requires,       \* what it may require: sequences of [service, version, optional]
    Count           \* bound: descriptors

(* Contracts are pairs of a service and a version, requirements are lists.  *)
ASSUME GraphAssumption ==
    /\ Count \in Nat
    /\ \A offered \in Provides : \A s \in offered : s = [service |-> s.service, version |-> s.version]
    /\ \A needed \in Requires : needed \in Seq(ToSet(needed))

VARIABLES
    descriptors,    \* Vec<PluginDescriptor>
    visits,         \* the walk of detect_cycle
    result          \* what validate returned, "none" before, "visiting" during the walk

graphVars == <<descriptors, visits, result>>

Descriptors == [id : Ids, scope : PluginScopes, generation : {0, 1}, provides : Provides, requires : Requires]

Positions == DOMAIN descriptors

(* The plugin that offers a service in a scope, in any version.             *)
Candidates(scope, service) ==
    {p \in Positions : descriptors[p].scope = scope /\ \E s \in descriptors[p].provides : s.service = service}

DuplicateProvider ==
    \E p \in Positions : \E s \in descriptors[p].provides :
        Cardinality({descriptors[q].id : q \in Candidates(descriptors[p].scope, s.service)}) > 1

(* The first pass, descriptor by descriptor: the check that fails first.    *)
FirstPass ==
    LET zero(p) == descriptors[p].generation = 0
        again(p) == \E q \in Positions : q < p /\ descriptors[q].id = descriptors[p].id
        bad == {p \in Positions : zero(p) \/ again(p)}
        first == CHOOSE p \in bad : \A q \in bad : p <= q
    IN IF bad # {} THEN (IF zero(first) THEN "invalid" ELSE "duplicate")
       ELSE IF DuplicateProvider THEN "duplicate" ELSE "ok"

(* Those of them that offer it in the version that is required.             *)
Compatible(p, r) ==
    {q \in Candidates(descriptors[p].scope, r.service) :
        [service |-> r.service, version |-> r.version] \in descriptors[q].provides}

(* What is wrong with a requirement, or nothing.                            *)
Unmet(p, r) ==
    IF Compatible(p, r) # {} \/ r.optional THEN "ok"
    ELSE IF Candidates(descriptors[p].scope, r.service) # {} THEN "incompatible" ELSE "missing"

(* The second pass: the requirement that fails first.                       *)
SecondPass ==
    LET failing(p) == {n \in DOMAIN descriptors[p].requires : Unmet(p, descriptors[p].requires[n]) # "ok"}
        bad == {p \in Positions : failing(p) # {}}
    IN IF bad = {} THEN "ok" ELSE Unmet(Min(bad), descriptors[Min(bad)].requires[Min(failing(Min(bad)))])

(* The edges to the providers, an optional requirement's too.               *)
Edges ==
    [p \in Positions |->
        LET needed == descriptors[p].requires
            met == KeepAt(needed, {n \in DOMAIN needed : Compatible(p, needed[n]) # {}})
        IN  [n \in DOMAIN met |-> CHOOSE q \in Compatible(p, met[n]) : TRUE]]

Answer(w) ==
    CASE w.cycle -> "cycle"
      [] AllVisited(w) -> "ok"
      [] OTHER -> "visiting"

(* validate up to the call of detect_cycle ...                              *)
Validate ==
    /\ result = "none" /\ UNCHANGED descriptors
    /\ \/ FirstPass # "ok" /\ result' = FirstPass /\ UNCHANGED visits
       \/ FirstPass = "ok" /\ SecondPass # "ok" /\ result' = SecondPass /\ UNCHANGED visits
       \/ /\ FirstPass = "ok" /\ SecondPass = "ok"
          /\ visits' = StartVisits([p \in Positions |-> p])
          /\ result' = Answer(visits')

(* ... and its walk.                                                        *)
DetectCycle ==
    /\ result = "visiting" /\ UNCHANGED descriptors
    /\ VisitStep(visits, visits', Edges)
    /\ result' = Answer(visits')

GraphInit == descriptors \in [1 .. Count -> Descriptors] /\ visits = StartVisits(<<>>) /\ result = "none"
GraphNext == Validate \/ DetectCycle
GraphSpec == GraphInit /\ [][GraphNext]_graphVars

-----------------------------------------------------------------------------
Offers(q, p, r) ==
    /\ descriptors[q].scope = descriptors[p].scope
    /\ \E s \in descriptors[q].provides : s.service = r.service /\ s.version = r.version

Needs(p, q) == \E n \in DOMAIN descriptors[p].requires : Offers(q, p, descriptors[p].requires[n])

(* A composition that was accepted can be started one plugin after another: *)
(* there is an order in which every plugin comes after the providers of     *)
(* what it requires, and every mandatory requirement has a provider in its  *)
(* scope and version.                                                       *)
AcceptedCanStart ==
    result = "ok" =>
        /\ \A p \in Positions : \A n \in DOMAIN descriptors[p].requires :
              descriptors[p].requires[n].optional \/ \E q \in Positions : Offers(q, p, descriptors[p].requires[n])
        /\ \E order \in [Positions -> Positions] :
              \A p, q \in Positions : Needs(p, q) => order[q] < order[p]

(* A composition is refused for a cycle only when no such order exists: two *)
(* plugins that share a provider are no cycle.                              *)
CycleIsReal ==
    result = "cycle" =>
        ~ \E order \in [Positions -> Positions] : \A p, q \in Positions : Needs(p, q) => order[q] < order[p]

(* An accepted composition names one provider for a service in a scope, and *)
(* its instances are distinct.                                              *)
ProvidersAreDistinct ==
    result = "ok" => \A p, q \in Positions : p # q =>
        /\ descriptors[p].id # descriptors[q].id
        /\ descriptors[p].scope = descriptors[q].scope =>
              {s.service : s \in descriptors[p].provides} \cap {s.service : s \in descriptors[q].provides} = {}

(* A composition is accepted exactly when it can be started with one        *)
(* provider for each service (PluginGraph::validate).                       *)
CompositionIsSound == AcceptedCanStart /\ CycleIsReal /\ ProvidersAreDistinct
=============================================================================
