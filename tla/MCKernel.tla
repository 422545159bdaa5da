------------------------------ MODULE MCKernel ------------------------------
(* The parts of the kernel, which share no state.  A behaviour is about one  *)
(* of them, the others stay where they start:                                *)
(*  - drain: two clients, two identifiers, two reports of the loss, of which *)
(*    one may be dropped;                                                    *)
(*  - shutdown: three items in every assignment of phases, two callers, each *)
(*    of which may be dropped;                                               *)
(*  - registry: three scopes, so that a tree has siblings and a chain of     *)
(*    three, and registrations enough for one to be replaced twice;          *)
(*  - graph: three plugins over three services, one in two versions.  The    *)
(*    first two are in order and in one scope; the third may have the name   *)
(*    of the first, no generation, or another scope.                         *)
EXTENDS ServiceDrain, OrderedShutdown, ScopedRegistry, PluginGraph

VARIABLE part

Service(s, v) == [service |-> s, version |-> v]
Need(s, v) == [service |-> s, version |-> v, optional |-> FALSE]
Maybe(s, v) == [service |-> s, version |-> v, optional |-> TRUE]

MCProvides == {{}, {Service("a", 1)}, {Service("b", 1)}, {Service("c", 1), Service("c", 2)}}
MCRequires == {<<>>, <<Need("a", 1)>>, <<Need("a", 2)>>, <<Maybe("b", 1)>>, <<Need("c", 2), Need("b", 1)>>}

Plugins(ids, scopes, generations) ==
    [id : ids, scope : scopes, generation : generations, provides : Provides, requires : Requires]

MCKernelVars == <<drainVars, shutdownVars, registryVars, graphVars, part>>

MCKernelInit ==
    /\ DrainInit /\ RegistryInit /\ result = "none" /\ visits = StartVisits(<<>>)
    /\ \/ part \in {"drain", "shutdown", "registry"} /\ descriptors = <<>>
       \/ /\ part = "graph"
          /\ \E p \in Plugins({"p"}, {"here"}, {1}), q \in Plugins({"q"}, {"here"}, {1}),
                r \in Plugins({"p", "r"}, {"here"}, {1}) \cup Plugins({"r"}, {"there"}, {1}) \cup Plugins({"r"}, {"here"}, {0}) :
                    descriptors = <<p, q, r>>
    /\ ShutdownInit /\ (part # "shutdown" => \A i \in Items : phase[i] = Store)

OnlyDrain == part = "drain" /\ UNCHANGED <<shutdownVars, registryVars, graphVars, part>>
OnlyShutdown == part = "shutdown" /\ UNCHANGED <<drainVars, registryVars, graphVars, part>>
OnlyRegistry == part = "registry" /\ UNCHANGED <<drainVars, shutdownVars, graphVars, part>>
OnlyGraph == part = "graph" /\ UNCHANGED <<drainVars, shutdownVars, registryVars, part>>

MCKernelNext ==
    \/ DrainNext /\ OnlyDrain
    \/ ShutdownNext /\ OnlyShutdown
    \/ RegistryNext /\ OnlyRegistry
    \/ GraphNext /\ OnlyGraph

MCKernelSpec ==
    /\ MCKernelInit /\ [][MCKernelNext]_MCKernelVars
    /\ \A k \in Clients : WF_MCKernelVars(CallEnds(k) /\ OnlyDrain)
    /\ \A d \in Drainers : WF_MCKernelVars(DrainStep(d) /\ OnlyDrain)
    /\ \A c \in Callers : WF_MCKernelVars(CallerStep(c) /\ OnlyShutdown)

(* Nobody waits for ever: a drain ends when the calls do, its wake-up is not *)
(* missed (lose_and_drain), and every caller of the shutdown is told, also   *)
(* when the one that was closing is dropped (ShutdownCoordinator::shutdown). *)
WaitsEnd == LossDrainEnds /\ EveryCallerIsTold
=============================================================================
