--------------------------- MODULE MCOrchestrator ---------------------------
(* The scheduler and the plan compiler.  A behaviour is about one of them.  *)
(* The scheduler has one slot, one place in the queue and a parent that     *)
(* takes a slot of its own, in two scenarios: three dispatches, two of them *)
(* for one task, and a drain; or two dispatches, shutdown and then join.    *)
(* The compiler is given every graph of three tasks over its dependencies,  *)
(* then over its parents and depths, then over its scopes, and the small    *)
(* and the doubled graphs.                                                  *)
EXTENDS WorkerScheduler, TaskPlan

CONSTANTS d1, d2, d3, t1, t2, a, b, c, elsewhere

VARIABLE part

MCTaskOf == [d \in Dispatches |-> IF d = d3 THEN t2 ELSE t1]

MCTasks == <<a, b, c>>
MCFiles == {<<"src", "lib">>, <<"src", "bin", "main">>, <<"doc", "guide">>}

Plain(t) == [id |-> t, parent |-> elsewhere, declared |-> 0, granted |-> 1, depends |-> <<>>, scope |-> <<>>]

Lists(S, n) == UNION {[1..k -> S] : k \in 0..n}

(* src, src/, ./src, src/bin, doc, the whole repository and the empty path  *)
Spelled == {<<"src">>, <<"src", "">>, <<".", "src">>, <<"src", "bin">>, <<"doc">>, <<".", "">>, <<"">>}

ByDepends == {[i \in 1..3 |-> [Plain(MCTasks[i]) EXCEPT !.depends = d[i]]] :
                d \in [1..3 -> Lists({a, b, c, elsewhere}, 2)]}
ByParents == {[i \in 1..3 |-> [Plain(MCTasks[i]) EXCEPT !.parent = p[i], !.granted = n[i], !.declared = 1]] :
                p \in [1..3 -> {a, b, c, elsewhere, NoParent}], n \in [1..3 -> 0..2]}
ByScopes == {[i \in 1..2 |-> [Plain(MCTasks[i]) EXCEPT !.scope = s[i]]] : s \in [1..2 -> Lists(Spelled, 2)]}
BySize == {[i \in 1..Len(s) |-> Plain(s[i])] : s \in Lists({a, b, c, elsewhere}, 4)}

MCGraphs == ByDepends \cup ByParents \cup ByScopes \cup BySize

SchedulerParts ==
    {[of |-> "scheduler", dispatches |-> {d1, d2, d3}, drains |-> 0, parents |-> Parents, cancels |-> FALSE],
     [of |-> "scheduler", dispatches |-> {d1, d2, d3}, drains |-> 1, parents |-> {}, cancels |-> FALSE],
     [of |-> "scheduler", dispatches |-> {d1, d3}, drains |-> 1, parents |-> Parents, cancels |-> TRUE],
     [of |-> "scheduler", dispatches |-> {d1, d3}, drains |-> 2, parents |-> {}, cancels |-> FALSE]}

MCOrchestratorVars == <<schedulerVars, planVars, part>>

MCOrchestratorInit ==
    /\ SchedulerInit
    /\ \/ part = [of |-> "plan"] /\ PlanInit
       \/ part \in SchedulerParts /\ graph = <<>> /\ plan = Pending /\ search = StartVisits(<<>>)

Scheduling ==
    /\ part.of = "scheduler"
    /\ drains' <= part.drains
    /\ \A d \in Dispatches \ part.dispatches : worker'[d] = "idle"
    /\ \A p \in Parents \ part.parents : parent'[p] = "idle"
    /\ cancelled' # cancelled => part.cancels \/ host' # host \/ worker' # worker
    /\ UNCHANGED <<planVars, part>>

Planning == part.of = "plan" /\ PlanNext /\ UNCHANGED <<schedulerVars, part>>

MCOrchestratorSpec ==
    /\ MCOrchestratorInit /\ [][(SchedulerNext /\ Scheduling) \/ Planning]_MCOrchestratorVars
    /\ \A d \in Dispatches : SF_MCOrchestratorVars(WorkerStep(d) /\ Scheduling)
    /\ \A p \in Parents :
         /\ SF_MCOrchestratorVars(WaitStep(p) /\ Scheduling)
         /\ WF_MCOrchestratorVars(parent[p] = "leased" /\ AwaitNext(p) /\ Scheduling)
    /\ SF_MCOrchestratorVars(HostStep /\ Scheduling)
=============================================================================
