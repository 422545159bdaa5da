------------------------------ MODULE TaskPlan ------------------------------
(***************************************************************************)
(* TaskPlan::compile of harness-orchestrator (coordination/contracts.rs):  *)
(* the structural rules a proposed task graph passes before any task of it *)
(* is admitted, and the order and the depths it is admitted with.          *)
(*                                                                         *)
(* A graph is the sequence of its nodes.  A path is the sequence of its    *)
(* segments: "./src/" is <<".", "src", "">>.                               *)
(***************************************************************************)
EXTENDS Integers, Sequences, FiniteSets, SequencesExt, DepthFirst

CONSTANTS
    Graphs,             \* the graphs a coordinator may propose
    Files,              \* files of the repository, as paths
    NoParent,           \* a node without a parent
    MaxWorkers,         \* DEFAULT_MAX_WORKERS
    MaxDepth            \* DEFAULT_MAX_DEPTH

ASSUME PlanAssumption ==
    /\ MaxWorkers \in Nat /\ MaxDepth \in Nat
    /\ \A g \in Graphs : g \in Seq(ToSet(g)) /\ \A i \in DOMAIN g :
          /\ g[i].id # NoParent /\ g[i].granted \in Nat
          /\ g[i].depends \in Seq(ToSet(g[i].depends)) /\ g[i].scope \in Seq(ToSet(g[i].scope))
          /\ \A k \in DOMAIN g[i].scope : g[i].scope[k] # <<>> /\ g[i].scope[k] \in Seq(ToSet(g[i].scope[k]))
    /\ \A f \in Files : f \in Seq(ToSet(f))

VARIABLES
    graph,
    plan,               \* what compile returned
    search              \* the visits of its topological_sort

planVars == <<graph, plan, search>>

Pending == [state |-> "proposed"]
Refused(why) == [state |-> "refused", why |-> why]

PlanInit == graph \in Graphs /\ plan = Pending /\ search = StartVisits(<<>>)

-----------------------------------------------------------------------------
TaskIds(g) == {g[i].id : i \in DOMAIN g}
Node(g, t) == g[CHOOSE i \in DOMAIN g : g[i].id = t]

(* The checks of one node while the map of nodes is built.                  *)
NodeError(g, i) ==
    IF g[i].declared > g[i].granted THEN "depth"
    ELSE IF g[i].parent = g[i].id THEN "owner"
    ELSE IF \E j \in 1..(i - 1) : g[j].id = g[i].id THEN "duplicate" ELSE "none"

(* depth_from_parents: where the walk is after k parents (it stays where it *)
(* leaves the graph), and the depth it returns when it is cut off after     *)
(* `limit` of them.  -1 is the error of a chain that does not end.          *)
ParentsOf(g, t, limit) ==
    LET up[k \in 0..limit] ==
          IF k = 0 THEN Node(g, t).parent
          ELSE IF up[k - 1] \in TaskIds(g) THEN Node(g, up[k - 1]).parent ELSE up[k - 1]
    IN  up

DepthWithin(g, t, limit) ==
    LET up == ParentsOf(g, t, limit)
        ends == {k \in 0..limit : up[k] = NoParent \/ (k < limit /\ up[k] \notin TaskIds(g))}
    IN  IF ends = {} THEN -1 ELSE Min(ends)

(* A mutant: the guard cuts off a chain that ends.                          *)
DepthCutShort(g, t) == DepthWithin(g, t, 1)

DepthFromParents(g, t) == DepthWithin(g, t, Len(g) + 1)

DepthError(g, t) ==
    LET depth == DepthFromParents(g, t) IN
    CASE depth = -1 -> "cycle"
      [] depth > MaxDepth \/ depth > Node(g, t).granted -> "depth"
      [] OTHER -> "none"

-----------------------------------------------------------------------------
(* trim_end_matches: the empty path is one empty segment.                   *)
TrimEnd(p) == SubSeq(p, 1, Max({1} \cup {n \in DOMAIN p : p[n] # ""}))

NormalizeScopePath(p) ==
    LET trimmed == TrimEnd(p) IN
    IF Len(trimmed) > 1 /\ Head(trimmed) = "." THEN Tail(trimmed) ELSE trimmed

ScopesOverlap(l, r) == IsPrefix(l, r) \/ IsPrefix(r, l)

(* The scopes of the whole graph, by their places: no two may overlap.      *)
Claims(g) == UNION {{<<i, k>> : k \in DOMAIN g[i].scope} : i \in DOMAIN g}
Claimed(g, c) == NormalizeScopePath(g[c[1]].scope[c[2]])

ScopeError(g) ==
    IF \E c, d \in Claims(g) : c # d /\ ScopesOverlap(Claimed(g, c), Claimed(g, d)) THEN "owner" ELSE "none"

DependsError(g, t) ==
    LET d == Node(g, t).depends
        bad == {i \in DOMAIN d : \/ d[i] = t \/ d[i] \notin TaskIds(g) \/ \E j \in 1..(i - 1) : d[j] = d[i]}
        first == CHOOSE i \in bad : \A j \in bad : i <= j
    IN  IF bad = {} THEN "none"
        ELSE IF d[first] = t THEN "cycle"
        ELSE IF d[first] \notin TaskIds(g) THEN "unknown" ELSE "duplicate"

-----------------------------------------------------------------------------
(* The first error of a sequence of checks; "none" when all pass.           *)
FirstError(errors) ==
    LET bad == {i \in DOMAIN errors : errors[i] # "none"} IN
    IF bad = {} THEN "none" ELSE errors[CHOOSE i \in bad : \A j \in bad : i <= j]

(* The checks in the order compile makes them.                              *)
CompileError(g) ==
    IF Len(g) > MaxWorkers THEN "budget"
    ELSE LET nodes == FirstError([i \in DOMAIN g |-> NodeError(g, i)]) IN
    IF nodes # "none" THEN nodes
    ELSE IF g = <<>> THEN "empty"
    ELSE FirstError(<<FirstError([i \in DOMAIN g |-> DepthError(g, g[i].id)]),
                      ScopeError(g),
                      FirstError([i \in DOMAIN g |-> DependsError(g, g[i].id)])>>)

(* topological_sort visits the tasks in the order of the graph, and from a  *)
(* task those it depends on.                                                *)
Depends(g) == [t \in TaskIds(g) |-> Node(g, t).depends]

Sorted(w) ==
    CASE w.cycle -> Refused("cycle")
      [] AllVisited(w) -> [state |-> "compiled", order |-> w.done,
                           depth |-> [t \in TaskIds(graph) |-> DepthFromParents(graph, t)]]
      [] OTHER -> [state |-> "sorting"]

(* compile up to the sort ...                                               *)
Compile ==
    /\ plan = Pending /\ UNCHANGED graph
    /\ \/ CompileError(graph) # "none" /\ plan' = Refused(CompileError(graph)) /\ UNCHANGED search
       \/ /\ CompileError(graph) = "none"
          /\ search' = StartVisits([i \in DOMAIN graph |-> graph[i].id])
          /\ plan' = Sorted(search')

(* ... and its walk.                                                        *)
TopologicalSort ==
    /\ plan.state = "sorting" /\ UNCHANGED graph
    /\ VisitStep(search, search', Depends(graph))
    /\ plan' = Sorted(search')

PlanNext == Compile \/ TopologicalSort

PlanSpec == PlanInit /\ [][PlanNext]_planVars

-----------------------------------------------------------------------------
(* What a compiled plan promises, from the graph alone.                     *)

(* A cycle: tasks of which each has a next one among them.                  *)
OnCycle(S, next) == S # {} /\ \A t \in S : next[t] \cap S # {}

Cyclic(g) ==
    \E S \in SUBSET TaskIds(g) :
        \/ OnCycle(S, [t \in S |-> ToSet(Node(g, t).depends)])
        \/ OnCycle(S, [t \in S |-> {Node(g, t).parent}])

(* The least set of tasks that has the parent of t and the parents of all   *)
(* its own.                                                                 *)
TasksAbove(g, t) ==
    LET closed(S) == \A u \in S \cup {t} : Node(g, u).parent \in TaskIds(g) => Node(g, u).parent \in S
    IN  {u \in TaskIds(g) : \A S \in SUBSET TaskIds(g) : closed(S) => u \in S}

(* Which files a scope lets its owner write: scope_violations, the check of *)
(* workspaces/workspace.rs when the worker's changes are committed.         *)
StripDots(p) == SubSeq(p, Min({Len(p)} \cup {n \in DOMAIN p : p[n] # "."}), Len(p))
Writable(scope) ==
    LET s == StripDots(TrimEnd(scope)) IN {f \in Files : s = <<".">> \/ IsPrefix(s, f)}

(* A compiled plan can be run: its order has every task once, after the     *)
(* tasks it depends on.                                                     *)
DependenciesFirst ==
    plan.state = "compiled" =>
        /\ ToSet(plan.order) = TaskIds(graph) /\ Len(plan.order) = Len(graph)
        /\ \A i \in DOMAIN plan.order :
               ToSet(Node(graph, plan.order[i]).depends) \subseteq ToSet(SubSeq(plan.order, 1, i - 1))

(* A cycle, of dependencies or of parents, is always refused, and a cycle   *)
(* is reported only where there is one: no legal graph is lost.             *)
CyclesRefused ==
    /\ plan.state = "compiled" => ~Cyclic(graph)
    /\ plan.state = "refused" /\ plan.why = "cycle" => Cyclic(graph)

(* The depth of a task is the number of its ancestors inside the graph, and *)
(* no task is deeper than its grant: the walk's guard never cuts a chain    *)
(* that ends.                                                               *)
DepthsWithinGrants ==
    plan.state = "compiled" =>
        \A t \in TaskIds(graph) :
            /\ plan.depth[t] = Cardinality(TasksAbove(graph, t))
            /\ plan.depth[t] <= Node(graph, t).granted

(* A scope that still begins with a dot when it is compared (README.md,     *)
(* Divergences).                                                            *)
Dotted(scope) == Head(NormalizeScopePath(scope)) = "."

(* No file may be written by two tasks of a compiled plan ("two workers     *)
(* could edit the same tree under different grants").                       *)
OneOwnerPerFile ==
    plan.state = "compiled" =>
        \A i, j \in DOMAIN graph : i # j =>
            \A a \in ToSet(graph[i].scope), b \in ToSet(graph[j].scope) :
                Dotted(a) \/ Dotted(b) \/ Writable(a) \cap Writable(b) = {}

(* A plan that was compiled can be run by its workers side by side, and a   *)
(* graph is refused for a reason it has (TaskPlan::compile).                *)
PlanInv == DependenciesFirst /\ CyclesRefused /\ DepthsWithinGrants /\ OneOwnerPerFile
=============================================================================
