----------------------------- MODULE DepthFirst -----------------------------
(***************************************************************************)
(* The depth-first visit that the plan compiler (topological_sort and      *)
(* visit, coordination/contracts.rs) and the plugin graph (detect_cycle    *)
(* and visit, harness-kernel lib.rs) both make, call by call: the visits   *)
(* that are open, each with the children its loop has not come to yet,     *)
(* below them the loop over the roots, and the nodes that were left.       *)
(***************************************************************************)
EXTENDS Naturals, Sequences, SequencesExt

StartVisits(roots) == [roots |-> roots, frames |-> <<>>, done |-> <<>>, cycle |-> FALSE]

(* The nodes that are being visited.                                        *)
Visiting(w) == {w.frames[i].node : i \in DOMAIN w.frames}

(* A mutant: a node is visited as soon as it is entered.                    *)
VisitedOnEntry(w, v, edges) ==
    IF v \in ToSet(w.done) THEN w
    ELSE [w EXCEPT !.frames = Append(@, [node |-> v, left |-> edges[v]]), !.done = Append(@, v)]

(* visit(v): a node that was left is skipped, one that is being visited     *)
(* closes a cycle.                                                          *)
EnterNode(w, v, edges) ==
    CASE v \in ToSet(w.done) -> w
      [] v \notin ToSet(w.done) /\ v \in Visiting(w) -> [w EXCEPT !.cycle = TRUE]
      [] OTHER -> [w EXCEPT !.frames = Append(@, [node |-> v, left |-> edges[v]])]

(* The loop over the roots comes to the next one.                           *)
AtRoot(w) == ~w.cycle /\ w.frames = <<>> /\ w.roots # <<>>
EnterRoot(w, edges) == EnterNode([w EXCEPT !.roots = Tail(@)], Head(w.roots), edges)

(* The loop of the innermost visit comes to the next child ...              *)
Top(w) == w.frames[Len(w.frames)]
AtChild(w) == ~w.cycle /\ w.frames # <<>> /\ Top(w).left # <<>>
EnterChild(w, edges) ==
    EnterNode([w EXCEPT !.frames = Append(Front(@), [Top(w) EXCEPT !.left = Tail(@)])], Head(Top(w).left), edges)

(* ... or is over, and the visit returns.                                   *)
AtEnd(w) == ~w.cycle /\ w.frames # <<>> /\ Top(w).left = <<>>
LeaveNode(w) == [w EXCEPT !.frames = Front(@), !.done = Append(@, Top(w).node)]

AllVisited(w) == ~w.cycle /\ w.frames = <<>> /\ w.roots = <<>>

(* One step of the walk, from w to x.                                       *)
VisitStep(w, x, edges) ==
    \/ AtRoot(w) /\ x = EnterRoot(w, edges)
    \/ AtChild(w) /\ x = EnterChild(w, edges)
    \/ AtEnd(w) /\ x = LeaveNode(w)
=============================================================================
