----------------------------- MODULE MCToolGate -----------------------------
(* Two begins and two hosts.  A behaviour belongs to one scenario: two       *)
(* invocations of one patch with two approvals or with two policy revisions, *)
(* or a read, a process and a task note with one approval between them.      *)
EXTENDS ToolGate, TLC

CONSTANTS read, process, note, patch, again

VARIABLE scenario

Scenarios == {[requests |-> {patch, again}, approvals |-> 2, revisions |-> 1],
              [requests |-> {patch, again}, approvals |-> 1, revisions |-> 2],
              [requests |-> {read, process, note}, approvals |-> 1, revisions |-> 1]}

InScenario ==
    /\ \A r \in Requests : prepared'[r] # NotPrepared => r \in scenario.requests
    /\ Cardinality({a \in Approvals : approval'[a] # NoGrant \/ a \in expired'}) <= scenario.approvals
    /\ revision' <= scenario.revisions

MCToolInit == ToolInit /\ scenario \in Scenarios

MCToolSpec == MCToolInit /\ [][ToolNext /\ InScenario /\ UNCHANGED scenario]_<<toolVars, scenario>>

MCAction == [r \in Requests |-> IF r = again THEN patch ELSE r]

MCSymmetry == Permutations(Executions) \cup Permutations(Approvals) \cup Permutations({patch, again})
=============================================================================
