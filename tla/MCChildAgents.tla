---------------------------- MODULE MCChildAgents ---------------------------
(* The root's child `outer`, with a child `inner` of its own.  A behaviour   *)
(* belongs to one scenario: the root sends two messages to `outer`; `inner`  *)
(* runs too and sends one, or is sent one by `outer`, which then waits for   *)
(* no result; or `outer` may be stopped, deleted or no longer waited for,    *)
(* while it is sent a message or while it has a child.  Where both run, only *)
(* `inner` is waited for.                                                    *)
EXTENDS ChildAgents

CONSTANTS outer, inner, m1, m2, reply, ask

VARIABLE scenario

MCParentOf == [c \in Children |-> IF c = outer THEN Root ELSE outer]
MCFrom == [m \in Messages |-> IF m = reply THEN inner ELSE IF m = ask THEN outer ELSE Root]
MCTo == [m \in Messages |-> IF m = ask THEN inner ELSE outer]

Scenarios ==
    {[spawned |-> {outer}, sent |-> {m1, m2}, stopped |-> {}, waited |-> Children],
     [spawned |-> {outer, inner}, sent |-> {reply}, stopped |-> {}, waited |-> {inner}],
     [spawned |-> {outer, inner}, sent |-> {ask}, stopped |-> {}, waited |-> {}],
     [spawned |-> {outer}, sent |-> {m1}, stopped |-> {outer}, waited |-> Children],
     [spawned |-> {outer, inner}, sent |-> {}, stopped |-> {outer}, waited |-> {inner}]}

InScenario ==
    /\ \A c \in Children \ scenario.spawned : child'[c] = NoChild
    /\ \A m \in Messages \ scenario.sent : send'[m] = "idle"
    /\ \A c \in Children \ scenario.waited : wait'[c] = "none"
    /\ \A c \in ChildrenOf(Root) \ scenario.stopped : ~child'[c].token /\ ~child'[c].deleted /\ wait'[c] # "leaving"
    /\ UNCHANGED scenario

MCChildVars == <<childVars, scenario>>

MCChildInit == ChildInit /\ scenario \in Scenarios

MCChildSpec ==
    /\ MCChildInit /\ [][ChildNext /\ InScenario]_MCChildVars
    /\ \A c \in Children : SF_MCChildVars(RunGoesOn(c) /\ InScenario) /\ WF_MCChildVars(WaitStep(c) /\ InScenario)
    /\ \A m \in Messages : WF_MCChildVars(DeliverStep(m) /\ InScenario)
=============================================================================
