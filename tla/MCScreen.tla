------------------------------ MODULE MCScreen ------------------------------
(* A behaviour belongs to one scenario: a long session in which only turns   *)
(* ask for approval and are stopped, or a short one with a child in the      *)
(* background, a lookup and questions of the turn.                           *)
EXTENDS SessionScreen

VARIABLE scenario

Scenarios ==
    {[children |-> {}, asks |-> 3, typed |-> 4, lookups |-> 0, questions |-> FALSE],
     [children |-> Children, asks |-> 1, typed |-> 2, lookups |-> 1, questions |-> TRUE]}

InScenario ==
    /\ \A c \in Children \ scenario.children : child'[c] # "gone" /\ asked'[c] = 0
    /\ \A a \in Children \cup {Root} : asked'[a] <= scenario.asks
    /\ typed' <= scenario.typed /\ lookups'.made <= scenario.lookups
    /\ (\E i \in DOMAIN events' : events'[i].kind = "question") \/ ending'.early => scenario.questions
    /\ UNCHANGED scenario

MCScreenVars == <<screenVars, scenario>>

MCScreenInit == ScreenInit /\ scenario \in Scenarios

MCScreenSpec ==
    /\ MCScreenInit /\ [][ScreenNext /\ InScenario]_MCScreenVars
    /\ WF_MCScreenVars(HandleEvent /\ InScenario) /\ WF_MCScreenVars(DeliverWaiting /\ InScenario)
    /\ WF_MCScreenVars(TurnMoves /\ InScenario)
    /\ WF_MCScreenVars((\E r \in waiting : ApprovalTimesOut(r)) /\ InScenario)
=============================================================================
