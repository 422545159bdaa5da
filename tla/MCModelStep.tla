----------------------------- MODULE MCModelStep ----------------------------
(* The model steps of one run on an account that another run charges too,   *)
(* and the ledger by itself: two accounts, two operations, every amount   *)
(* up to three.  A behaviour is about one of the two: with part = "ledger"  *)
(* no host calls run_inner.                                                 *)
EXTENDS ModelStep

CONSTANTS a1, a2, o1, o2

VARIABLE part

MCCalls == (1..MaxCalls) \X (1..MaxAttempts)
MCOperations == {o1, o2} \cup MCCalls
MCTokens == 0..3

MCStepVars == <<stepVars, part>>

MCStepInit ==
    /\ RunInit
    /\ \/ part = "ledger" /\ BudgetInit
       \/ part = "run" /\ AccountOpened

Untouched(S) == \A o \in S : reservation'[o] = reservation[o]

LedgerMoves ==
    /\ part = "ledger" /\ BudgetNext /\ Untouched(MCCalls)
    /\ UNCHANGED <<generation, runVars, worker, dispatched, part>>

RunMoves == part = "run" /\ StepNext /\ Untouched({o2}) /\ UNCHANGED part

MCStepSpec ==
    /\ MCStepInit /\ [][LedgerMoves \/ RunMoves]_MCStepVars
    /\ \A h \in Hosts : WF_MCStepVars(part = "run" /\ CallStep(h) /\ UNCHANGED part)
=============================================================================
