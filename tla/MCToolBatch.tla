----------------------------- MODULE MCToolBatch ----------------------------
(* Batches of lookups that run side by side, a patch that runs alone, a      *)
(* question and a task note: three of them in every order that asks for the  *)
(* lookup without effects first, and four with what must wait for a segment  *)
(* of two.                                                                   *)
EXTENDS ToolBatch

CONSTANTS read, lookup, patch, ask, note

MCBatches ==
    {b \in [1..3 -> Requests] :
        \A i, j \in 1..3 : (b[i] = b[j] => i = j) /\ (b[i] = lookup /\ b[j] = read => j < i)}
      \cup {<<read, lookup, patch, ask>>}

MCCalls == 1..4

MCAction == [r \in Requests |-> r]
=============================================================================
