-------------------------------- MODULE Lists --------------------------------
(***************************************************************************)
(* A loop over a list that keeps some of its places (retain, a push under  *)
(* a condition), as a recursive function.                                  *)
(***************************************************************************)
EXTENDS Naturals, Sequences

(* What stands at the places of s that are in I, in their order.            *)
KeepAt(s, I) ==
    LET kept[n \in 0..Len(s)] ==
          IF n = 0 THEN <<>>
          ELSE IF n \in I THEN Append(kept[n - 1], s[n]) ELSE kept[n - 1]
    IN  kept[Len(s)]

(* s without an element.                                                    *)
LeavingOut(s, e) == KeepAt(s, {n \in DOMAIN s : s[n] # e})
=============================================================================
