----------------------------- MODULE TurnProofs ----------------------------
(***************************************************************************)
(* Proofs about TurnSteering: the messages of a turn are handed over once, *)
(* in the order of their rows, whatever the bounds and however many the    *)
(* messages are, and what was counted in time is read.  Then about the     *)
(* tools a turn calls: about ToolGate, for any number of executions,       *)
(* requests, approvals, hosts and policy revisions, and about ToolBatch,   *)
(* for any batch of calls.                                                 *)
(***************************************************************************)
EXTENDS TurnSteering, ToolBatch, FiniteSetTheorems, FunctionTheorems, SequenceTheorems, TLAPS

Rowed(q, m) == \E i \in DOMAIN q : q[i] = m

(* In the queue q, m has a row before that of n.                            *)
Earlier(q, m, n) == \E i, j \in DOMAIN q : i < j /\ q[i] = m /\ q[j] = n

Ascends(q, s) == \A i, j \in DOMAIN s : i < j => Earlier(q, s[i], s[j])
Precedes(q, s, t) == \A i \in DOMAIN s, j \in DOMAIN t : Earlier(q, s[i], t[j])

(* The messages of what was put in front of the model.                      *)
Shown(sn) == [i \in DOMAIN sn |-> sn[i].message]

Has(s, m) == \E i \in DOMAIN s : s[i] = m

Taken == {"claimed", "delivered", "carried"}

(* All of s have a row in q, which is taken.                                *)
AllTaken(q, r, s) == \A i \in DOMAIN s : Rowed(q, s[i]) /\ r[s[i]] \in Taken

(* The loop has a step left wherever it may still call the model, and its   *)
(* counters stay within their bounds until it stops.                        *)
LoopHasRoom ==
    /\ pc \in {"hook", "batch", "late", "canceling", "results"} => steps < MaxSteps
    /\ stop = "none" <=> pc \notin {"stopped", "waiting", "sweeping", "ended"}
    /\ stop = "none" => noProgress <= MaxNoProgress
    /\ active <=> pc \notin {"waiting", "sweeping", "ended"}
    /\ sweep # "none" => pc \in {"sweeping", "ended"}

(* A message has one row, from when its sender inserted it.                 *)
RowsAreOfSenders ==
    /\ \A i, j \in DOMAIN queue : queue[i] = queue[j] => i = j
    /\ \A m \in Messages : row[m] # "none" <=> Rowed(queue, m)
    /\ \A m \in Messages : row[m] # "none" <=> sender[m] \in {"inserted", "done"}
    /\ \A m \in Cancels : sender[m] \in {"idle", "done"}

(* What is pending is the end of the queue.                                 *)
PendingIsLast ==
    \A i, j \in DOMAIN queue : i < j /\ row[queue[i]] = "pending" => row[queue[j]] = "pending"

HandedInOrder ==
    /\ Ascends(queue, Shown(seen)) /\ Ascends(queue, held) /\ Ascends(queue, carried)
    /\ Precedes(queue, Shown(seen), held) /\ Precedes(queue, Shown(seen), carried)

HandedIsTaken ==
    /\ AllTaken(queue, row, Shown(seen)) /\ AllTaken(queue, row, held)
    /\ pc # "ended" => carried = <<>>

(* What is held waits for the next call, which no message has reached.      *)
HeldIsNext ==
    /\ pc \in {"model", "final", "hook", "tools"} => held = <<>>
    /\ \A i \in DOMAIN seen : seen[i].step <= steps
    /\ ~allAtOnce => Len(held) <= 1 /\ \A i, j \in DOMAIN seen : seen[i].step = seen[j].step => i = j

DeliveredIsHanded ==
    /\ stop = "none" => \A m \in Delivered : Has(Shown(seen), m) \/ Has(held, m)
    /\ pc = "canceling" => \E m \in Cancels : row[m] = "delivered"
    /\ stop # "none" /\ ~DroppingStop => \A m \in Delivered : Has(Shown(seen), m)

CarryHadRoom ==
    Cardinality({m \in Messages : row[m] = "carried" \/ (m \in Cancels /\ row[m] = "claimed")}) < CarryLimit

(* What was counted in time is on its way, refused, or has a row that is    *)
(* taken in the end.                                                        *)
CountedIsKept ==
    /\ \A m \in onTime : m \notin Cancels /\ sender[m] \notin {"idle", "picked"}
    /\ sweep = "waited" => \A m \in onTime : sender[m] \in {"done", "failed"}
    /\ \A m \in Messages \ Cancels : row[m] = "claimed" => stop = "Error"
    /\ Ended /\ sweep = "waited" /\ CarryHadRoom => \A m \in onTime : row[m] # "pending"

TurnIInv ==
    /\ TurnTypeOK /\ LoopHasRoom /\ RowsAreOfSenders /\ PendingIsLast /\ HandedInOrder /\ HandedIsTaken
    /\ HeldIsNext /\ DeliveredIsHanded /\ CountedIsKept

-----------------------------------------------------------------------------
(* Selecting from a sequence.                                               *)

UpTo(S, i) == {j \in S : j <= i}

(* Of finitely many numbers each has a number of its own of them up to it,  *)
(* and each count up to all of them is some number's (the rowids of SQLite).*)
LEMMA RankIsBijective ==
    ASSUME NEW k \in Nat, NEW S, S \subseteq 1..k
    PROVE  /\ IsFiniteSet(S) /\ Cardinality(S) \in Nat
           /\ \A i \in S : Cardinality(UpTo(S, i)) \in 1..Cardinality(S)
           /\ \A i, j \in S : i < j => Cardinality(UpTo(S, i)) < Cardinality(UpTo(S, j))
           /\ \A n \in 1..Cardinality(S) : \E i \in S : Cardinality(UpTo(S, i)) = n
<1> DEFINE rank == [i \in S |-> Cardinality(UpTo(S, i))]
<1>0. \A x \in S : x \in Int
  OBVIOUS
<1>1. IsFiniteSet(1..k)
  BY FS_Interval
<1>2. IsFiniteSet(S) /\ Cardinality(S) \in Nat
  BY <1>1, FS_Subset, FS_CardinalityType
<1>3. ASSUME NEW i \in S
      PROVE  /\ IsFiniteSet(UpTo(S, i)) /\ Cardinality(UpTo(S, i)) \in Nat
             /\ Cardinality(UpTo(S, i)) <= Cardinality(S) /\ Cardinality(UpTo(S, i)) # 0
  <2>1. UpTo(S, i) \in SUBSET S /\ i \in UpTo(S, i)
    BY <1>0 DEF UpTo
  <2>2. IsFiniteSet(UpTo(S, i)) /\ Cardinality(UpTo(S, i)) <= Cardinality(S)
    BY <1>2, <2>1, FS_Subset
  <2> QED BY <2>1, <2>2, FS_EmptySet, FS_CardinalityType
<1>4. \A i \in S : Cardinality(UpTo(S, i)) \in 1..Cardinality(S)
  BY <1>2, <1>3
<1>5. ASSUME NEW i \in S, NEW j \in S, i < j
      PROVE  Cardinality(UpTo(S, i)) < Cardinality(UpTo(S, j))
  <2> i \in Int /\ j \in Int
    BY <1>0
  <2>1a. \A x \in Int : x <= i => x <= j
    BY <1>5
  <2>1b. UpTo(S, i) \in SUBSET UpTo(S, j)
    BY <1>0, <2>1a DEF UpTo
  <2>1c. j <= j /\ ~(j <= i)
    BY <1>5
  <2>1. UpTo(S, i) \in SUBSET UpTo(S, j) /\ j \in UpTo(S, j) /\ j \notin UpTo(S, i)
    BY <2>1b, <2>1c DEF UpTo
  <2>2. Cardinality(UpTo(S, i)) <= Cardinality(UpTo(S, j)) /\ Cardinality(UpTo(S, i)) # Cardinality(UpTo(S, j))
    BY <1>3, <2>1, FS_Subset
  <2> QED BY <1>3, <2>2
<1>6. rank \in Injection(S, 1..Cardinality(S))
  <2>1. rank \in [S -> 1..Cardinality(S)]
    BY <1>4
  <2>2. \A i, j \in S : rank[i] = rank[j] => i = j
    BY <1>3, <1>5
  <2> QED BY <2>1, <2>2, Fun_IsInj
<1>7. IsFiniteSet(1..Cardinality(S)) /\ Cardinality(1..Cardinality(S)) = Cardinality(S)
  BY <1>2, FS_Interval
<1>8. rank \in Surjection(S, 1..Cardinality(S))
  BY <1>6, <1>7, FS_Injection
<1>9. \A n \in 1..Cardinality(S) : \E i \in S : rank[i] = n
  BY <1>8 DEF Surjection
<1> QED BY <1>2, <1>4, <1>5, <1>9

(* Nth numbers the members of a set in their order.                          *)
LEMMA NthIs ==
    ASSUME NEW k \in Nat, NEW S, S \subseteq 1..k
    PROVE  /\ Cardinality(S) \in Nat
           /\ \A n \in 1..Cardinality(S) : Nth(S, n) \in S
           /\ \A m, n \in 1..Cardinality(S) : m < n => Nth(S, m) < Nth(S, n)
           /\ \A i \in S : \E n \in 1..Cardinality(S) : Nth(S, n) = i
<1>1. ASSUME NEW n \in 1..Cardinality(S)
      PROVE  Nth(S, n) \in S /\ Cardinality(UpTo(S, Nth(S, n))) = n
  <2>1. \E i \in S : Cardinality(UpTo(S, i)) = n
    BY RankIsBijective
  <2>2. Nth(S, n) = CHOOSE i \in S : Cardinality(UpTo(S, i)) = n
    BY DEF Nth, UpTo
  <2> QED BY <2>1, <2>2
<1>0a. \A x \in S : x \in Int
  OBVIOUS
<1>0. /\ Cardinality(S) \in Nat /\ \A x \in S : x \in Int
      /\ \A i \in S : Cardinality(UpTo(S, i)) \in 1..Cardinality(S)
      /\ \A i, j \in S : i < j => Cardinality(UpTo(S, i)) < Cardinality(UpTo(S, j))
  <2>1. /\ Cardinality(S) \in Nat
        /\ \A i \in S : Cardinality(UpTo(S, i)) \in 1..Cardinality(S)
        /\ \A i, j \in S : i < j => Cardinality(UpTo(S, i)) < Cardinality(UpTo(S, j))
    BY ONLY RankIsBijective, k \in Nat, S \subseteq 1..k
  <2> QED BY <1>0a, <2>1
<1>2. ASSUME NEW m \in 1..Cardinality(S), NEW n \in 1..Cardinality(S), m < n
      PROVE  Nth(S, m) < Nth(S, n)
  <2> DEFINE a == Nth(S, m)
             b == Nth(S, n)
  <2>0. /\ a \in S /\ Cardinality(UpTo(S, a)) = m
        /\ b \in S /\ Cardinality(UpTo(S, b)) = n
    BY <1>1
  <2> HIDE DEF a, b
  <2>1. a \in Int /\ b \in Int /\ m \in Int /\ n \in Int
    BY <1>0, <2>0
  <2>2. b # a /\ ~(b < a)
    BY <1>0, <1>2, <2>0, <2>1
  <2>3. a < b
    BY <2>1, <2>2
  <2> QED BY <2>3 DEF a, b
<1>3. ASSUME NEW i \in S
      PROVE  \E n \in 1..Cardinality(S) : Nth(S, n) = i
  <2> DEFINE n == Cardinality(UpTo(S, i))
  <2>1. n \in 1..Cardinality(S)
    BY <1>0
  <2>2. Nth(S, n) \in S /\ Cardinality(UpTo(S, Nth(S, n))) = n
    BY <1>1, <2>1
  <2> DEFINE a == Nth(S, n)
  <2>a. a \in S /\ Cardinality(UpTo(S, a)) = Cardinality(UpTo(S, i))
    BY <2>2
  <2> HIDE DEF a
  <2>b. a \in Int /\ i \in Int /\ Cardinality(UpTo(S, i)) \in Int
    BY <1>0, <2>a, <2>1
  <2>3. ~(a < i) /\ ~(i < a)
    BY <1>0, <2>a, <2>b
  <2>4. Nth(S, n) = i
    BY <2>3, <2>b DEF a
  <2> QED BY <2>1, <2>4
<1> QED BY <1>1, <1>2, <1>3, RankIsBijective

(* Selected keeps the order of the sequence, and has all that was selected.  *)
LEMMA SelectedIs ==
    ASSUME NEW D, NEW s \in Seq(D), NEW S, S \subseteq DOMAIN s
    PROVE  /\ Selected(s, S) \in Seq(D) /\ Len(Selected(s, S)) = Cardinality(S) /\ Cardinality(S) \in Nat
           /\ \A n \in 1..Cardinality(S) : Nth(S, n) \in S /\ Selected(s, S)[n] = s[Nth(S, n)]
           /\ \A m, n \in 1..Cardinality(S) : m < n => Nth(S, m) < Nth(S, n)
           /\ \A i \in S : \E n \in 1..Cardinality(S) : Nth(S, n) = i
<1>1. Len(s) \in Nat /\ DOMAIN s = 1..Len(s) /\ \A i \in DOMAIN s : s[i] \in D
  BY LenProperties
<1>2. /\ Cardinality(S) \in Nat
      /\ \A n \in 1..Cardinality(S) : Nth(S, n) \in S
      /\ \A m, n \in 1..Cardinality(S) : m < n => Nth(S, m) < Nth(S, n)
      /\ \A i \in S : \E n \in 1..Cardinality(S) : Nth(S, n) = i
  BY <1>1, NthIs
<1>3. Selected(s, S) \in [1..Cardinality(S) -> D]
  BY <1>1, <1>2 DEF Selected
<1>4. Selected(s, S) \in Seq(D) /\ Len(Selected(s, S)) = Cardinality(S)
  BY <1>2, <1>3
<1>5. \A n \in 1..Cardinality(S) : Selected(s, S)[n] = s[Nth(S, n)]
  BY DEF Selected
<1> QED BY <1>2, <1>4, <1>5

(* The texts among commands, in their order.                                 *)
LEMMA TextsIs ==
    ASSUME NEW commands \in Seq(Messages)
    PROVE  /\ Texts(commands) \in Seq(Messages) /\ Len(Texts(commands)) <= Len(commands)
           /\ Ascends(queue, commands) => Ascends(queue, Texts(commands))
           /\ \A i \in DOMAIN Texts(commands) : \E j \in DOMAIN commands : Texts(commands)[i] = commands[j]
           /\ \A j \in DOMAIN commands : commands[j] \in Cancels \/ \E i \in DOMAIN Texts(commands) : Texts(commands)[i] = commands[j]
<1> DEFINE S == {i \in DOMAIN commands : commands[i] \notin Cancels}
<1>1. Len(commands) \in Nat /\ DOMAIN commands = 1..Len(commands)
  BY LenProperties
<1>2. Texts(commands) = Selected(commands, S) /\ S \subseteq DOMAIN commands
  BY DEF Texts
<1> HIDE DEF S
<1>3. /\ Texts(commands) \in Seq(Messages) /\ Len(Texts(commands)) = Cardinality(S) /\ Cardinality(S) \in Nat
      /\ \A n \in 1..Cardinality(S) : Nth(S, n) \in S /\ Texts(commands)[n] = commands[Nth(S, n)]
      /\ \A m, n \in 1..Cardinality(S) : m < n => Nth(S, m) < Nth(S, n)
      /\ \A i \in S : \E n \in 1..Cardinality(S) : Nth(S, n) = i
  BY <1>2, SelectedIs
<1>4. Cardinality(S) <= Len(commands)
  <2>1. IsFiniteSet(1..Len(commands)) /\ Cardinality(1..Len(commands)) = Len(commands)
    <3>1. 1 \in Int /\ Len(commands) \in Int
      BY <1>1
    <3>2. /\ IsFiniteSet(1..Len(commands))
          /\ Cardinality(1..Len(commands)) = IF 1 > Len(commands) THEN 0 ELSE Len(commands) - 1 + 1
      BY <3>1, FS_Interval
    <3> QED BY <1>1, <3>2
  <2> QED BY <1>1, <1>2, <2>1, FS_Subset
<1>5. DOMAIN Texts(commands) = 1..Cardinality(S)
  BY <1>3, LenProperties
<1>6. Ascends(queue, commands) => Ascends(queue, Texts(commands))
  BY <1>2, <1>3, <1>5 DEF Ascends
<1>7. \A i \in DOMAIN Texts(commands) : \E j \in DOMAIN commands : Texts(commands)[i] = commands[j]
  BY <1>2, <1>3, <1>5
<1>8. \A j \in DOMAIN commands : commands[j] \in Cancels \/ \E i \in DOMAIN Texts(commands) : Texts(commands)[i] = commands[j]
  BY <1>3, <1>5 DEF S
<1> QED BY <1>3, <1>4, <1>6, <1>7, <1>8

(* A claim has the oldest pending rows, and all of them if it has room.      *)
LEMMA ClaimIs ==
    ASSUME NEW limit \in Nat, queue \in Seq(Messages)
    PROVE  /\ Claim(limit) \in Seq(Messages) /\ Len(Claim(limit)) <= limit
           /\ Ascends(queue, Claim(limit))
           /\ \A i \in DOMAIN Claim(limit) : Rowed(queue, Claim(limit)[i]) /\ row[Claim(limit)[i]] = "pending"
           /\ \A m : Rowed(queue, m) /\ row[m] = "pending" /\ ~Has(Claim(limit), m) =>
                /\ Len(Claim(limit)) = limit
                /\ \A i \in DOMAIN Claim(limit) : Earlier(queue, Claim(limit)[i], m)
<1> DEFINE S == {i \in DOMAIN queue : row[queue[i]] = "pending"}
           all == Selected(queue, S)
           n == IF Len(all) < limit THEN Len(all) ELSE limit
<1>1. Claim(limit) = SubSeq(all, 1, n) /\ S \subseteq DOMAIN queue
  BY DEF Claim, Prefix
<1>2. \A i \in S : i \in DOMAIN queue /\ row[queue[i]] = "pending"
  OBVIOUS
<1>2a. \A i \in DOMAIN queue : row[queue[i]] = "pending" => i \in S
  OBVIOUS
<1> HIDE DEF S
<1>3. /\ all \in Seq(Messages) /\ Len(all) = Cardinality(S) /\ Cardinality(S) \in Nat
      /\ \A j \in 1..Cardinality(S) : Nth(S, j) \in S /\ all[j] = queue[Nth(S, j)]
      /\ \A i, j \in 1..Cardinality(S) : i < j => Nth(S, i) < Nth(S, j)
      /\ \A i \in S : \E j \in 1..Cardinality(S) : Nth(S, j) = i
  BY <1>1, SelectedIs
<1> HIDE DEF all
<1>4. n \in Nat /\ n <= Cardinality(S) /\ n <= limit /\ (n # limit => n = Cardinality(S))
  BY <1>3
<1> HIDE DEF n
<1>5. \A i \in 1..n : all[i] \in Messages
  BY <1>3, <1>4, LenProperties
<1>6. /\ SubSeq(all, 1, n) \in Seq(Messages) /\ Len(SubSeq(all, 1, n)) = (IF 1 <= n THEN n - 1 + 1 ELSE 0)
      /\ \A i \in 1..(n - 1 + 1) : SubSeq(all, 1, n)[i] = all[1 + i - 1]
  BY <1>4, <1>5, SubSeqProperties
<1>7. /\ Claim(limit) \in Seq(Messages) /\ Len(Claim(limit)) = n /\ DOMAIN Claim(limit) = 1..n
      /\ \A i \in 1..n : Claim(limit)[i] = all[i]
  BY <1>1, <1>4, <1>6, LenProperties
<1>8. \A i \in 1..n : Claim(limit)[i] = queue[Nth(S, i)] /\ Nth(S, i) \in S
  BY <1>3, <1>4, <1>7
<1>9. Ascends(queue, Claim(limit))
  <2> SUFFICES ASSUME NEW i \in 1..n, NEW j \in 1..n, i < j
               PROVE  Earlier(queue, Claim(limit)[i], Claim(limit)[j])
    BY <1>7 DEF Ascends
  <2>1. i \in 1..Cardinality(S) /\ j \in 1..Cardinality(S)
    BY <1>3, <1>4
  <2>2. Nth(S, i) < Nth(S, j) /\ Nth(S, i) \in DOMAIN queue /\ Nth(S, j) \in DOMAIN queue
    BY <1>1, <1>3, <2>1
  <2> QED BY <1>8, <2>2 DEF Earlier
<1>10. \A i \in DOMAIN Claim(limit) : Rowed(queue, Claim(limit)[i]) /\ row[Claim(limit)[i]] = "pending"
  BY <1>2, <1>7, <1>8 DEF Rowed
<1>11. ASSUME NEW m, Rowed(queue, m), row[m] = "pending", ~Has(Claim(limit), m)
       PROVE  n = limit /\ \A i \in DOMAIN Claim(limit) : Earlier(queue, Claim(limit)[i], m)
  <2>1. PICK p \in DOMAIN queue : queue[p] = m
    BY <1>11 DEF Rowed
  <2>2. PICK j \in 1..Cardinality(S) : Nth(S, j) = p
    BY <1>2a, <1>3, <1>11, <2>1
  <2>3. j \notin 1..n
    BY <1>7, <1>8, <1>11, <2>1, <2>2 DEF Has
  <2>4. n < j
    BY <1>3, <1>4, <2>3
  <2>5. \A i \in 1..n : Nth(S, i) < p /\ Nth(S, i) \in DOMAIN queue
    BY <1>1, <1>3, <1>4, <1>8, <2>2, <2>4
  <2> QED BY <1>3, <1>4, <1>7, <1>8, <2>1, <2>4, <2>5 DEF Earlier
<1> QED BY <1>4, <1>7, <1>9, <1>10, <1>11

-----------------------------------------------------------------------------
(* The steps of the loop.                                                   *)

(* The next call has the messages at the end, under a step of its own.      *)
LEMMA NextCallIs ==
    ASSUME TurnTypeOK, steps < MaxSteps, NEW messages \in Seq(Messages), NextCall(messages)
    PROVE  /\ seen' \in Seq([step: 1..MaxSteps, message: Messages]) /\ held' = <<>> /\ steps' = steps + 1
           /\ DOMAIN seen = 1..Len(seen) /\ DOMAIN seen' = 1..(Len(seen) + Len(messages))
           /\ Len(seen) \in Nat /\ Len(messages) \in Nat
           /\ \A i \in 1..Len(seen) : seen'[i] = seen[i]
           /\ \A i \in 1..Len(messages) :
                seen'[Len(seen) + i].step = steps + 1 /\ seen'[Len(seen) + i].message = messages[i]
<1> USE TurnAssumption
<1> DEFINE R == [step: 1..MaxSteps, message: Messages]
           next == [i \in DOMAIN messages |-> [step |-> steps + 1, message |-> messages[i]]]
<1>1. /\ Len(messages) \in Nat /\ DOMAIN messages = 1..Len(messages)
      /\ \A i \in 1..Len(messages) : messages[i] \in Messages
  BY LenProperties
<1>2. steps + 1 \in 1..MaxSteps
  BY DEF TurnTypeOK
<1>3. next \in [1..Len(messages) -> R]
  BY <1>1, <1>2
<1>4. next \in Seq(R) /\ Len(next) = Len(messages)
  BY <1>1, <1>3
<1>5. seen \in Seq(R) /\ seen' = seen \o next
  BY DEF TurnTypeOK, NextCall
<1>5a. \A i \in 1..Len(messages) : next[i].step = steps + 1 /\ next[i].message = messages[i]
  BY <1>1
<1> HIDE DEF next
<1>6. /\ Len(seen) \in Nat /\ DOMAIN seen = 1..Len(seen)
      /\ seen' \in Seq(R) /\ Len(seen') = Len(seen) + Len(messages)
      /\ \A i \in 1..(Len(seen) + Len(messages)) : seen'[i] = IF i <= Len(seen) THEN seen[i] ELSE next[i - Len(seen)]
  <2>1. Len(seen) \in Nat /\ DOMAIN seen = 1..Len(seen)
    BY <1>5, LenProperties
  <2>2. /\ seen' \in Seq(R) /\ Len(seen') = Len(seen) + Len(next)
        /\ \A i \in 1..(Len(seen) + Len(next)) : seen'[i] = IF i <= Len(seen) THEN seen[i] ELSE next[i - Len(seen)]
    <3> HIDE DEF R
    <3>1. /\ seen \o next \in Seq(R) /\ Len(seen \o next) = Len(seen) + Len(next)
          /\ \A i \in 1..(Len(seen) + Len(next)) : (seen \o next)[i] = IF i <= Len(seen) THEN seen[i] ELSE next[i - Len(seen)]
      BY ONLY <1>4, <1>5, ConcatProperties
    <3> QED BY <1>5, <3>1
  <2> QED BY <1>4, <2>1, <2>2
<1>7. DOMAIN seen' = 1..(Len(seen) + Len(messages))
  BY <1>6, LenProperties
<1>8. \A i \in 1..Len(seen) : seen'[i] = seen[i]
  BY <1>1, <1>6
<1>9. ASSUME NEW i \in 1..Len(messages)
      PROVE  seen'[Len(seen) + i] = next[i]
  <2>1. Len(seen) + i \in 1..(Len(seen) + Len(messages)) /\ ~(Len(seen) + i <= Len(seen)) /\ Len(seen) + i - Len(seen) = i
    BY <1>1, <1>6
  <2>2. seen'[Len(seen) + i] = IF Len(seen) + i <= Len(seen) THEN seen[Len(seen) + i] ELSE next[Len(seen) + i - Len(seen)]
    <3> DEFINE j == Len(seen) + i
    <3>1. j \in 1..(Len(seen) + Len(messages))
      BY <2>1
    <3> HIDE DEF j
    <3>2. seen'[j] = IF j <= Len(seen) THEN seen[j] ELSE next[j - Len(seen)]
      BY ONLY <3>1, <1>6
    <3> QED BY <3>2 DEF j
  <2> QED BY <2>1, <2>2
<1>10. held' = <<>> /\ steps' = steps + 1
  BY DEF NextCall
<1> QED BY <1>1, <1>5a, <1>6, <1>7, <1>8, <1>9, <1>10

(* Rows are taken: the oldest pending ones.                                  *)
Takes ==
    \E limit \in Nat : \A m \in Messages :
        IF Has(Claim(limit), m) THEN row'[m] \in Taken ELSE row'[m] = row[m]

LEMMA NoRowIsTaken ==
    ASSUME TurnTypeOK, UNCHANGED row
    PROVE  Takes
<1>1. Claim(0) \in Seq(Messages) /\ Len(Claim(0)) <= 0
  BY ClaimIs DEF TurnTypeOK
<1>2. DOMAIN Claim(0) = {}
  BY <1>1, LenProperties
<1> QED BY <1>2 DEF Takes, Has

StepBatchIsNat == StepBatch \in Nat /\ (~allAtOnce => StepBatch = 1)

LEMMA StepBatchFact == StepBatchIsNat
  BY TurnAssumption DEF StepBatchIsNat, StepBatch

LEMMA ApplyTakes ==
    ASSUME TurnTypeOK, NEW limit \in Nat, Apply(Claim(limit), "delivered")
    PROVE  Takes /\ row' \in [Messages -> {"none", "pending", "claimed", "delivered", "carried"}]
  BY DEF Takes, Apply, Has, Taken, TurnTypeOK

LEMMA ClaimFailsTakes ==
    ASSUME TurnTypeOK, ClaimFails
    PROVE  Takes /\ row' \in [Messages -> {"none", "pending", "claimed", "delivered", "carried"}]
<1> DEFINE c == Claim(StepBatch)
<1>1. CASE UNCHANGED row
  BY <1>1, NoRowIsTaken DEF TurnTypeOK
<1>2. CASE \E n \in 0..(Len(c) - 1) :
              row' = [m \in Messages |->
                        IF \E i \in 1..n : c[i] = m THEN "delivered"
                        ELSE IF \E i \in (n + 1)..Len(c) : c[i] = m THEN "claimed"
                        ELSE row[m]]
  <2>1. StepBatch \in Nat /\ c \in Seq(Messages)
    BY StepBatchFact, ClaimIs DEF TurnTypeOK, StepBatchIsNat
  <2> HIDE DEF c
  <2>2. Len(c) \in Nat /\ DOMAIN c = 1..Len(c)
    BY <2>1, LenProperties
  <2>3. PICK n \in 0..(Len(c) - 1) :
              row' = [m \in Messages |->
                        IF \E i \in 1..n : c[i] = m THEN "delivered"
                        ELSE IF \E i \in (n + 1)..Len(c) : c[i] = m THEN "claimed"
                        ELSE row[m]]
    BY <1>2
  <2>4. row' \in [Messages -> {"none", "pending", "claimed", "delivered", "carried"}]
    BY <2>3 DEF TurnTypeOK
  <2>5. ASSUME NEW m \in Messages
        PROVE  IF Has(c, m) THEN row'[m] \in Taken ELSE row'[m] = row[m]
    <3>1. CASE Has(c, m)
      <4>1. PICK i \in 1..Len(c) : c[i] = m
        BY <2>2, <3>1 DEF Has
      <4>2. i \in 1..n \/ i \in (n + 1)..Len(c)
        BY <2>2
      <4> QED BY <2>3, <3>1, <4>1, <4>2 DEF Taken
    <3>2. CASE ~Has(c, m)
      <4>1. \A i \in 1..Len(c) : c[i] # m
        BY <2>2, <3>2 DEF Has
      <4>2. \A i \in 1..n : i \in 1..Len(c)
        BY <2>2
      <4>3. \A i \in (n + 1)..Len(c) : i \in 1..Len(c)
        BY <2>2
      <4> QED BY <2>3, <3>2, <4>1, <4>2, <4>3
    <3> QED BY <3>1, <3>2
  <2> QED BY <2>1, <2>4, <2>5 DEF Takes, c
<1> QED BY <1>1, <1>2 DEF ClaimFails

LEMMA CarryTakes ==
    ASSUME TurnTypeOK, Carry
    PROVE  Takes /\ row' \in [Messages -> {"none", "pending", "claimed", "delivered", "carried"}]
<1> DEFINE c == Claim(CarryLimit)
<1>1. row' = [m \in Messages |->
                IF \A i \in DOMAIN c : c[i] # m THEN row[m]
                ELSE IF m \in Cancels THEN "claimed" ELSE "carried"]
  BY DEF Carry
<1>2. CarryLimit \in Nat
  BY TurnAssumption
<1> HIDE DEF c
<1>3. row' \in [Messages -> {"none", "pending", "claimed", "delivered", "carried"}]
  BY <1>1 DEF TurnTypeOK
<1>4. \A m \in Messages : IF Has(c, m) THEN row'[m] \in Taken ELSE row'[m] = row[m]
  BY <1>1 DEF Has, Taken
<1> QED BY <1>2, <1>3, <1>4 DEF Takes, c

(* Each step of the loop takes the oldest pending rows, or none.             *)
LEMMA LoopTakes ==
    ASSUME TurnTypeOK, LoopStep
    PROVE  /\ Takes /\ row' \in [Messages -> {"none", "pending", "claimed", "delivered", "carried"}]
           /\ UNCHANGED <<queue, sender, onTime, goal, allAtOnce>>
<1> DEFINE Claims == FinalClaim \/ ClaimCancels \/ EarlyClaim \/ LateClaim
<1>1. CASE Claims
  <2>1. ClaimInbox \/ UNCHANGED row
    BY <1>1 DEF FinalClaim, ClaimCancels, EarlyClaim, LateClaim, inboxVars
  <2>2. UNCHANGED <<queue, sender, onTime, goal, allAtOnce>>
    BY <1>1 DEF FinalClaim, ClaimCancels, EarlyClaim, LateClaim, inboxVars, loopVars, sendVars, ClaimInbox, Stop, NextCall
  <2>3. Takes /\ row' \in [Messages -> {"none", "pending", "claimed", "delivered", "carried"}]
    BY <2>1, StepBatchFact, ApplyTakes, NoRowIsTaken DEF ClaimInbox, StepBatchIsNat, TurnTypeOK
  <2> QED BY <2>2, <2>3
<1>2. CASE ClaimFails
  BY <1>2, ClaimFailsTakes DEF ClaimFails, sendVars, Stop
<1>3. CASE Carry
  BY <1>3, CarryTakes DEF Carry, sendVars, loopVars
<1>4. CASE LoopStep /\ ~Claims /\ ~ClaimFails /\ ~Carry
  <2>1. UNCHANGED <<row, queue, sender, onTime, goal, allAtOnce>>
    BY <1>4 DEF LoopStep, ModelAnswers, GoalStops, GoalNeedsWork, FinalNoStepLeft, SentBack, FinalStop, ToolsStop, LoopDetected,
        BatchStops, RunBatch, LateCancel, ResultsStop, ResultsToModel, GiveUpInbox, WaitForSenders, CarryFails,
        loopVars, inboxVars, sendVars, Stop
  <2> QED BY <2>1, NoRowIsTaken DEF TurnTypeOK
<1> QED BY <1>1, <1>2, <1>3, <1>4

(* Rows are taken for good, the oldest first.                                *)
LEMMA RowsTaken ==
    ASSUME TurnTypeOK, RowsAreOfSenders, PendingIsLast, Takes, UNCHANGED <<queue, sender>>
    PROVE  /\ RowsAreOfSenders' /\ PendingIsLast'
           /\ \A m \in Messages : row'[m] = row[m] \/ (row[m] = "pending" /\ row'[m] \in Taken)
<1>1. PICK limit \in Nat : \A m \in Messages :
        IF Has(Claim(limit), m) THEN row'[m] \in Taken ELSE row'[m] = row[m]
  BY DEF Takes
<1> DEFINE c == Claim(limit)
<1>2. /\ \A i \in DOMAIN c : Rowed(queue, c[i]) /\ row[c[i]] = "pending"
      /\ \A m : Rowed(queue, m) /\ row[m] = "pending" /\ ~Has(c, m) => \A i \in DOMAIN c : Earlier(queue, c[i], m)
  BY ClaimIs DEF TurnTypeOK
<1> HIDE DEF c
<1>3. \A m \in Messages : IF Has(c, m) THEN row'[m] \in Taken /\ row[m] = "pending" ELSE row'[m] = row[m]
  BY <1>1, <1>2 DEF c, Has
<1>4. \A i \in DOMAIN queue : queue[i] \in Messages
  BY LenProperties DEF TurnTypeOK
<1>5. RowsAreOfSenders'
  <2>1. \A m \in Messages : row'[m] # "none" <=> row[m] # "none"
    BY <1>3 DEF Taken
  <2>2. \A m \in Messages : Rowed(queue', m) <=> Rowed(queue, m)
    BY DEF Rowed
  <2> QED BY <2>1, <2>2 DEF RowsAreOfSenders
<1>6. PendingIsLast'
  <2> SUFFICES ASSUME NEW i \in DOMAIN queue, NEW j \in DOMAIN queue, i < j, row'[queue[i]] = "pending"
               PROVE  row'[queue[j]] = "pending"
    BY DEF PendingIsLast
  <2>1. row[queue[i]] = "pending" /\ ~Has(c, queue[i])
    BY <1>3, <1>4 DEF Taken
  <2>2. row[queue[j]] = "pending"
    BY <2>1 DEF PendingIsLast
  <2>3. ~Has(c, queue[j])
    <3> SUFFICES ASSUME NEW x \in DOMAIN c, c[x] = queue[j]
                 PROVE  FALSE
      BY DEF Has
    <3>1. Rowed(queue, queue[i])
      BY DEF Rowed
    <3>2. Earlier(queue, queue[j], queue[i])
      BY <1>2, <2>1, <3>1
    <3>3. PICK p \in DOMAIN queue, q \in DOMAIN queue : p < q /\ queue[p] = queue[j] /\ queue[q] = queue[i]
      BY <3>2 DEF Earlier
    <3>4. p = j /\ q = i
      BY <3>3 DEF RowsAreOfSenders
    <3>5. DOMAIN queue = 1..Len(queue) /\ Len(queue) \in Nat
      BY LenProperties DEF TurnTypeOK
    <3> QED BY <3>3, <3>4, <3>5
  <2> QED BY <1>3, <1>4, <2>2, <2>3
<1> QED BY <1>3, <1>5, <1>6

LoopTypeOK ==
    /\ pc \in {"model", "final", "hook", "tools", "batch", "late", "results",
               "canceling", "stopped", "waiting", "sweeping", "ended"}
    /\ stop \in Stops \cup {"none"} /\ warned \in BOOLEAN /\ active \in BOOLEAN
    /\ steps \in 1..MaxSteps /\ continuations \in 0..MaxContinuations /\ noProgress \in 0..(MaxNoProgress + 1)
    /\ held \in Seq(Messages) /\ seen \in Seq([step: 1..MaxSteps, message: Messages]) /\ carried \in Seq(Messages)
    /\ sweep \in {"none", "waited", "timeout", "failed"}

(* The next call is one of the steps the turn has.                          *)
LEMMA NextCallKeepsType ==
    ASSUME TurnTypeOK, LoopHasRoom, steps < MaxSteps, stop = "none", NEW messages \in Seq(Messages), NextCall(messages),
           UNCHANGED <<stop, warned, endVars>>,
           continuations' \in 0..MaxContinuations, noProgress' \in 0..(MaxNoProgress + 1), noProgress' <= MaxNoProgress
    PROVE  LoopTypeOK' /\ LoopHasRoom'
<1> USE TurnAssumption
<1>1. seen' \in Seq([step: 1..MaxSteps, message: Messages]) /\ held' = <<>> /\ steps' = steps + 1
  BY NextCallIs
<1>2. pc' = "model" /\ held' \in Seq(Messages) /\ steps' \in 1..MaxSteps
  BY <1>1 DEF NextCall, TurnTypeOK
<1>3. LoopHasRoom'
  BY <1>2 DEF LoopHasRoom, endVars
<1> QED BY <1>1, <1>2, <1>3 DEF LoopTypeOK, TurnTypeOK, endVars

LEMMA LoopTypeKept ==
    ASSUME TurnTypeOK, LoopHasRoom, LoopStep
    PROVE  TurnTypeOK' /\ LoopHasRoom'
<1> USE TurnAssumption
<1>1. LoopTypeOK' /\ LoopHasRoom'
  <2>1. CASE ModelAnswers
    BY <2>1 DEF ModelAnswers, Stop, LoopHasRoom, LoopTypeOK, TurnTypeOK, Stops, loopVars, endVars
  <2>2. CASE GoalStops
    BY <2>2 DEF GoalStops, Stop, LoopHasRoom, LoopTypeOK, TurnTypeOK, Stops, loopVars, endVars
  <2>3. CASE \E progressed \in BOOLEAN : GoalNeedsWork(progressed)
    <3>0. PICK progressed \in BOOLEAN : GoalNeedsWork(progressed)
      BY <2>3
    <3>1. /\ pc = "final" /\ UNCHANGED <<warned, endVars>>
          /\ noProgress' = IF progressed THEN 0 ELSE noProgress + 1
      BY <3>0 DEF GoalNeedsWork
    <3>2. stop = "none" /\ noProgress' \in 0..(MaxNoProgress + 1)
      BY <3>1 DEF LoopHasRoom, TurnTypeOK
    <3>3. CASE /\ stop' \in {"NoProgress", "GoalLimit", "BudgetExhausted", "StepLimit"}
               /\ pc' = "stopped" /\ UNCHANGED <<steps, continuations, held, seen>>
      BY <3>1, <3>2, <3>3 DEF LoopHasRoom, LoopTypeOK, TurnTypeOK, Stops, endVars
    <3>4. CASE /\ noProgress' <= MaxNoProgress /\ continuations < MaxContinuations /\ steps < MaxSteps
               /\ continuations' = continuations + 1 /\ NextCall(<<>>) /\ UNCHANGED stop
      <4>1. continuations' \in 0..MaxContinuations
        BY <3>4 DEF TurnTypeOK
      <4>2. <<>> \in Seq(Messages)
        OBVIOUS
      <4> QED BY <3>1, <3>2, <3>4, <4>1, <4>2, NextCallKeepsType
    <3> QED BY <3>0, <3>3, <3>4 DEF GoalNeedsWork
  <2>4. CASE FinalNoStepLeft
    BY <2>4 DEF FinalNoStepLeft, Stop, LoopHasRoom, LoopTypeOK, TurnTypeOK, Stops, loopVars, endVars
  <2>5. CASE FinalClaim
    <3>1. /\ pc = "final" /\ steps < MaxSteps /\ stop = "none" /\ noProgress <= MaxNoProgress
          /\ UNCHANGED <<stop, warned, continuations, noProgress, endVars>>
      BY <2>5 DEF FinalClaim, LoopHasRoom
    <3>2. CASE pc' = "hook" /\ UNCHANGED <<steps, seen, held>>
      BY <3>1, <3>2 DEF LoopHasRoom, LoopTypeOK, TurnTypeOK, endVars
    <3>3. CASE NextCall(Claim(StepBatch))
      <4>1. Claim(StepBatch) \in Seq(Messages)
        BY StepBatchFact, ClaimIs DEF TurnTypeOK, StepBatchIsNat
      <4>2. continuations' \in 0..MaxContinuations /\ noProgress' \in 0..(MaxNoProgress + 1) /\ noProgress' <= MaxNoProgress
        BY <3>1 DEF TurnTypeOK
      <4> QED BY <3>1, <3>3, <4>1, <4>2, NextCallKeepsType
    <3> QED BY <2>5, <3>2, <3>3 DEF FinalClaim
  <2>6. CASE ClaimCancels
    BY <2>6 DEF ClaimCancels, Stop, LoopHasRoom, LoopTypeOK, TurnTypeOK, Stops, endVars
  <2>7. CASE SentBack
    <3>1. /\ steps < MaxSteps /\ stop = "none" /\ UNCHANGED <<stop, warned, endVars>> /\ NextCall(<<>>)
          /\ continuations' \in 0..MaxContinuations /\ noProgress' \in 0..(MaxNoProgress + 1) /\ noProgress' <= MaxNoProgress
      BY <2>7 DEF SentBack, LoopHasRoom, TurnTypeOK
    <3>2. <<>> \in Seq(Messages)
      OBVIOUS
    <3> QED BY <3>1, <3>2, NextCallKeepsType
  <2>8. CASE FinalStop
    BY <2>8 DEF FinalStop, Stop, LoopHasRoom, LoopTypeOK, TurnTypeOK, Stops, loopVars, endVars
  <2>9. CASE ToolsStop
    BY <2>9 DEF ToolsStop, Stop, LoopHasRoom, LoopTypeOK, TurnTypeOK, Stops, loopVars, endVars
  <2>10. CASE EarlyClaim
    <3>1. Claim(StepBatch) \in Seq(Messages)
      BY StepBatchFact, ClaimIs DEF TurnTypeOK, StepBatchIsNat
    <3> QED BY <2>10, <3>1 DEF EarlyClaim, LoopHasRoom, LoopTypeOK, TurnTypeOK, loopVars, endVars
  <2>11. CASE LoopDetected
    BY <2>11 DEF LoopDetected, Stop, LoopHasRoom, LoopTypeOK, TurnTypeOK, Stops, loopVars, endVars
  <2>12. CASE BatchStops
    BY <2>12 DEF BatchStops, Stop, LoopHasRoom, LoopTypeOK, TurnTypeOK, Stops, loopVars, endVars
  <2>13. CASE \E repeated \in BOOLEAN : RunBatch(repeated)
    <3>1. PICK repeated \in BOOLEAN : RunBatch(repeated)
      BY <2>13
    <3>2. warned' \in BOOLEAN
      BY <3>1 DEF RunBatch, TurnTypeOK
    <3> QED BY <3>1, <3>2 DEF RunBatch, LoopHasRoom, LoopTypeOK, TurnTypeOK, endVars
  <2>14. CASE LateClaim
    <3>1. Claim(StepBatch) \in Seq(Messages)
      BY StepBatchFact, ClaimIs DEF TurnTypeOK, StepBatchIsNat
    <3>2. Texts(Claim(StepBatch)) \in Seq(Messages)
      BY <3>1, TextsIs
    <3>3. held \o Texts(Claim(StepBatch)) \in Seq(Messages)
      BY <3>2, ConcatProperties DEF TurnTypeOK
    <3>4. held' \in Seq(Messages) /\ pc = "late" /\ pc' \in {"canceling", "results"}
      BY <2>14, <3>3 DEF LateClaim, TurnTypeOK
    <3> QED BY <2>14, <3>4 DEF LateClaim, LoopHasRoom, LoopTypeOK, TurnTypeOK, loopVars, endVars
  <2>15. CASE LateCancel
    BY <2>15 DEF LateCancel, Stop, LoopHasRoom, LoopTypeOK, TurnTypeOK, Stops, loopVars, endVars
  <2>16. CASE ResultsStop
    BY <2>16 DEF ResultsStop, Stop, LoopHasRoom, LoopTypeOK, TurnTypeOK, Stops, loopVars, endVars
  <2>17. CASE ResultsToModel
    <3>1. /\ steps < MaxSteps /\ stop = "none" /\ UNCHANGED <<stop, warned, endVars>> /\ NextCall(held) /\ held \in Seq(Messages)
          /\ continuations' \in 0..MaxContinuations /\ noProgress' \in 0..(MaxNoProgress + 1) /\ noProgress' <= MaxNoProgress
      BY <2>17 DEF ResultsToModel, LoopHasRoom, TurnTypeOK
    <3> QED BY <3>1, NextCallKeepsType
  <2>18. CASE ClaimFails
    <3>1. pc \in {"final", "tools", "late"} /\ Stop("Error") /\ UNCHANGED <<held, seen, endVars>>
      BY <2>18 DEF ClaimFails
    <3> QED BY <3>1 DEF Stop, LoopHasRoom, LoopTypeOK, TurnTypeOK, Stops, endVars
  <2>19. CASE GiveUpInbox
    BY <2>19 DEF GiveUpInbox, LoopHasRoom, LoopTypeOK, TurnTypeOK, loopVars
  <2>20. CASE WaitForSenders
    BY <2>20 DEF WaitForSenders, LoopHasRoom, LoopTypeOK, TurnTypeOK, loopVars
  <2>21. CASE Carry
    <3>1. Claim(CarryLimit) \in Seq(Messages)
      BY ClaimIs DEF TurnTypeOK
    <3>2. Texts(Claim(CarryLimit)) \in Seq(Messages)
      BY <3>1, TextsIs
    <3>3. carried \o Texts(Claim(CarryLimit)) \in Seq(Messages)
      BY <3>2, ConcatProperties DEF TurnTypeOK
    <3>4. carried' \in Seq(Messages) /\ pc = "sweeping" /\ pc' = "ended" /\ UNCHANGED <<loopVars, held, seen, active, sweep>>
      BY <2>21, <3>3 DEF Carry
    <3> QED BY <3>4 DEF LoopHasRoom, LoopTypeOK, TurnTypeOK, loopVars
  <2>22. CASE CarryFails
    BY <2>22 DEF CarryFails, LoopHasRoom, LoopTypeOK, TurnTypeOK, loopVars
  <2> QED BY <2>1, <2>2, <2>3, <2>4, <2>5, <2>6, <2>7, <2>8, <2>9, <2>10, <2>11, <2>12, <2>13, <2>14, <2>15, <2>16,
              <2>17, <2>18, <2>19, <2>20, <2>21, <2>22 DEF LoopStep
<1>2. TurnTypeOK'
  BY <1>1, LoopTakes DEF LoopTypeOK, TurnTypeOK
<1> QED BY <1>1, <1>2

-----------------------------------------------------------------------------
(* What is handed over, and in which order.                                 *)

LEMMA ConcatInOrder ==
    ASSUME NEW q, NEW s \in Seq(Messages), NEW t \in Seq(Messages)
    PROVE  /\ s \o t \in Seq(Messages)
           /\ Ascends(q, s) /\ Ascends(q, t) /\ Precedes(q, s, t) => Ascends(q, s \o t)
           /\ \A u : Precedes(q, u, s) /\ Precedes(q, u, t) => Precedes(q, u, s \o t)
           /\ \A r : AllTaken(q, r, s) /\ AllTaken(q, r, t) => AllTaken(q, r, s \o t)
           /\ \A m : Has(s \o t, m) <=> Has(s, m) \/ Has(t, m)
<1>1. /\ Len(s) \in Nat /\ Len(t) \in Nat /\ DOMAIN s = 1..Len(s) /\ DOMAIN t = 1..Len(t)
      /\ s \o t \in Seq(Messages) /\ Len(s \o t) = Len(s) + Len(t)
      /\ \A i \in 1..(Len(s) + Len(t)) : (s \o t)[i] = IF i <= Len(s) THEN s[i] ELSE t[i - Len(s)]
  BY LenProperties, ConcatProperties
<1>2. DOMAIN (s \o t) = 1..(Len(s) + Len(t))
  BY <1>1, LenProperties
<1> DEFINE st == s \o t
           a == Len(s)
<1>3. /\ DOMAIN st = 1..(a + Len(t)) /\ a \in Nat /\ DOMAIN s = 1..a /\ DOMAIN t = 1..Len(t) /\ Len(t) \in Nat
      /\ \A i \in 1..a : i \in DOMAIN st /\ st[i] = s[i]
      /\ \A i \in DOMAIN st : i \notin 1..a => i - a \in DOMAIN t /\ st[i] = t[i - a]
  BY <1>1, <1>2
<1>4. \A i \in DOMAIN t : i + a \in DOMAIN st /\ i + a \notin 1..a /\ i + a - a = i
  BY <1>3
<1>5. \A i \in DOMAIN t : st[i + a] = t[i]
  <2> SUFFICES ASSUME NEW i \in DOMAIN t
               PROVE  st[i + a] = t[i]
    OBVIOUS
  <2>1. i + a \in DOMAIN st /\ i + a \notin 1..a /\ i + a - a = i
    BY <1>4
  <2> HIDE DEF st, a
  <2>2. st[i + a] = t[i + a - a]
    BY ONLY <1>3, <2>1
  <2> QED BY <2>1, <2>2
<1> HIDE DEF st, a
<1>6. ASSUME Ascends(q, s), Ascends(q, t), Precedes(q, s, t)
      PROVE  Ascends(q, st)
  <2> SUFFICES ASSUME NEW i \in DOMAIN st, NEW j \in DOMAIN st, i < j
               PROVE  Earlier(q, st[i], st[j])
    BY DEF Ascends
  <2>1. CASE i \in 1..a /\ j \in 1..a
    BY <1>3, <1>6, <2>1 DEF Ascends
  <2>2. CASE i \in 1..a /\ j \notin 1..a
    BY <1>3, <1>6, <2>2 DEF Precedes
  <2>3. CASE i \notin 1..a /\ j \notin 1..a
    <3>1. i - a < j - a /\ i - a \in DOMAIN t /\ j - a \in DOMAIN t
      BY <1>3, <2>3
    <3> QED BY <1>3, <1>6, <2>3, <3>1 DEF Ascends
  <2> QED BY <1>3, <2>1, <2>2, <2>3
<1>7. ASSUME NEW u, Precedes(q, u, s), Precedes(q, u, t)
      PROVE  Precedes(q, u, st)
  BY <1>3, <1>7 DEF Precedes
<1>8. ASSUME NEW r, AllTaken(q, r, s), AllTaken(q, r, t)
      PROVE  AllTaken(q, r, st)
  BY <1>3, <1>8 DEF AllTaken
<1>9. ASSUME NEW m
      PROVE  Has(st, m) <=> Has(s, m) \/ Has(t, m)
  BY <1>3, <1>4, <1>5 DEF Has
<1> QED BY <1>1, <1>6, <1>7, <1>8, <1>9 DEF st

LEMMA FunctionIsSeq ==
    ASSUME NEW D, NEW n \in Nat, NEW f \in [1..n -> D]
    PROVE  f \in Seq(D) /\ Len(f) = n
  OBVIOUS

LEMMA ShownNext ==
    ASSUME TurnTypeOK, steps < MaxSteps, NEW messages \in Seq(Messages), NextCall(messages)
    PROVE  Shown(seen') = Shown(seen) \o messages
<1> DEFINE R == [step: 1..MaxSteps, message: Messages]
<1>1. /\ seen' \in Seq(R)
      /\ DOMAIN seen = 1..Len(seen) /\ DOMAIN seen' = 1..(Len(seen) + Len(messages))
      /\ Len(seen) \in Nat /\ Len(messages) \in Nat
      /\ \A i \in 1..Len(seen) : seen'[i] = seen[i]
      /\ \A i \in 1..Len(messages) : seen'[Len(seen) + i].message = messages[i]
  BY NextCallIs
<1>2. seen \in Seq(R)
  BY DEF TurnTypeOK
<1>3. \A i \in 1..Len(seen) : seen[i].message \in Messages
  <2>1. \A i \in 1..Len(seen) : seen[i] \in R
    BY <1>2, ElementOfSeq
  <2> QED BY <2>1
<1>4. \A i \in 1..(Len(seen) + Len(messages)) : seen'[i].message \in Messages
  <2>1. \A i \in 1..Len(seen') : seen'[i] \in R
    BY <1>1, ElementOfSeq
  <2>2. DOMAIN seen' = 1..Len(seen')
    BY <1>1, LenProperties
  <2> QED BY <1>1, <2>1, <2>2
<1>5. Shown(seen) \in Seq(Messages) /\ Len(Shown(seen)) = Len(seen)
  <2>1. Shown(seen) \in [1..Len(seen) -> Messages]
    BY <1>1, <1>3 DEF Shown
  <2> QED BY ONLY <1>1, <2>1, FunctionIsSeq
<1>6. Shown(seen') \in Seq(Messages) /\ Len(Shown(seen')) = Len(seen) + Len(messages)
  <2>1. Shown(seen') \in [1..(Len(seen) + Len(messages)) -> Messages]
    BY <1>1, <1>4 DEF Shown
  <2>2. Len(seen) + Len(messages) \in Nat
    BY <1>1
  <2> QED BY ONLY <2>1, <2>2, FunctionIsSeq
<1>7. /\ Shown(seen) \o messages \in Seq(Messages)
      /\ Len(Shown(seen) \o messages) = Len(seen) + Len(messages)
      /\ \A i \in 1..(Len(seen) + Len(messages)) :
           (Shown(seen) \o messages)[i] = IF i <= Len(seen) THEN Shown(seen)[i] ELSE messages[i - Len(seen)]
  <2> DEFINE shown == Shown(seen)
  <2>1. shown \in Seq(Messages) /\ Len(shown) = Len(seen)
    BY <1>5
  <2> HIDE DEF shown
  <2>2. /\ shown \o messages \in Seq(Messages)
        /\ Len(shown \o messages) = Len(shown) + Len(messages)
        /\ \A i \in 1..(Len(shown) + Len(messages)) :
             (shown \o messages)[i] = IF i <= Len(shown) THEN shown[i] ELSE messages[i - Len(shown)]
    BY ONLY <2>1, messages \in Seq(Messages), ConcatProperties
  <2> QED BY <2>1, <2>2 DEF shown
<1>8. ASSUME NEW i \in 1..(Len(seen) + Len(messages))
      PROVE  Shown(seen')[i] = (Shown(seen) \o messages)[i]
  <2>1. Shown(seen')[i] = seen'[i].message
    BY <1>1 DEF Shown
  <2>2. CASE i \in 1..Len(seen)
    BY <1>1, <1>7, <2>1, <2>2 DEF Shown
  <2>3. CASE i \notin 1..Len(seen)
    <3>1. i - Len(seen) \in 1..Len(messages) /\ Len(seen) + (i - Len(seen)) = i /\ ~(i <= Len(seen))
      BY <1>1, <2>3
    <3>2. seen'[Len(seen) + (i - Len(seen))].message = messages[i - Len(seen)]
      BY <1>1, <3>1
    <3> QED BY <1>7, <2>1, <3>1, <3>2
  <2> QED BY <2>2, <2>3
<1> QED BY <1>6, <1>7, <1>8, SeqEqual

LEMMA ShownIsSeq ==
    ASSUME TurnTypeOK
    PROVE  Shown(seen) \in Seq(Messages) /\ DOMAIN Shown(seen) = DOMAIN seen
<1> DEFINE R == [step: 1..MaxSteps, message: Messages]
<1>1. Len(seen) \in Nat /\ DOMAIN seen = 1..Len(seen) /\ \A i \in 1..Len(seen) : seen[i] \in R
  BY LenProperties, ElementOfSeq DEF TurnTypeOK
<1>2. \A i \in 1..Len(seen) : seen[i].message \in Messages
  BY <1>1
<1>3. Shown(seen) \in [1..Len(seen) -> Messages]
  BY <1>1, <1>2 DEF Shown
<1> QED BY <1>1, <1>3

(* What is claimed has its rows after what was taken before.                *)
LEMMA ClaimFollows ==
    ASSUME TurnTypeOK, PendingIsLast, NEW limit \in Nat, NEW s, AllTaken(queue, row, s)
    PROVE  Precedes(queue, s, Claim(limit)) /\ Precedes(queue, s, Texts(Claim(limit)))
<1> DEFINE c == Claim(limit)
<1>1. c \in Seq(Messages) /\ \A i \in DOMAIN c : Rowed(queue, c[i]) /\ row[c[i]] = "pending"
  BY ClaimIs DEF TurnTypeOK
<1> HIDE DEF c
<1>2. DOMAIN queue = 1..Len(queue) /\ Len(queue) \in Nat
  BY LenProperties DEF TurnTypeOK
<1>3. ASSUME NEW m, NEW n, Rowed(queue, m), row[m] \in Taken, Rowed(queue, n), row[n] = "pending"
      PROVE  Earlier(queue, m, n)
  <2>1. PICK i \in DOMAIN queue, j \in DOMAIN queue : queue[i] = m /\ queue[j] = n
    BY <1>3 DEF Rowed
  <2>2. i # j /\ ~(j < i)
    BY <1>3, <2>1 DEF PendingIsLast, Taken
  <2>3. i < j
    BY <1>2, <2>2
  <2> QED BY <2>1, <2>3 DEF Earlier
<1>4. Precedes(queue, s, c)
  BY <1>1, <1>3 DEF Precedes, AllTaken
<1>5. \A i \in DOMAIN Texts(c) : \E j \in DOMAIN c : Texts(c)[i] = c[j]
  BY <1>1, TextsIs
<1>6. Precedes(queue, s, Texts(c))
  BY <1>4, <1>5 DEF Precedes
<1> QED BY <1>4, <1>6 DEF c

LEMMA TakenStays ==
    ASSUME TurnTypeOK, RowsAreOfSenders, PendingIsLast, Takes, UNCHANGED <<queue, sender>>,
           NEW s \in Seq(Messages), AllTaken(queue, row, s)
    PROVE  AllTaken(queue', row', s)
<1>1. \A i \in DOMAIN s : s[i] \in Messages
  BY LenProperties
<1>2. \A m \in Messages : row'[m] = row[m] \/ (row[m] = "pending" /\ row'[m] \in Taken)
  BY RowsTaken
<1> QED BY <1>1, <1>2 DEF AllTaken, Taken

(* What a step of the loop claims.                                          *)
LEMMA StepClaimIs ==
    ASSUME TurnTypeOK, PendingIsLast
    PROVE  LET c == Claim(StepBatch) IN
           /\ c \in Seq(Messages) /\ Len(c) <= StepBatch /\ Ascends(queue, c)
           /\ Texts(c) \in Seq(Messages) /\ Len(Texts(c)) <= Len(c) /\ Ascends(queue, Texts(c))
           /\ \A s : AllTaken(queue, row, s) => Precedes(queue, s, c) /\ Precedes(queue, s, Texts(c))
           /\ ClaimInbox => AllTaken(queue, row', c) /\ AllTaken(queue, row', Texts(c))
           /\ \A m \in Messages : ClaimInbox /\ row'[m] = "delivered" =>
                row[m] = "delivered" \/ m \in Cancels \/ Has(Texts(c), m)
           /\ \A m : Has(Texts(c), m) => Has(c, m)
           /\ CancelClaimed /\ ClaimInbox => \E m \in Cancels : row'[m] = "delivered"
<1> DEFINE c == Claim(StepBatch)
<1>1. StepBatch \in Nat
  BY StepBatchFact DEF StepBatchIsNat
<1>2. /\ c \in Seq(Messages) /\ Len(c) <= StepBatch /\ Ascends(queue, c)
      /\ \A i \in DOMAIN c : Rowed(queue, c[i]) /\ row[c[i]] = "pending"
  BY <1>1, ClaimIs DEF TurnTypeOK
<1>3. \A s : AllTaken(queue, row, s) => Precedes(queue, s, c) /\ Precedes(queue, s, Texts(c))
  BY <1>1, ClaimFollows
<1>4. ClaimInbox => row' = [m \in Messages |-> IF \E i \in DOMAIN c : c[i] = m THEN "delivered" ELSE row[m]]
  BY DEF ClaimInbox, Apply
<1> HIDE DEF c
<1>5. /\ Texts(c) \in Seq(Messages) /\ Len(Texts(c)) <= Len(c) /\ Ascends(queue, Texts(c))
      /\ \A i \in DOMAIN Texts(c) : \E j \in DOMAIN c : Texts(c)[i] = c[j]
      /\ \A j \in DOMAIN c : c[j] \in Cancels \/ \E i \in DOMAIN Texts(c) : Texts(c)[i] = c[j]
  BY <1>2, TextsIs
<1>6. \A i \in DOMAIN c : c[i] \in Messages
  BY <1>2, LenProperties
<1>7. ClaimInbox => AllTaken(queue, row', c) /\ AllTaken(queue, row', Texts(c))
  <2> SUFFICES ASSUME ClaimInbox
               PROVE  AllTaken(queue, row', c) /\ AllTaken(queue, row', Texts(c))
    OBVIOUS
  <2>1. \A i \in DOMAIN c : row'[c[i]] = "delivered"
    BY <1>4, <1>6
  <2> QED BY <1>2, <1>5, <2>1 DEF AllTaken, Taken
<1>8. \A m \in Messages : ClaimInbox /\ row'[m] = "delivered" => row[m] = "delivered" \/ m \in Cancels \/ Has(Texts(c), m)
  BY <1>4, <1>5 DEF Has
<1>9. \A m : Has(Texts(c), m) => Has(c, m)
  BY <1>5 DEF Has
<1>10. CancelClaimed /\ ClaimInbox => \E m \in Cancels : row'[m] = "delivered"
  <2>1. CancelClaimed => \E i \in DOMAIN c : c[i] \in Cancels
    BY DEF CancelClaimed, c
  <2> QED BY <1>4, <1>6, <2>1
<1> QED BY <1>2, <1>3, <1>5, <1>7, <1>8, <1>9, <1>10 DEF c

(* The messages of the next call follow those of the calls before.          *)
LEMMA NextCallInOrder ==
    ASSUME TurnTypeOK, RowsAreOfSenders, PendingIsLast, HandedInOrder, HandedIsTaken,
           Takes, UNCHANGED <<queue, sender, carried>>, pc # "ended", steps < MaxSteps,
           NEW messages \in Seq(Messages), NextCall(messages),
           Ascends(queue, messages), Precedes(queue, Shown(seen), messages), AllTaken(queue, row', messages)
    PROVE  HandedInOrder' /\ HandedIsTaken'
<1>1. Shown(seen) \in Seq(Messages)
  BY ShownIsSeq
<1>2. Shown(seen') = Shown(seen) \o messages
  BY ShownNext
<1>3. held' = <<>> /\ carried' = <<>> /\ carried = <<>>
  BY NextCallIs DEF HandedIsTaken
<1>4. AllTaken(queue, row', Shown(seen))
  BY <1>1, TakenStays DEF HandedIsTaken
<1>5. Ascends(queue, Shown(seen'))
  BY <1>1, <1>2, ConcatInOrder DEF HandedInOrder
<1>6. AllTaken(queue, row', Shown(seen'))
  BY <1>1, <1>2, <1>4, ConcatInOrder
<1>7. /\ Ascends(queue', held') /\ Ascends(queue', carried') /\ AllTaken(queue', row', held')
      /\ Precedes(queue', Shown(seen'), held') /\ Precedes(queue', Shown(seen'), carried')
  BY <1>3 DEF Ascends, Precedes, AllTaken
<1>8. Ascends(queue', Shown(seen')) /\ AllTaken(queue', row', Shown(seen'))
  BY <1>5, <1>6
<1> QED BY <1>3, <1>7, <1>8 DEF HandedInOrder, HandedIsTaken

LEMMA LoopHandsInOrder ==
    ASSUME TurnTypeOK, LoopHasRoom, RowsAreOfSenders, PendingIsLast, HandedInOrder, HandedIsTaken, HeldIsNext, LoopStep
    PROVE  HandedInOrder' /\ HandedIsTaken'
<1>1. Takes /\ UNCHANGED <<queue, sender>>
  BY LoopTakes
<1>2. pc # "ended" /\ carried = <<>>
  BY DEF LoopStep, ModelAnswers, GoalStops, GoalNeedsWork, FinalNoStepLeft, FinalClaim, ClaimCancels, SentBack, FinalStop, ToolsStop,
     EarlyClaim, LoopDetected, BatchStops, RunBatch, LateClaim, LateCancel, ResultsStop, ResultsToModel, ClaimFails, GiveUpInbox,
     WaitForSenders, Carry, CarryFails, HandedIsTaken
<1>3. Shown(seen) \in Seq(Messages) /\ held \in Seq(Messages)
  BY ShownIsSeq DEF TurnTypeOK
<1>4. AllTaken(queue', row', Shown(seen)) /\ AllTaken(queue', row', held)
  BY <1>1, <1>3, TakenStays DEF HandedIsTaken
<1>5. CASE UNCHANGED <<seen, held, carried>>
  BY <1>1, <1>2, <1>4, <1>5 DEF HandedInOrder, HandedIsTaken
<1>6. CASE NextCall(<<>>) /\ steps < MaxSteps /\ UNCHANGED carried
  <2>1. <<>> \in Seq(Messages) /\ Ascends(queue, <<>>) /\ Precedes(queue, Shown(seen), <<>>) /\ AllTaken(queue, row', <<>>)
    BY DEF Ascends, Precedes, AllTaken
  <2> QED BY <1>1, <1>2, <1>6, <2>1, NextCallInOrder
<1>7. CASE NextCall(held) /\ steps < MaxSteps /\ UNCHANGED carried
  <2>1. Ascends(queue, held) /\ Precedes(queue, Shown(seen), held) /\ AllTaken(queue, row', held)
    BY <1>1, <1>4 DEF HandedInOrder
  <2> QED BY <1>1, <1>2, <1>3, <1>7, <2>1, NextCallInOrder
<1>8. CASE FinalClaim
  <2>1. CASE UNCHANGED <<seen, held>>
    BY <1>5, <1>8, <2>1 DEF FinalClaim, endVars
  <2>2. CASE NextCall(Claim(StepBatch))
    <3>1. /\ Claim(StepBatch) \in Seq(Messages) /\ Ascends(queue, Claim(StepBatch)) /\ AllTaken(queue, row', Claim(StepBatch))
          /\ Precedes(queue, Shown(seen), Claim(StepBatch))
      BY <1>8, StepClaimIs DEF FinalClaim, HandedIsTaken
    <3>2. UNCHANGED carried /\ steps < MaxSteps
      BY <1>8 DEF FinalClaim, endVars
    <3> QED BY <1>1, <1>2, <2>2, <3>1, <3>2, NextCallInOrder
  <2> QED BY <1>8, <2>1, <2>2 DEF FinalClaim
<1>9. CASE EarlyClaim
  <2>1. /\ Ascends(queue, Claim(StepBatch)) /\ AllTaken(queue, row', Claim(StepBatch))
        /\ Precedes(queue, Shown(seen), Claim(StepBatch))
    BY <1>9, StepClaimIs DEF EarlyClaim, HandedIsTaken
  <2>2. held' = Claim(StepBatch) /\ UNCHANGED <<seen, carried>>
    BY <1>9 DEF EarlyClaim, endVars
  <2> QED BY <1>1, <1>2, <1>4, <2>1, <2>2 DEF HandedInOrder, HandedIsTaken
<1>10. CASE LateClaim
  <2>1. CASE UNCHANGED held
    BY <1>5, <1>10, <2>1 DEF LateClaim, endVars
  <2>2. CASE ClaimInbox /\ held' = held \o Texts(Claim(StepBatch))
    <3> DEFINE t == Texts(Claim(StepBatch))
    <3>1. /\ t \in Seq(Messages) /\ Ascends(queue, t) /\ AllTaken(queue, row', t)
          /\ Precedes(queue, Shown(seen), t) /\ Precedes(queue, held, t)
      BY <2>2, StepClaimIs DEF HandedIsTaken
    <3>1a. held' = held \o t
      BY <2>2
    <3> HIDE DEF t
    <3>2. Ascends(queue, held) /\ Precedes(queue, Shown(seen), held) /\ AllTaken(queue, row', held)
      BY <1>1, <1>4 DEF HandedInOrder
    <3>3. Ascends(queue, held') /\ Precedes(queue, Shown(seen), held') /\ AllTaken(queue, row', held')
      BY <1>3, <3>1, <3>1a, <3>2, ConcatInOrder
    <3>4. UNCHANGED <<seen, carried>>
      BY <1>10 DEF LateClaim, endVars
    <3> QED BY <1>1, <1>2, <1>4, <3>3, <3>4 DEF HandedInOrder, HandedIsTaken
  <2> QED BY <1>10, <2>1, <2>2 DEF LateClaim, inboxVars
<1>11. CASE Carry
  <2> DEFINE c == Claim(CarryLimit)
  <2>1. /\ CarryLimit \in Nat /\ carried' = carried \o Texts(c) /\ UNCHANGED <<seen, held>> /\ pc' = "ended"
    BY <1>11, TurnAssumption DEF Carry
  <2>2. c \in Seq(Messages) /\ Ascends(queue, c)
    BY <2>1, ClaimIs DEF TurnTypeOK
  <2>3. Texts(c) \in Seq(Messages) /\ Ascends(queue, Texts(c))
    BY <2>2, TextsIs
  <2>4. Precedes(queue, Shown(seen), Texts(c))
    BY <2>1, ClaimFollows DEF HandedIsTaken
  <2> HIDE DEF c
  <2>5. carried' = Texts(c)
    BY <1>2, <2>1, <2>3, ConcatEmptySeq
  <2>6. /\ Ascends(queue', Shown(seen')) /\ Ascends(queue', held') /\ Ascends(queue', carried')
        /\ Precedes(queue', Shown(seen'), held') /\ Precedes(queue', Shown(seen'), carried')
    BY <1>1, <2>1, <2>3, <2>4, <2>5 DEF HandedInOrder
  <2>7. AllTaken(queue', row', Shown(seen')) /\ AllTaken(queue', row', held')
    BY <1>4, <2>1
  <2> QED BY <2>1, <2>6, <2>7 DEF HandedInOrder, HandedIsTaken
<1>12. CASE \E progressed \in BOOLEAN : GoalNeedsWork(progressed)
  BY <1>5, <1>6, <1>12 DEF GoalNeedsWork, endVars
<1>13. CASE SentBack
  BY <1>6, <1>13 DEF SentBack, LoopHasRoom, endVars
<1>14. CASE ResultsToModel
  BY <1>7, <1>14 DEF ResultsToModel, LoopHasRoom, endVars
<1>15. CASE \/ ModelAnswers \/ GoalStops \/ FinalNoStepLeft \/ ClaimCancels \/ FinalStop \/ ToolsStop \/ LoopDetected \/ BatchStops
            \/ (\E repeated \in BOOLEAN : RunBatch(repeated)) \/ LateCancel \/ ResultsStop \/ ClaimFails
            \/ GiveUpInbox \/ WaitForSenders \/ CarryFails
  BY <1>5, <1>15 DEF ModelAnswers, GoalStops, FinalNoStepLeft, ClaimCancels, FinalStop, ToolsStop, LoopDetected, BatchStops,
     RunBatch, LateCancel, ResultsStop, ClaimFails, GiveUpInbox, WaitForSenders, CarryFails, endVars
<1> QED BY <1>8, <1>9, <1>10, <1>11, <1>12, <1>13, <1>14, <1>15 DEF LoopStep

LEMMA NextCallIsNext ==
    ASSUME TurnTypeOK, HeldIsNext, steps < MaxSteps, NEW messages \in Seq(Messages), NextCall(messages), UNCHANGED allAtOnce,
           ~allAtOnce => Len(messages) <= 1
    PROVE  HeldIsNext'
<1> DEFINE a == Len(seen)
<1>1. /\ held' = <<>> /\ steps' = steps + 1 /\ a \in Nat /\ Len(messages) \in Nat
      /\ DOMAIN seen = 1..a /\ DOMAIN seen' = 1..(a + Len(messages))
      /\ \A i \in 1..a : seen'[i] = seen[i]
      /\ \A i \in 1..Len(messages) : seen'[a + i].step = steps + 1
  BY NextCallIs
<1> HIDE DEF a
<1>2. steps \in Int /\ \A i \in 1..a : seen[i].step \in Int /\ seen[i].step <= steps
  <2>1. seen \in Seq([step: 1..MaxSteps, message: Messages]) /\ steps \in Int
    BY DEF TurnTypeOK
  <2>2. \A i \in 1..a : seen[i] \in [step: 1..MaxSteps, message: Messages]
    BY <2>1, ElementOfSeq DEF a
  <2>3. \A i \in 1..a : seen[i].step \in Int
    BY <2>2
  <2> QED BY <1>1, <2>1, <2>3 DEF HeldIsNext
<1>3. ASSUME NEW i \in DOMAIN seen', i \notin 1..a
      PROVE  seen'[i].step = steps + 1 /\ (Len(messages) <= 1 => i = a + 1)
  <2>1. i - a \in 1..Len(messages) /\ a + (i - a) = i
    BY <1>1, <1>3
  <2>2. seen'[a + (i - a)].step = steps + 1
    BY <1>1, <2>1
  <2> QED BY <1>1, <2>1, <2>2
<1>4. \A i \in DOMAIN seen' : seen'[i].step <= steps'
  BY <1>1, <1>2, <1>3
<1>5. ~allAtOnce => \A i, j \in DOMAIN seen' : seen'[i].step = seen'[j].step => i = j
  <2> SUFFICES ASSUME ~allAtOnce, NEW i \in DOMAIN seen', NEW j \in DOMAIN seen', seen'[i].step = seen'[j].step
               PROVE  i = j
    OBVIOUS
  <2>1. CASE i \in 1..a /\ j \in 1..a
    BY <1>1, <2>1 DEF HeldIsNext
  <2>2. CASE i \notin 1..a /\ j \notin 1..a
    BY <1>3, <2>2
  <2>3. CASE i \in 1..a /\ j \notin 1..a
    BY <1>1, <1>2, <1>3, <2>3
  <2>4. CASE i \notin 1..a /\ j \in 1..a
    BY <1>1, <1>2, <1>3, <2>4
  <2> QED BY <2>1, <2>2, <2>3, <2>4
<1>6. Len(held') <= 1
  BY <1>1
<1> QED BY <1>1, <1>4, <1>5, <1>6 DEF HeldIsNext

LEMMA LoopHoldsNext ==
    ASSUME TurnTypeOK, LoopHasRoom, PendingIsLast, HeldIsNext, LoopStep
    PROVE  HeldIsNext'
<1>1. UNCHANGED allAtOnce
  BY LoopTakes
<1>2. StepBatch \in Nat /\ (~allAtOnce => StepBatch = 1)
  BY StepBatchFact DEF StepBatchIsNat
<1>3. /\ Claim(StepBatch) \in Seq(Messages) /\ Len(Claim(StepBatch)) <= StepBatch
      /\ Texts(Claim(StepBatch)) \in Seq(Messages) /\ Len(Texts(Claim(StepBatch))) <= Len(Claim(StepBatch))
  BY StepClaimIs
<1>4. Len(Claim(StepBatch)) \in Nat /\ Len(Texts(Claim(StepBatch))) \in Nat
  BY <1>3, LenProperties
<1>5. CASE NextCall(<<>>) /\ steps < MaxSteps
  <2>1. <<>> \in Seq(Messages) /\ Len(<<>>) <= 1
    OBVIOUS
  <2> QED BY <1>1, <1>5, <2>1, NextCallIsNext
<1>6. CASE ResultsToModel
  <2>1. /\ steps < MaxSteps /\ NextCall(held) /\ held \in Seq(Messages) /\ (~allAtOnce => Len(held) <= 1)
    BY <1>6 DEF ResultsToModel, LoopHasRoom, HeldIsNext, TurnTypeOK
  <2> QED BY <1>1, <2>1, NextCallIsNext
<1>7. CASE FinalClaim
  <2>1. CASE NextCall(Claim(StepBatch))
    <3>1. steps < MaxSteps /\ (~allAtOnce => Len(Claim(StepBatch)) <= 1)
      BY <1>2, <1>3, <1>4, <1>7 DEF FinalClaim
    <3> QED BY <1>1, <1>3, <2>1, <3>1, NextCallIsNext
  <2>2. CASE UNCHANGED <<steps, seen, held>> /\ pc' = "hook"
    BY <1>1, <1>7, <2>2 DEF FinalClaim, HeldIsNext
  <2> QED BY <1>7, <2>1, <2>2 DEF FinalClaim
<1>8. CASE EarlyClaim
  <2>1. /\ held' = Claim(StepBatch) /\ pc' = "batch" /\ UNCHANGED <<steps, seen>>
    BY <1>8 DEF EarlyClaim, loopVars
  <2>2. ~allAtOnce => Len(held') <= 1
    BY <1>2, <1>3, <1>4, <2>1
  <2> QED BY <1>1, <2>1, <2>2 DEF HeldIsNext
<1>9. CASE LateClaim
  <2>1. pc' \in {"canceling", "results"} /\ UNCHANGED <<steps, seen>>
    BY <1>9 DEF LateClaim, loopVars
  <2>2. ~allAtOnce => Len(held') <= 1
    <3> SUFFICES ASSUME ~allAtOnce
                 PROVE  Len(held') <= 1
      OBVIOUS
    <3>1. CASE held = <<>> /\ held' = held \o Texts(Claim(StepBatch))
      <4>1. held' = Texts(Claim(StepBatch))
        BY <1>3, <3>1, ConcatEmptySeq
      <4> QED BY <1>2, <1>3, <1>4, <4>1
    <3>2. CASE UNCHANGED held
      BY <3>2 DEF HeldIsNext
    <3> QED BY <1>9, <3>1, <3>2 DEF LateClaim, inboxVars
  <2> QED BY <1>1, <2>1, <2>2 DEF HeldIsNext
<1>10. CASE /\ UNCHANGED <<seen, held>> /\ steps' \in {steps, steps + 1}
            /\ pc' \in {"model", "final", "hook", "tools"} => pc \in {"model", "final", "hook", "tools"}
  <2>1. \A i \in DOMAIN seen : seen[i].step \in Int
    <3>1. seen \in Seq([step: 1..MaxSteps, message: Messages])
      BY DEF TurnTypeOK
    <3>2. \A i \in DOMAIN seen : seen[i] \in [step: 1..MaxSteps, message: Messages]
      BY <3>1, LenProperties, ElementOfSeq
    <3> QED BY <3>2
  <2>2. steps \in Int
    BY DEF TurnTypeOK
  <2> QED BY <1>1, <1>10, <2>1, <2>2 DEF HeldIsNext
<1>11. CASE \E progressed \in BOOLEAN : GoalNeedsWork(progressed)
  <2>1. PICK progressed \in BOOLEAN : GoalNeedsWork(progressed)
    BY <1>11
  <2>2. CASE pc' = "stopped" /\ UNCHANGED <<steps, continuations, held, seen>>
    BY <1>10, <2>2
  <2>3. CASE steps < MaxSteps /\ NextCall(<<>>)
    BY <1>5, <2>3
  <2> QED BY <2>1, <2>2, <2>3 DEF GoalNeedsWork
<1>12. CASE SentBack
  BY <1>5, <1>12 DEF SentBack, LoopHasRoom
<1>13. CASE \/ ModelAnswers \/ GoalStops \/ FinalNoStepLeft \/ ClaimCancels \/ FinalStop \/ ToolsStop \/ LoopDetected \/ BatchStops
            \/ (\E repeated \in BOOLEAN : RunBatch(repeated)) \/ LateCancel \/ ResultsStop \/ ClaimFails
            \/ GiveUpInbox \/ WaitForSenders \/ Carry \/ CarryFails
  <2>1. /\ UNCHANGED <<seen, held>> /\ steps' \in {steps, steps + 1}
        /\ pc' \in {"model", "final", "hook", "tools"} => pc \in {"model", "final", "hook", "tools"}
    BY <1>13 DEF ModelAnswers, GoalStops, FinalNoStepLeft, ClaimCancels, FinalStop, ToolsStop, LoopDetected, BatchStops,
       RunBatch, LateCancel, ResultsStop, ClaimFails, GiveUpInbox, WaitForSenders, Carry, CarryFails, Stop, loopVars
  <2> QED BY <1>10, <2>1
<1> QED BY <1>6, <1>7, <1>8, <1>9, <1>11, <1>12, <1>13 DEF LoopStep

(* What is marked as delivered is in front of the model, or held for it.    *)
LEMMA LoopDelivers ==
    ASSUME TurnTypeOK, LoopHasRoom, RowsAreOfSenders, PendingIsLast, HeldIsNext, DeliveredIsHanded, LoopStep
    PROVE  DeliveredIsHanded'
<1>1. Takes /\ UNCHANGED <<queue, sender>> /\ row' \in [Messages -> {"none", "pending", "claimed", "delivered", "carried"}]
  BY LoopTakes
<1>2. /\ Claim(StepBatch) \in Seq(Messages) /\ Texts(Claim(StepBatch)) \in Seq(Messages)
      /\ \A m \in Messages : ClaimInbox /\ row'[m] = "delivered" =>
           row[m] = "delivered" \/ m \in Cancels \/ Has(Texts(Claim(StepBatch)), m)
      /\ \A m : Has(Texts(Claim(StepBatch)), m) => Has(Claim(StepBatch), m)
      /\ CancelClaimed /\ ClaimInbox => \E m \in Cancels : row'[m] = "delivered"
  BY StepClaimIs
<1>3. /\ Shown(seen) \in Seq(Messages) /\ held \in Seq(Messages)
      /\ \A m : ~Has(<<>>, m)
  BY ShownIsSeq DEF TurnTypeOK, Has
<1>4. ASSUME NEW messages \in Seq(Messages), NextCall(messages), steps < MaxSteps, stop' = "none", pc' # "canceling",
             \A m \in Messages \ Cancels : row'[m] = "delivered" => Has(Shown(seen), m) \/ Has(messages, m)
      PROVE  DeliveredIsHanded'
  <2>1. Shown(seen') = Shown(seen) \o messages
    BY <1>4, ShownNext
  <2>2. \A m : Has(Shown(seen) \o messages, m) <=> Has(Shown(seen), m) \/ Has(messages, m)
    <3> DEFINE shown == Shown(seen)
    <3>1. shown \in Seq(Messages)
      BY <1>3
    <3> HIDE DEF shown
    <3>2. \A m : Has(shown \o messages, m) <=> Has(shown, m) \/ Has(messages, m)
      BY ONLY <1>4, <3>1, ConcatInOrder
    <3> QED BY <3>2 DEF shown
  <2> QED BY <1>4, <2>1, <2>2 DEF DeliveredIsHanded, Delivered
<1>5. ASSUME UNCHANGED <<row, seen>>, stop = "none", stop' # "none", pc' # "canceling", held = <<>> \/ DroppingStop'
      PROVE  DeliveredIsHanded'
  BY <1>3, <1>5 DEF DeliveredIsHanded, Delivered
<1>6. CASE ModelAnswers \/ GoalStops \/ FinalNoStepLeft \/ FinalStop \/ ToolsStop
  <2>1. /\ UNCHANGED <<row, seen, held>> /\ pc \in {"model", "final", "hook", "tools"} /\ pc' \in {"final", "tools", "stopped"}
        /\ (stop' = stop /\ pc' # "stopped") \/ (stop' \in Stops)
    BY <1>6 DEF ModelAnswers, GoalStops, FinalNoStepLeft, FinalStop, ToolsStop, Stop, inboxVars, loopVars, Stops
  <2>2. stop = "none" /\ held = <<>> /\ "none" \notin Stops
    BY <2>1 DEF LoopHasRoom, HeldIsNext, Stops
  <2>3. CASE stop' = stop
    BY <2>1, <2>2, <2>3 DEF DeliveredIsHanded, Delivered
  <2>4. CASE stop' \in Stops
    BY <1>5, <2>1, <2>2, <2>4
  <2> QED BY <2>1, <2>3, <2>4
<1>7. CASE \E progressed \in BOOLEAN : GoalNeedsWork(progressed)
  <2>1. PICK progressed \in BOOLEAN : GoalNeedsWork(progressed)
    BY <1>7
  <2>2. pc = "final" /\ UNCHANGED row
    BY <2>1 DEF GoalNeedsWork, inboxVars
  <2>3. stop = "none" /\ held = <<>>
    BY <2>2 DEF LoopHasRoom, HeldIsNext
  <2>4. CASE pc' = "stopped" /\ stop' # "none" /\ UNCHANGED seen
    BY <1>5, <2>2, <2>3, <2>4
  <2>5. CASE steps < MaxSteps /\ NextCall(<<>>) /\ UNCHANGED stop
    <3>1. pc' = "model" /\ <<>> \in Seq(Messages)
      BY <2>5 DEF NextCall
    <3>2. \A m \in Messages \ Cancels : row'[m] = "delivered" => Has(Shown(seen), m)
      BY <1>3, <2>2, <2>3 DEF DeliveredIsHanded, Delivered
    <3> QED BY <1>4, <2>3, <2>5, <3>1, <3>2
  <2> QED BY <2>1, <2>4, <2>5 DEF GoalNeedsWork
<1>8. CASE FinalClaim
  <2>1. pc = "final" /\ ~CancelClaimed /\ ClaimInbox /\ steps < MaxSteps /\ UNCHANGED stop
    BY <1>8 DEF FinalClaim
  <2>2. stop = "none" /\ held = <<>>
    BY <2>1 DEF LoopHasRoom, HeldIsNext
  <2>3. \A m \in Messages \ Cancels : row'[m] = "delivered" => Has(Shown(seen), m) \/ Has(Claim(StepBatch), m)
    BY <1>2, <1>3, <2>1, <2>2 DEF DeliveredIsHanded, Delivered
  <2>4. CASE NextCall(Claim(StepBatch))
    <3>1. pc' = "model"
      BY <2>4 DEF NextCall
    <3> QED BY <1>2, <1>4, <2>1, <2>2, <2>3, <2>4, <3>1
  <2>5. CASE Claim(StepBatch) = <<>> /\ pc' = "hook" /\ UNCHANGED <<seen, held>>
    BY <1>3, <2>1, <2>2, <2>3, <2>5 DEF DeliveredIsHanded, Delivered
  <2> QED BY <1>8, <2>4, <2>5 DEF FinalClaim
<1>9. CASE ClaimCancels
  <2>1. stop' = "Canceled" /\ pc' = "stopped" /\ CancelClaimed /\ ClaimInbox
    BY <1>9 DEF ClaimCancels, Stop
  <2>2. DroppingStop'
    BY <1>2, <2>1 DEF DroppingStop
  <2> QED BY <2>1, <2>2 DEF DeliveredIsHanded
<1>10. CASE SentBack \/ ResultsToModel
  <2>1. /\ pc \in {"hook", "results"} /\ UNCHANGED <<row, stop>> /\ pc' = "model"
        /\ (NextCall(<<>>) /\ pc = "hook") \/ NextCall(held)
    BY <1>10 DEF SentBack, ResultsToModel, inboxVars, NextCall
  <2>2. stop = "none" /\ steps < MaxSteps /\ (pc = "hook" => held = <<>>)
    BY <2>1 DEF LoopHasRoom, HeldIsNext
  <2>3. NextCall(held)
    BY <2>1, <2>2
  <2>4. \A m \in Messages \ Cancels : row'[m] = "delivered" => Has(Shown(seen), m) \/ Has(held, m)
    BY <2>1, <2>2 DEF DeliveredIsHanded, Delivered
  <2> QED BY <1>3, <1>4, <2>1, <2>2, <2>3, <2>4
<1>11. CASE EarlyClaim
  <2>1. /\ pc = "tools" /\ ~CancelClaimed /\ ClaimInbox /\ UNCHANGED <<stop, seen>> /\ pc' = "batch" /\ held' = Claim(StepBatch)
    BY <1>11 DEF EarlyClaim, loopVars
  <2>2. stop = "none" /\ held = <<>>
    BY <2>1 DEF LoopHasRoom, HeldIsNext
  <2>3. \A m \in Messages \ Cancels : row'[m] = "delivered" => Has(Shown(seen), m) \/ Has(Claim(StepBatch), m)
    BY <1>2, <1>3, <2>1, <2>2 DEF DeliveredIsHanded, Delivered
  <2> QED BY <2>1, <2>2, <2>3 DEF DeliveredIsHanded, Delivered
<1>12. CASE LoopDetected \/ BatchStops \/ ResultsStop
  <2>1. /\ UNCHANGED <<row, seen>> /\ pc \in {"batch", "results"} /\ pc' = "stopped"
        /\ stop' \in {"LoopDetected", "HookStopped", "Deadline", "NeedsInput", "Error"}
    BY <1>12 DEF LoopDetected, BatchStops, ResultsStop, Stop, inboxVars
  <2>2. stop = "none" /\ DroppingStop'
    BY <2>1 DEF LoopHasRoom, DroppingStop
  <2> QED BY <1>5, <2>1, <2>2
<1>13. CASE \E repeated \in BOOLEAN : RunBatch(repeated)
  <2>1. UNCHANGED <<row, seen, held, stop>> /\ pc = "batch" /\ pc' = "late"
    BY <1>13 DEF RunBatch, inboxVars
  <2>2. stop = "none"
    BY <2>1 DEF LoopHasRoom
  <2> QED BY <2>1, <2>2 DEF DeliveredIsHanded, Delivered
<1>14. CASE LateClaim
  <2>1. pc = "late" /\ UNCHANGED <<seen, stop>> /\ pc' \in {"canceling", "results"}
    BY <1>14 DEF LateClaim, loopVars
  <2>2. stop = "none"
    BY <2>1 DEF LoopHasRoom
  <2>3. CASE UNCHANGED <<row, held>> /\ pc' = "results"
    BY <2>1, <2>2, <2>3 DEF DeliveredIsHanded, Delivered
  <2>4. CASE ClaimInbox /\ held' = held \o Texts(Claim(StepBatch)) /\ pc' = IF CancelClaimed THEN "canceling" ELSE "results"
    <3>1. \A m : Has(held', m) <=> Has(held, m) \/ Has(Texts(Claim(StepBatch)), m)
      BY <1>2, <1>3, <2>4, ConcatInOrder
    <3>2. \A m \in Messages \ Cancels : row'[m] = "delivered" => Has(Shown(seen), m) \/ Has(held', m)
      BY <1>2, <2>2, <2>4, <3>1 DEF DeliveredIsHanded, Delivered
    <3>3. pc' = "canceling" => \E m \in Cancels : row'[m] = "delivered"
      BY <1>2, <2>4
    <3> QED BY <2>1, <2>2, <3>2, <3>3 DEF DeliveredIsHanded, Delivered
  <2> QED BY <1>14, <2>3, <2>4 DEF LateClaim, inboxVars
<1>15. CASE LateCancel
  <2>1. /\ UNCHANGED <<row, seen>> /\ pc = "canceling" /\ pc' = "stopped" /\ stop' \in {"HookStopped", "Canceled"}
    BY <1>15 DEF LateCancel, Stop, inboxVars
  <2>2. \E m \in Cancels : row'[m] = "delivered"
    BY <2>1 DEF DeliveredIsHanded
  <2>3. stop = "none" /\ DroppingStop'
    BY <2>1, <2>2 DEF LoopHasRoom, DroppingStop
  <2> QED BY <1>5, <2>1, <2>3
<1>16. CASE ClaimFails
  <2>1. stop' = "Error" /\ pc' = "stopped"
    BY <1>16 DEF ClaimFails, Stop
  <2> QED BY <2>1 DEF DeliveredIsHanded, DroppingStop
<1>17. CASE GiveUpInbox \/ WaitForSenders \/ Carry \/ CarryFails
  <2>1. /\ UNCHANGED <<seen, stop>> /\ pc \in {"stopped", "waiting", "sweeping"} /\ pc' \in {"waiting", "sweeping", "ended"}
        /\ \A m \in Messages : row'[m] = "delivered" => row[m] = "delivered"
    BY <1>17 DEF GiveUpInbox, WaitForSenders, Carry, CarryFails, loopVars, inboxVars
  <2>2. stop # "none"
    BY <2>1 DEF LoopHasRoom
  <2>3. \A m \in Messages : row[m] = "delivered" => row'[m] = "delivered"
    BY <1>1, RowsTaken
  <2>4. DroppingStop => DroppingStop'
    BY <2>1, <2>3, TurnAssumption DEF DroppingStop
  <2> QED BY <2>1, <2>2, <2>4 DEF DeliveredIsHanded, Delivered
<1> QED BY <1>6, <1>7, <1>8, <1>9, <1>10, <1>11, <1>12, <1>13, <1>14, <1>15, <1>16, <1>17 DEF LoopStep

(* A claim without room for all that is pending hands over as many rows as   *)
(* it may.                                                                  *)
LEMMA ClaimIsFull ==
    ASSUME TurnTypeOK, RowsAreOfSenders, NEW limit \in Nat, Len(Claim(limit)) = limit,
           NEW S \in SUBSET Messages, \A i \in DOMAIN Claim(limit) : Claim(limit)[i] \in S, \A m \in S : Rowed(queue, m)
    PROVE  ~(Cardinality(S) < limit)
<1> DEFINE c == Claim(limit)
           Q == {queue[i] : i \in 1..Len(queue)}
<1>1. /\ c \in Seq(Messages) /\ DOMAIN c = 1..limit /\ Ascends(queue, c)
  BY ClaimIs, LenProperties DEF TurnTypeOK
<1>2. DOMAIN queue = 1..Len(queue) /\ Len(queue) \in Nat /\ queue \in [1..Len(queue) -> Q]
  BY LenProperties DEF TurnTypeOK
<1>2a. \A i \in DOMAIN c : c[i] \in S
  OBVIOUS
<1> HIDE DEF c
<1>3. IsFiniteSet(S)
  <2>1. queue \in Surjection(1..Len(queue), Q)
    BY <1>2, Fun_IsSurj
  <2>2. IsFiniteSet(1..Len(queue))
    BY <1>2, FS_Interval
  <2>3. IsFiniteSet(Q)
    BY <2>1, <2>2, FS_Surjection
  <2>4. S \in SUBSET Q
    BY <1>2 DEF Rowed
  <2> QED BY <2>3, <2>4, FS_Subset
<1>4. \A m : ~Earlier(queue, m, m)
  BY <1>2 DEF Earlier, RowsAreOfSenders
<1>5. \A i, j \in 1..limit : c[i] = c[j] => i = j
  <2> SUFFICES ASSUME NEW i \in 1..limit, NEW j \in 1..limit, c[i] = c[j], i # j
               PROVE  FALSE
    OBVIOUS
  <2>1. i < j \/ j < i
    OBVIOUS
  <2> QED BY <1>1, <1>4, <2>1 DEF Ascends
<1>6. c \in [1..limit -> S]
  BY <1>1, <1>2a
<1>7. c \in Injection(1..limit, S)
  BY <1>5, <1>6, Fun_IsInj
<1>8. Cardinality(1..limit) <= Cardinality(S)
  BY <1>3, <1>7, FS_Injection
<1>9. Cardinality(1..limit) = limit
  BY FS_Interval
<1>10. Cardinality(S) \in Nat
  BY <1>3, FS_CardinalityType
<1> QED BY <1>8, <1>9, <1>10

(* What was counted in time is kept by every step of the loop.              *)
LEMMA LoopKeepsCounted ==
    ASSUME TurnTypeOK, LoopHasRoom, RowsAreOfSenders, PendingIsLast, CountedIsKept, LoopStep
    PROVE  CountedIsKept'
<1>1. Takes /\ UNCHANGED <<queue, sender, onTime>>
  BY LoopTakes
<1>2. \A m \in onTime : m \in Messages /\ m \notin Cancels /\ sender[m] \notin {"idle", "picked"}
  BY DEF CountedIsKept, TurnTypeOK
<1>3. sweep' = "waited" => \A m \in onTime : sender[m] \in {"done", "failed"}
  <2>1. CASE WaitForSenders
    <3>1. sweep' = "waited" => InFlight = {}
      BY <2>1 DEF WaitForSenders
    <3>2. \A m \in Messages : sender[m] \in {"idle", "picked", "counted", "inserted", "done", "failed"}
      BY DEF TurnTypeOK
    <3> QED BY <1>2, <3>1, <3>2 DEF InFlight
  <2>2. CASE sweep' = sweep \/ sweep' = "failed"
    BY <2>2 DEF CountedIsKept
  <2>3. CASE LoopStep /\ ~WaitForSenders
    <3>1. sweep' = sweep \/ sweep' = "failed"
      BY <2>3 DEF LoopStep, ModelAnswers, GoalStops, GoalNeedsWork, FinalNoStepLeft, FinalClaim, ClaimCancels, SentBack, FinalStop,
         ToolsStop, EarlyClaim, LoopDetected, BatchStops, RunBatch, LateClaim, LateCancel, ResultsStop, ResultsToModel, ClaimFails,
         GiveUpInbox, Carry, CarryFails, endVars
    <3> QED BY <2>2, <3>1
  <2> QED BY <2>1, <2>3
<1>4. \A m \in Messages \ Cancels : row'[m] = "claimed" => stop' = "Error"
  <2>1. CASE ClaimFails
    BY <2>1 DEF ClaimFails, Stop
  <2>2. CASE LoopStep /\ ~ClaimFails
    <3>1. \A m \in Messages \ Cancels : row'[m] = "claimed" => row[m] = "claimed"
      BY <2>2 DEF LoopStep, ModelAnswers, GoalStops, GoalNeedsWork, FinalNoStepLeft, FinalClaim, ClaimCancels, SentBack, FinalStop,
         ToolsStop, EarlyClaim, LoopDetected, BatchStops, RunBatch, LateClaim, LateCancel, ResultsStop, ResultsToModel,
         GiveUpInbox, WaitForSenders, Carry, CarryFails, inboxVars, ClaimInbox, Apply
    <3>2. stop = "Error" => stop' = "Error"
      <4>1. stop = "Error" => pc \in {"stopped", "waiting", "sweeping", "ended"}
        BY DEF LoopHasRoom
      <4>2. pc \in {"stopped", "waiting", "sweeping", "ended"} => stop' = stop
        BY <2>2 DEF LoopStep, ModelAnswers, GoalStops, GoalNeedsWork, FinalNoStepLeft, FinalClaim, ClaimCancels, SentBack, FinalStop,
           ToolsStop, EarlyClaim, LoopDetected, BatchStops, RunBatch, LateClaim, LateCancel, ResultsStop, ResultsToModel,
           GiveUpInbox, WaitForSenders, Carry, CarryFails, loopVars
      <4> QED BY <4>1, <4>2
    <3> QED BY <3>1, <3>2 DEF CountedIsKept
  <2> QED BY <2>1, <2>2
<1>5. ASSUME pc' = "ended", sweep' = "waited", CarryHadRoom', NEW m \in onTime, row'[m] = "pending"
      PROVE  FALSE
  <2>1. Carry
    BY <1>5 DEF LoopStep, ModelAnswers, GoalStops, GoalNeedsWork, FinalNoStepLeft, FinalClaim, ClaimCancels, SentBack, FinalStop,
       ToolsStop, EarlyClaim, LoopDetected, BatchStops, RunBatch, LateClaim, LateCancel, ResultsStop, ResultsToModel, ClaimFails,
       GiveUpInbox, WaitForSenders, CarryFails, Stop, NextCall
  <2> DEFINE c == Claim(CarryLimit)
             S == {x \in Messages : row'[x] = "carried" \/ (x \in Cancels /\ row'[x] = "claimed")}
  <2>2. row' = [x \in Messages |->
                  IF \A i \in DOMAIN c : c[i] # x THEN row[x]
                  ELSE IF x \in Cancels THEN "claimed" ELSE "carried"]
    BY <2>1 DEF Carry
  <2>3. CarryLimit \in Nat /\ c \in Seq(Messages)
    BY TurnAssumption, ClaimIs DEF TurnTypeOK
  <2>4. \A i \in DOMAIN c : c[i] \in Messages
    BY <2>3, LenProperties
  <2> HIDE DEF c
  <2>5. row[m] = "pending" /\ ~Has(c, m)
    BY <1>2, <1>5, <2>2 DEF Has
  <2>6. Rowed(queue, m)
    BY <1>2, <2>5 DEF RowsAreOfSenders
  <2>7. Len(c) = CarryLimit
    BY <2>3, <2>5, <2>6, ClaimIs DEF c, TurnTypeOK
  <2>8. \A i \in DOMAIN c : c[i] \in S
    BY <2>2, <2>4
  <2>9. \A x \in S : Rowed(queue, x)
    <3>1. RowsAreOfSenders'
      BY <1>1, RowsTaken
    <3> QED BY <1>1, <3>1 DEF RowsAreOfSenders
  <2>10. S \in SUBSET Messages /\ Cardinality(S) < CarryLimit
    BY <1>5 DEF CarryHadRoom
  <2> HIDE DEF S
  <2>11. ~(Cardinality(S) < CarryLimit)
    BY <2>3, <2>7, <2>8, <2>9, <2>10, ClaimIsFull DEF c
  <2> QED BY <2>10, <2>11
<1> QED BY <1>1, <1>2, <1>3, <1>4, <1>5 DEF CountedIsKept, Ended

-----------------------------------------------------------------------------
(* The steps of the senders, and the theorems.                              *)

LEMMA AppendKeepsOrder ==
    ASSUME NEW q \in Seq(Messages), NEW m \in Messages
    PROVE  /\ DOMAIN q = 1..Len(q) /\ DOMAIN Append(q, m) = 1..(Len(q) + 1) /\ Len(q) \in Nat
           /\ \A i \in 1..Len(q) : Append(q, m)[i] = q[i]
           /\ Append(q, m)[Len(q) + 1] = m
           /\ \A x, y : Earlier(q, x, y) => Earlier(Append(q, m), x, y)
           /\ \A x : Rowed(Append(q, m), x) <=> Rowed(q, x) \/ x = m
<1>1. /\ DOMAIN q = 1..Len(q) /\ DOMAIN Append(q, m) = 1..(Len(q) + 1) /\ Len(q) \in Nat
      /\ \A i \in 1..Len(q) : Append(q, m)[i] = q[i]
      /\ Append(q, m)[Len(q) + 1] = m
  BY LenProperties, AppendProperties
<1> DEFINE p == Append(q, m)
<1> HIDE DEF p
<1>2. /\ DOMAIN p = 1..(Len(q) + 1) /\ \A i \in 1..Len(q) : i \in DOMAIN p /\ p[i] = q[i]
      /\ p[Len(q) + 1] = m /\ \A i \in DOMAIN p : i \in 1..Len(q) \/ i = Len(q) + 1
  BY <1>1 DEF p
<1>3. \A x, y : Earlier(q, x, y) => Earlier(p, x, y)
  BY <1>1, <1>2 DEF Earlier
<1>4. \A x : Rowed(p, x) <=> Rowed(q, x) \/ x = m
  BY <1>1, <1>2 DEF Rowed
<1> QED BY <1>1, <1>3, <1>4 DEF p

(* A row is inserted: by the task of a message, or for a cancel.            *)
LEMMA InsertKeeps ==
    ASSUME TurnIInv, NEW m \in Messages, sender[m] \in {"idle", "counted"}, m \in Cancels \/ sender[m] = "counted",
           sender' \in {[sender EXCEPT ![m] = "inserted"], [sender EXCEPT ![m] = "done"]},
           m \in Cancels => sender' = [sender EXCEPT ![m] = "done"],
           queue' = Append(queue, m), row' = [row EXCEPT ![m] = "pending"],
           UNCHANGED <<pc, loopVars, held, seen, endVars, onTime>>,
           sender[m] = "idle" => active
    PROVE  TurnIInv'
<1> USE DEF loopVars, endVars
<1>1. TurnTypeOK
  BY DEF TurnIInv
<1>2. queue \in Seq(Messages) /\ row \in [Messages -> {"none", "pending", "claimed", "delivered", "carried"}]
  BY <1>1 DEF TurnTypeOK
<1>3. row[m] = "none" /\ ~Rowed(queue, m)
  BY DEF TurnIInv, RowsAreOfSenders
<1>4. /\ DOMAIN queue = 1..Len(queue) /\ DOMAIN queue' = 1..(Len(queue) + 1) /\ Len(queue) \in Nat
      /\ \A i \in 1..Len(queue) : queue'[i] = queue[i]
      /\ queue'[Len(queue) + 1] = m
      /\ \A x, y : Earlier(queue, x, y) => Earlier(queue', x, y)
      /\ \A x : Rowed(queue', x) <=> Rowed(queue, x) \/ x = m
  BY <1>2, AppendKeepsOrder
<1>5. TurnTypeOK'
  <2>1. queue' \in Seq(Messages)
    BY <1>2, AppendProperties
  <2>2. row' \in [Messages -> {"none", "pending", "claimed", "delivered", "carried"}]
    BY <1>2
  <2>3. sender \in [Messages -> {"idle", "picked", "counted", "inserted", "done", "failed"}]
    BY <1>1 DEF TurnTypeOK
  <2>4. sender' \in [Messages -> {"idle", "picked", "counted", "inserted", "done", "failed"}]
    BY <2>3
  <2> QED BY <1>1, <2>1, <2>2, <2>4 DEF TurnTypeOK
<1>6. LoopHasRoom'
  BY DEF TurnIInv, LoopHasRoom
<1>7. /\ \A x \in Messages : x # m => row'[x] = row[x] /\ sender'[x] = sender[x]
      /\ row'[m] = "pending" /\ sender'[m] \in {"inserted", "done"} /\ (m \in Cancels => sender'[m] = "done")
  BY <1>1, <1>2 DEF TurnTypeOK
<1>8. \A i \in 1..Len(queue) : queue[i] \in Messages /\ queue[i] # m
  BY <1>2, <1>3, <1>4, ElementOfSeq DEF Rowed
<1>9. RowsAreOfSenders'
  <2>1. \A i, j \in DOMAIN queue' : queue'[i] = queue'[j] => i = j
    <3> SUFFICES ASSUME NEW i \in DOMAIN queue', NEW j \in DOMAIN queue', queue'[i] = queue'[j]
                 PROVE  i = j
      OBVIOUS
    <3>1. CASE i \in 1..Len(queue) /\ j \in 1..Len(queue)
      BY <1>4, <3>1 DEF TurnIInv, RowsAreOfSenders
    <3>2. CASE i = Len(queue) + 1 \/ j = Len(queue) + 1
      BY <1>4, <1>8, <3>2
    <3> QED BY <1>4, <3>1, <3>2
  <2>2. \A x \in Messages : row'[x] # "none" <=> Rowed(queue', x)
    BY <1>4, <1>7 DEF TurnIInv, RowsAreOfSenders
  <2>3. \A x \in Messages : row'[x] # "none" <=> sender'[x] \in {"inserted", "done"}
    BY <1>7 DEF TurnIInv, RowsAreOfSenders
  <2>4. \A x \in Cancels : sender'[x] \in {"idle", "done"}
    BY <1>7, TurnAssumption DEF TurnIInv, RowsAreOfSenders
  <2> QED BY <2>1, <2>2, <2>3, <2>4 DEF RowsAreOfSenders
<1>10. PendingIsLast'
  <2> SUFFICES ASSUME NEW i \in DOMAIN queue', NEW j \in DOMAIN queue', i < j, row'[queue'[i]] = "pending"
               PROVE  row'[queue'[j]] = "pending"
    BY DEF PendingIsLast
  <2>1. CASE j = Len(queue) + 1
    BY <1>4, <1>7, <2>1
  <2>2. CASE j \in 1..Len(queue)
    <3>1. i \in 1..Len(queue)
      BY <1>4, <2>2
    <3> QED BY <1>4, <1>7, <1>8, <2>2, <3>1 DEF TurnIInv, PendingIsLast
  <2> QED BY <1>4, <2>1, <2>2
<1>11. HandedInOrder'
  BY <1>4 DEF TurnIInv, HandedInOrder, Ascends, Precedes
<1>12. ASSUME NEW s, AllTaken(queue, row, s)
       PROVE  AllTaken(queue', row', s)
  <2> SUFFICES ASSUME NEW i \in DOMAIN s
               PROVE  Rowed(queue', s[i]) /\ row'[s[i]] \in Taken
    BY DEF AllTaken
  <2>1. Rowed(queue, s[i]) /\ row[s[i]] \in Taken
    BY <1>12 DEF AllTaken
  <2>2. s[i] \in Messages /\ s[i] # m
    BY <1>4, <1>8, <2>1 DEF Rowed
  <2> QED BY <1>4, <1>7, <2>1, <2>2
<1>13. HandedIsTaken'
  BY <1>12 DEF TurnIInv, HandedIsTaken
<1>14. HeldIsNext'
  BY DEF TurnIInv, HeldIsNext
<1>15. DeliveredIsHanded'
  <2>1. \A x \in Messages : row'[x] = "delivered" <=> row[x] = "delivered"
    BY <1>3, <1>7
  <2>2. DroppingStop' <=> DroppingStop
    BY <2>1, TurnAssumption DEF DroppingStop
  <2>3. Delivered' = Delivered
    BY <2>1 DEF Delivered
  <2>4. (\E x \in Cancels : row'[x] = "delivered") <=> (\E x \in Cancels : row[x] = "delivered")
    BY <2>1, TurnAssumption
  <2> QED BY <2>2, <2>3, <2>4 DEF TurnIInv, DeliveredIsHanded
<1>16. CountedIsKept'
  <2>1. \A x \in onTime : x \in Messages
    BY <1>1 DEF TurnTypeOK
  <2>2. \A x \in onTime : sender'[x] \notin {"idle", "picked"} /\ x \notin Cancels
    BY <1>7, <2>1 DEF TurnIInv, CountedIsKept
  <2>3. sweep = "waited" => \A x \in onTime : sender[x] \in {"done", "failed"} /\ x # m
    BY DEF TurnIInv, CountedIsKept
  <2>4. sweep' = "waited" => \A x \in onTime : sender'[x] \in {"done", "failed"}
    BY <1>7, <2>1, <2>3
  <2>5. \A x \in Messages \ Cancels : row'[x] = "claimed" => stop' = "Error"
    BY <1>7 DEF TurnIInv, CountedIsKept
  <2>6. CarryHadRoom' <=> CarryHadRoom
    <3>1. \A x \in Messages : (row'[x] = "carried" \/ (x \in Cancels /\ row'[x] = "claimed"))
                                <=> (row[x] = "carried" \/ (x \in Cancels /\ row[x] = "claimed"))
      BY <1>3, <1>7
    <3>2. {x \in Messages : row'[x] = "carried" \/ (x \in Cancels /\ row'[x] = "claimed")}
            = {x \in Messages : row[x] = "carried" \/ (x \in Cancels /\ row[x] = "claimed")}
      BY <3>1
    <3> QED BY <3>2 DEF CarryHadRoom
  <2>7. Ended /\ sweep = "waited" /\ CarryHadRoom => \A x \in onTime : row'[x] # "pending"
    BY <1>7, <2>1, <2>3 DEF TurnIInv, CountedIsKept
  <2> QED BY <2>2, <2>4, <2>5, <2>6, <2>7 DEF CountedIsKept, Ended
<1> QED BY <1>5, <1>6, <1>9, <1>10, <1>11, <1>13, <1>14, <1>15, <1>16 DEF TurnIInv

(* What a sender does before and after it inserted the row.                 *)
LEMMA SenderKeeps ==
    ASSUME TurnIInv, NEW m \in Messages, Pick(m) \/ Count(m) \/ Uncount(m) \/ NotQueued(m)
    PROVE  TurnIInv'
<1> USE DEF loopVars, endVars, inboxVars
<1>1. UNCHANGED <<pc, loopVars, held, seen, endVars, inboxVars>>
  BY DEF Pick, Count, Uncount, NotQueued
<1>2. \E to \in {"picked", "counted", "done", "failed"} : sender' = [sender EXCEPT ![m] = to]
  BY DEF Pick, Count, Uncount, NotQueued
<1>3. sender \in [Messages -> {"idle", "picked", "counted", "inserted", "done", "failed"}]
  BY DEF TurnIInv, TurnTypeOK
<1>4. \A x \in Messages : x # m => sender'[x] = sender[x]
  BY <1>2, <1>3
<1>5. \/ /\ sender[m] \in {"idle", "picked", "counted"} /\ sender'[m] \in {"picked", "counted", "failed"}
         /\ sender[m] = "idle" => m \notin Cancels
      \/ sender[m] = "inserted" /\ sender'[m] = "done"
  <2>1. CASE Pick(m)
    BY <1>3, <2>1 DEF Pick
  <2>2. CASE Count(m)
    BY <1>3, <2>2 DEF Count
  <2>3. CASE Uncount(m)
    BY <1>3, <2>3 DEF Uncount
  <2>4. CASE NotQueued(m)
    BY <1>3, <2>4 DEF NotQueued
  <2> QED BY <2>1, <2>2, <2>3, <2>4
<1>6. m \notin Cancels
  BY <1>5 DEF TurnIInv, RowsAreOfSenders
<1>7. RowsAreOfSenders'
  BY <1>1, <1>4, <1>5, <1>6, TurnAssumption DEF TurnIInv, RowsAreOfSenders
<1>8. \A x \in onTime' : x \in onTime \/ (x = m /\ sender'[m] = "counted" /\ active)
  <2>1. CASE Count(m)
    <3>1. sender'[m] = "counted"
      BY <1>3, <2>1 DEF Count
    <3>2. CASE active
      BY <2>1, <3>1, <3>2 DEF Count
    <3>3. CASE ~active
      BY <2>1, <3>3 DEF Count
    <3> QED BY <3>2, <3>3
  <2>2. CASE Pick(m) \/ Uncount(m) \/ NotQueued(m)
    BY <2>2 DEF Pick, Uncount, NotQueued
  <2> QED BY <2>1, <2>2
<1>9. onTime \subseteq Messages
  BY DEF TurnIInv, TurnTypeOK
<1>10. TurnTypeOK'
  <2>1. sender' \in [Messages -> {"idle", "picked", "counted", "inserted", "done", "failed"}]
    BY <1>2, <1>3
  <2>2. onTime' \in SUBSET Messages
    BY <1>8, <1>9
  <2> QED BY <1>1, <2>1, <2>2 DEF TurnIInv, TurnTypeOK
<1>11. CountedIsKept'
  <2>1. \A x \in onTime' : x \notin Cancels /\ sender'[x] \notin {"idle", "picked"}
    <3>1. m \in onTime => sender'[m] \notin {"idle", "picked"}
      BY <1>3 DEF Pick, Count, Uncount, NotQueued, TurnIInv, CountedIsKept
    <3> QED BY <1>4, <1>6, <1>8, <1>9, <3>1 DEF TurnIInv, CountedIsKept
  <2>2. sweep = "waited" => ~active
    BY DEF TurnIInv, LoopHasRoom
  <2>3. sweep = "waited" => onTime' \subseteq onTime
    BY <1>8, <2>2
  <2>4. sweep = "waited" => \A x \in onTime : sender'[x] \in {"done", "failed"}
    BY <1>4, <1>5, <1>9 DEF TurnIInv, CountedIsKept
  <2>5. CarryHadRoom' <=> CarryHadRoom
    BY <1>1 DEF CarryHadRoom
  <2> QED BY <1>1, <2>1, <2>3, <2>4, <2>5 DEF TurnIInv, CountedIsKept, Ended
<1>12. LoopHasRoom' /\ PendingIsLast' /\ HandedInOrder' /\ HandedIsTaken' /\ HeldIsNext' /\ DeliveredIsHanded'
  BY <1>1 DEF TurnIInv, LoopHasRoom, PendingIsLast, HandedInOrder, HandedIsTaken, HeldIsNext, DeliveredIsHanded, Delivered, DroppingStop
<1> QED BY <1>7, <1>10, <1>11, <1>12 DEF TurnIInv

LEMMA TurnStarts ==
    ASSUME TurnInit
    PROVE  TurnIInv
<1> USE TurnAssumption DEF TurnInit
<1>1. TurnTypeOK
  <2>1. /\ sender \in [Messages -> {"idle", "picked", "counted", "inserted", "done", "failed"}]
        /\ row \in [Messages -> {"none", "pending", "claimed", "delivered", "carried"}]
    OBVIOUS
  <2>2. held \in Seq(Messages) /\ queue \in Seq(Messages) /\ carried \in Seq(Messages)
    OBVIOUS
  <2>3. seen \in Seq([step: 1..MaxSteps, message: Messages])
    BY EmptySeq
  <2>4. steps \in 1..MaxSteps /\ continuations \in 0..MaxContinuations /\ noProgress \in 0..(MaxNoProgress + 1)
    OBVIOUS
  <2> QED BY <2>1, <2>2, <2>3, <2>4 DEF TurnTypeOK
<1>2. LoopHasRoom /\ RowsAreOfSenders /\ PendingIsLast
  BY DEF LoopHasRoom, RowsAreOfSenders, PendingIsLast, Rowed
<1>3. DOMAIN Shown(seen) = {}
  BY DEF Shown
<1>4. HandedInOrder /\ HandedIsTaken /\ HeldIsNext
  BY <1>3 DEF HandedInOrder, HandedIsTaken, HeldIsNext, Ascends, Precedes, AllTaken
<1>5. DeliveredIsHanded /\ CountedIsKept
  BY DEF DeliveredIsHanded, CountedIsKept, Delivered, Ended
<1> QED BY <1>1, <1>2, <1>4, <1>5 DEF TurnIInv

(* The invariant that carries the others: what is pending is the end of the *)
(* queue, what was handed over is before it, and what is held is before     *)
(* what the next claim takes (run_turn_inner, claim_run_commands).          *)
THEOREM TurnIsInductive == TurnSpec => []TurnIInv
<1>1. TurnInit => TurnIInv
  BY TurnStarts
<1>2. TurnIInv /\ [TurnNext]_turnVars => TurnIInv'
  <2> SUFFICES ASSUME TurnIInv, [TurnNext]_turnVars
               PROVE  TurnIInv'
    OBVIOUS
  <2>1. CASE LoopStep
    <3>1. TurnTypeOK' /\ LoopHasRoom'
      BY <2>1, LoopTypeKept DEF TurnIInv
    <3>2. RowsAreOfSenders' /\ PendingIsLast'
      BY <2>1, LoopTakes, RowsTaken DEF TurnIInv
    <3>3. HandedInOrder' /\ HandedIsTaken' /\ HeldIsNext'
      BY <2>1, LoopHandsInOrder, LoopHoldsNext DEF TurnIInv
    <3>4. DeliveredIsHanded' /\ CountedIsKept'
      BY <2>1, LoopDelivers, LoopKeepsCounted DEF TurnIInv
    <3> QED BY <3>1, <3>2, <3>3, <3>4 DEF TurnIInv
  <2>2. ASSUME NEW m \in Messages, Insert(m)
        PROVE  TurnIInv'
    <3>1. m \notin Cancels
      BY <2>2 DEF Insert, TurnIInv, RowsAreOfSenders
    <3> QED BY <2>2, <3>1, InsertKeeps DEF Insert
  <2>3. ASSUME NEW m \in Messages, Cancel(m)
        PROVE  TurnIInv'
    BY <2>3, InsertKeeps DEF Cancel
  <2>4. ASSUME NEW m \in Messages, Pick(m) \/ Count(m) \/ Uncount(m) \/ NotQueued(m)
        PROVE  TurnIInv'
    BY <2>4, SenderKeeps
  <2>5. CASE UNCHANGED turnVars
    BY <2>5 DEF turnVars, loopVars, endVars, sendVars, inboxVars, TurnIInv, TurnTypeOK, LoopHasRoom, RowsAreOfSenders, PendingIsLast,
       HandedInOrder, HandedIsTaken, HeldIsNext, DeliveredIsHanded, CountedIsKept, CarryHadRoom, Ended, Delivered, DroppingStop
  <2> QED BY <2>1, <2>2, <2>3, <2>4, <2>5 DEF TurnNext, SendStep
<1> QED BY <1>1, <1>2, PTL DEF TurnSpec

(* A message of the user or of another agent is handed over once, in the    *)
(* order of the rows, one at a time where that is asked for, and what the   *)
(* turn marked as delivered the model was shown, unless the turn stopped    *)
(* where it may drop a text (claim_inbox, run_turn_inner).                  *)
THEOREM TurnSafe == TurnSpec => []TurnInv
<1>1. TurnIInv => TurnInv
  <2> SUFFICES ASSUME TurnIInv
               PROVE  TurnInv
    OBVIOUS
  <2>1. TurnTypeOK
    BY DEF TurnIInv
  <2>2. Shown(seen) \in Seq(Messages) /\ carried \in Seq(Messages)
    BY <2>1, ShownIsSeq DEF TurnTypeOK
  <2>3. Reading = Shown(seen) \o carried
    BY DEF Reading, Shown
  <2>4. Ascends(queue, Reading)
    BY <2>2, <2>3, ConcatInOrder DEF TurnIInv, HandedInOrder
  <2>5. ASSUME NEW m, NEW n, Earlier(queue, m, n)
        PROVE  Position(m) < Position(n)
    <3>1. PICK i \in DOMAIN queue, j \in DOMAIN queue : i < j /\ queue[i] = m /\ queue[j] = n
      BY <2>5 DEF Earlier
    <3>2. Position(m) = i /\ Position(n) = j
      BY <3>1 DEF Position, TurnIInv, RowsAreOfSenders
    <3> QED BY <3>1, <3>2
  <2>6. ReadOnceInOrder
    BY <2>4, <2>5 DEF ReadOnceInOrder, Ascends
  <2>7. OneAtATime
    BY DEF OneAtATime, TurnIInv, HeldIsNext
  <2>8. DeliveredIsSeen
    <3>1. \A m : Has(Shown(seen), m) => m \in SeenMessages
      BY <2>1, ShownIsSeq DEF Has, Shown, SeenMessages
    <3> QED BY <3>1 DEF DeliveredIsSeen, TurnIInv, DeliveredIsHanded
  <2> QED BY <2>1, <2>6, <2>7, <2>8 DEF TurnInv
<1> QED BY <1>1, TurnIsInductive, PTL

(* A message that was counted before the turn gave up its inbox is read by   *)
(* this turn, by the next one or in the replay, whatever the interleaving   *)
(* of the senders with the end of the turn (queue_into_run,                 *)
(* carry_unread_messages).                                                  *)
THEOREM CountedIsRead == TurnSpec => []CountedNotLost
<1>1. TurnIInv => CountedNotLost
  <2> SUFFICES ASSUME TurnIInv, SweptAll, NEW m \in onTime
               PROVE  \/ m \in AppliedSteering
                      \/ sender[m] = "failed"
                      \/ stop = "Error" /\ row[m] = "claimed"
    BY DEF CountedNotLost
  <2>1. m \in Messages /\ row[m] \in {"none", "pending", "claimed", "delivered", "carried"}
    BY DEF TurnIInv, TurnTypeOK
  <2>2. Ended /\ sweep = "waited" /\ CarryHadRoom
    BY DEF SweptAll, CarryHadRoom
  <2>3. sender[m] \in {"done", "failed"} /\ row[m] # "pending" /\ m \notin Cancels
    BY <2>2 DEF TurnIInv, CountedIsKept
  <2>4. sender[m] = "done" => row[m] # "none"
    BY <2>1 DEF TurnIInv, RowsAreOfSenders
  <2>5. row[m] = "claimed" => stop = "Error"
    BY <2>1, <2>3 DEF TurnIInv, CountedIsKept
  <2> QED BY <2>1, <2>3, <2>4, <2>5 DEF AppliedSteering
<1> QED BY <1>1, TurnIsInductive, PTL

-----------------------------------------------------------------------------
(* Moving an execution to another phase, or an approval to another state,   *)
(* keeps the record well typed.                                             *)
LEMMA CallUpdate ==
    \A c \in CallRecord, p \in Phases, o \in Outcomes :
        /\ [c EXCEPT !.phase = p] \in CallRecord
        /\ [c EXCEPT !.phase = p, !.outcome = o] \in CallRecord
  BY DEF CallRecord

LEMMA ApprovalUpdate ==
    \A g \in ApprovalRow, by \in Executions \cup {TaskUpdate} :
        /\ [g EXCEPT !.state = "revoked"] \in ApprovalRow
        /\ [g EXCEPT !.state = "consumed", !.by = by] \in ApprovalRow
  BY DEF ApprovalRow

(* Receipts stay truthful when a step takes no effect, lets every execution *)
(* with a receipt or an effect keep its request, and settles at most what   *)
(* was read or took its effect.                                             *)
LEMMA TruthKept ==
    ASSUME ToolTypeOK, ReceiptTruthful, took' = took,
           \A d \in Executions :
               d \in took \/ receipt[d] # "none" => call'[d].request = call[d].request,
           \A d \in Executions :
               \/ receipt'[d] = receipt[d] \/ receipt'[d] = "outcome_unknown"
               \/ receipt'[d] \in {"denied", "refused"} /\ d \notin took
               \/ receipt'[d] = "settled" /\ (call'[d].request \in ReadOnly \/ d \in took)
    PROVE  ReceiptTruthful'
<1>1. ASSUME NEW e \in Executions, receipt'[e] = "settled"
      PROVE  \/ call'[e].request \in ReadOnly
             \/ e \in took'
             \/ /\ call'[e].request \in Patches
                /\ \E d \in took' : call'[d].request \in SameAction(call'[e].request)
  <2>1. CASE receipt[e] # "settled"
    BY <1>1, <2>1
  <2>2. CASE receipt[e] = "settled"
    <3>1. call'[e].request = call[e].request
      BY <2>2
    <3>2. CASE /\ call[e].request \in Patches
               /\ \E d \in took : call[d].request \in SameAction(call[e].request)
      <4>1. PICK d \in took : call[d].request \in SameAction(call[e].request)
        BY <3>2
      <4>2. d \in took' /\ call'[d].request = call[d].request
        BY <4>1 DEF ToolTypeOK
      <4> QED
        BY <3>1, <3>2, <4>1, <4>2
    <3> QED
      BY <2>2, <3>1, <3>2 DEF ReceiptTruthful
  <2> QED
    BY <2>1, <2>2
<1>2. \A e \in Executions : receipt'[e] \in {"denied", "refused"} => e \notin took'
  BY DEF ReceiptTruthful
<1> QED
  BY <1>1, <1>2 DEF ReceiptTruthful

(* Consuming the approval of a call that is gated changes the state of that *)
(* approval, which was active, and the phase of that call.                  *)
LEMMA ConsumedRow ==
    ASSUME ToolTypeOK, PhaseInv, NEW e \in Executions, NEW by, NEW p, call[e].phase = "gated",
           ConsumeApproval(e, by), call' = [call EXCEPT ![e].phase = p]
    PROVE  /\ \A d \in Executions : d # e => call'[d] = call[d]
           /\ call'[e].phase = p /\ call'[e].request = call[e].request
           /\ call'[e].approval = call[e].approval /\ call'[e].outcome = call[e].outcome
           /\ \A a \in Approvals :
                 /\ approval'[a].request = approval[a].request
                 /\ approval'[a].state = "none" <=> approval[a].state = "none"
<1>1. call[e] \in CallRecord /\ call \in [Executions -> CallRecord] /\ approval \in [Approvals -> ApprovalRow]
  BY DEF ToolTypeOK
<1>2. \A d \in Executions : call'[d] = IF d = e THEN [call[e] EXCEPT !.phase = p] ELSE call[d]
  BY <1>1
<1>3. /\ [call[e] EXCEPT !.phase = p].phase = p /\ [call[e] EXCEPT !.phase = p].request = call[e].request
      /\ [call[e] EXCEPT !.phase = p].approval = call[e].approval
      /\ [call[e] EXCEPT !.phase = p].outcome = call[e].outcome
  BY ONLY <1>1 DEF CallRecord
<1> DEFINE b == call[e].approval
           r == [approval[b] EXCEPT !.state = "consumed", !.by = by]
<1>4. b \in Approvals /\ approval[b].state = "active" /\ approval[b] \in ApprovalRow
  BY <1>1 DEF PhaseInv, ConsumeApproval
<1>5. r.state = "consumed" /\ r.request = approval[b].request
  BY ONLY <1>4 DEF ApprovalRow
<1>6. approval' = [approval EXCEPT ![b] = r]
  BY <1>1, <1>4 DEF ConsumeApproval
<1> HIDE DEF b, r
<1>7. \A a \in Approvals : approval'[a] = IF a = b THEN r ELSE approval[a]
  BY <1>1, <1>6
<1> QED
  BY <1>2, <1>3, <1>4, <1>5, <1>7

(* The inductive invariant holds of a store without tool calls.             *)
LEMMA ToolInvInit == ToolInit => ToolInv
  BY ToolAssumption
     DEF ToolInit, ToolInv, ToolTypeOK, GrantsInv, PhaseInv, IntentInv, OutcomeInv, AppliedInv,
         ReceiptTruthful, NotPrepared, NoGrant, NoCall, CallRecord, ApprovalRow, Phases, Outcomes

(* Every operation of the service, of the store and of the environment      *)
(* keeps the state well typed.                                              *)
LEMMA ToolTypeStep == ToolInv /\ [ToolNext]_toolVars => ToolTypeOK' /\ generation' # 0
<1> SUFFICES ASSUME ToolInv, [ToolNext]_toolVars
             PROVE  ToolTypeOK' /\ generation' # 0
  OBVIOUS
<1> USE ToolAssumption
<1>0. ToolTypeOK /\ generation # 0 /\ PhaseInv
  BY DEF ToolInv
<1>1. CASE Takeover
  BY <1>0, <1>1 DEF Takeover, ToolTypeOK
<1>2. CASE ChangePolicy
  BY <1>0, <1>2 DEF ChangePolicy, ToolTypeOK
<1>3. ASSUME NEW a \in Approvals, Expire(a)
      PROVE  ToolTypeOK' /\ generation' # 0
  BY <1>0, <1>3 DEF Expire, ToolTypeOK
<1>4. ASSUME NEW a \in Approvals, Revoke(a)
      PROVE  ToolTypeOK' /\ generation' # 0
  <2>1. approval' = [approval EXCEPT ![a] = [approval[a] EXCEPT !.state = "revoked"]]
    BY <1>4 DEF Revoke
  <2>2. approval' \in [Approvals -> ApprovalRow]
    BY <1>0, <2>1, ApprovalUpdate DEF ToolTypeOK
  <2> QED
    BY <1>0, <1>4, <2>2 DEF Revoke, ToolTypeOK
<1>5. ASSUME NEW r \in Requests, EditOutside(r)
      PROVE  ToolTypeOK' /\ generation' # 0
  BY <1>0, <1>5 DEF EditOutside, ToolTypeOK
<1>6. ASSUME NEW r \in Requests, NEW denial \in BOOLEAN, Prepare(r, denial)
      PROVE  ToolTypeOK' /\ generation' # 0
  BY <1>0, <1>6 DEF Prepare, NotPrepared, ToolTypeOK
<1>7. ASSUME NEW a \in Approvals, NEW r \in Requests, Approve(a, r)
      PROVE  ToolTypeOK' /\ generation' # 0
  BY <1>0, <1>7 DEF Approve, ToolTypeOK, ApprovalRow
<1>8. ASSUME NEW e \in Executions, NEW r \in Requests, RecordDenied(e, r)
      PROVE  ToolTypeOK' /\ generation' # 0
  BY <1>0, <1>8 DEF RecordDenied, ToolTypeOK, CallRecord, Phases, Outcomes
<1>9. ASSUME NEW e \in Executions, NEW r \in Requests, NEW a \in Approvals, Begin(e, r, a)
      PROVE  ToolTypeOK' /\ generation' # 0
  BY <1>0, <1>9 DEF Begin, Binds, ToolTypeOK, CallRecord, Phases, Outcomes
<1>10. ASSUME NEW e \in Executions, CommitToolIntent(e)
      PROVE  ToolTypeOK' /\ generation' # 0
  <2>1. call' = [call EXCEPT ![e] = [call[e] EXCEPT !.phase = "begun"]]
    BY <1>10 DEF CommitToolIntent, ConsumeApproval
  <2>2. call' \in [Executions -> CallRecord]
    BY <1>0, <2>1, CallUpdate DEF ToolTypeOK, Phases, Outcomes
  <2>3. approval' = [approval EXCEPT ![call[e].approval] =
                        [approval[call[e].approval] EXCEPT !.state = "consumed", !.by = e]]
    BY <1>10 DEF CommitToolIntent, ConsumeApproval
  <2>4. approval' \in [Approvals -> ApprovalRow]
    BY <1>0, <1>10, <2>3, ApprovalUpdate DEF ToolTypeOK, PhaseInv, CommitToolIntent
  <2> QED
    BY <1>0, <1>10, <2>2, <2>4 DEF CommitToolIntent, ToolTypeOK
<1>11. ASSUME NEW e \in Executions, CommitToolTaskUpdate(e)
      PROVE  ToolTypeOK' /\ generation' # 0
  <2>1. call' = [call EXCEPT ![e] = [call[e] EXCEPT !.phase = "closed"]]
    BY <1>11 DEF CommitToolTaskUpdate, ConsumeApproval
  <2>2. call' \in [Executions -> CallRecord]
    BY <1>0, <2>1, CallUpdate DEF ToolTypeOK, Phases, Outcomes
  <2>3. approval' = [approval EXCEPT ![call[e].approval] =
                        [approval[call[e].approval] EXCEPT !.state = "consumed", !.by = TaskUpdate]]
    BY <1>11 DEF CommitToolTaskUpdate, ConsumeApproval
  <2>4. approval' \in [Approvals -> ApprovalRow]
    BY <1>0, <1>11, <2>3, ApprovalUpdate DEF ToolTypeOK, PhaseInv, CommitToolTaskUpdate
  <2> QED
    BY <1>0, <1>11, <2>2, <2>4 DEF CommitToolTaskUpdate, ToolTypeOK
<1>12. ASSUME NEW e \in Executions, CommitRefused(e)
      PROVE  ToolTypeOK' /\ generation' # 0
  <2>1. call' = [call EXCEPT ![e] = [call[e] EXCEPT !.phase = "closed"]]
    BY <1>12 DEF CommitRefused
  <2>2. call' \in [Executions -> CallRecord]
    BY <1>0, <2>1, CallUpdate DEF ToolTypeOK, Phases, Outcomes
  <2> QED
    BY <1>0, <1>12, <2>2 DEF CommitRefused, ToolTypeOK
<1>13. ASSUME NEW e \in Executions, TakeEffect(e)
      PROVE  ToolTypeOK' /\ generation' # 0
  BY <1>0, <1>13 DEF TakeEffect, ToolTypeOK
<1>14. ASSUME NEW e \in Executions, NEW outcome \in Outcomes \ {"none"}, RunBegun(e, outcome)
      PROVE  ToolTypeOK' /\ generation' # 0
  <2>1. call' = [call EXCEPT ![e] = [call[e] EXCEPT !.phase = "ran", !.outcome = outcome]]
    BY <1>14 DEF RunBegun
  <2>2. call' \in [Executions -> CallRecord]
    BY <1>0, <2>1, CallUpdate DEF ToolTypeOK, Phases, Outcomes
  <2> QED
    BY <1>0, <1>14, <2>2 DEF RunBegun, ToolTypeOK
<1>15. ASSUME NEW e \in Executions, FinishBegun(e)
      PROVE  ToolTypeOK' /\ generation' # 0
  <2>1. call' = [call EXCEPT ![e] = [call[e] EXCEPT !.phase = "closed"]]
    BY <1>15 DEF FinishBegun, Settle, ReceiptFor, IntentStatusFor
  <2>2. call' \in [Executions -> CallRecord]
    BY <1>0, <2>1, CallUpdate DEF ToolTypeOK, Phases, Outcomes
  <2> QED
    BY <1>0, <1>15, <2>2 DEF FinishBegun, Settle, ReceiptFor, IntentStatusFor, ToolTypeOK
<1>16. ASSUME NEW e \in Executions, FinishRefused(e)
      PROVE  ToolTypeOK' /\ generation' # 0
  <2>1. call' = [call EXCEPT ![e] = [call[e] EXCEPT !.phase = "closed"]]
    BY <1>16 DEF FinishRefused
  <2>2. call' \in [Executions -> CallRecord]
    BY <1>0, <2>1, CallUpdate DEF ToolTypeOK, Phases, Outcomes
  <2> QED
    BY <1>0, <1>16, <2>2 DEF FinishRefused, ToolTypeOK
<1>17. ASSUME NEW e \in Executions, ReconcilePending(e)
      PROVE  ToolTypeOK' /\ generation' # 0
  BY <1>0, <1>17 DEF ReconcilePending, Settle, IntentStatusFor, ToolTypeOK
<1>18. CASE UNCHANGED toolVars
  BY <1>0, <1>18 DEF toolVars, ToolTypeOK
<1> QED
  BY <1>1, <1>2, <1>3, <1>4, <1>5, <1>6, <1>7, <1>8, <1>9, <1>10, <1>11, <1>12, <1>13, <1>14, <1>15,
     <1>16, <1>17, <1>18 DEF ToolNext

(* Every operation preserves the inductive invariant.                       *)
LEMMA ToolInvStep == ToolInv /\ [ToolNext]_toolVars => ToolInv'
<1> SUFFICES ASSUME ToolInv, [ToolNext]_toolVars
             PROVE  ToolInv'
  OBVIOUS
<1> USE ToolAssumption
<1>0. generation # 0 /\ ToolTypeOK /\ GrantsInv /\ PhaseInv /\ IntentInv /\ OutcomeInv /\ AppliedInv /\ ReceiptTruthful
  BY DEF ToolInv
<1>t. ToolTypeOK' /\ generation' # 0
  BY ToolTypeStep
<1>1. CASE Takeover
  BY <1>0, <1>t, <1>1
     DEF Takeover, ToolInv, ToolTypeOK, GrantsInv, PhaseInv, IntentInv, OutcomeInv, AppliedInv, ReceiptTruthful
<1>2. CASE ChangePolicy
  BY <1>0, <1>t, <1>2
     DEF ChangePolicy, ToolInv, ToolTypeOK, GrantsInv, PhaseInv, IntentInv, OutcomeInv, AppliedInv, ReceiptTruthful
<1>3. ASSUME NEW a \in Approvals, Expire(a)
      PROVE  ToolInv'
  BY <1>0, <1>t, <1>3
     DEF Expire, ToolInv, ToolTypeOK, GrantsInv, PhaseInv, IntentInv, OutcomeInv, AppliedInv, ReceiptTruthful
<1>4. ASSUME NEW a \in Approvals, Revoke(a)
      PROVE  ToolInv'
  <2>1. GrantsInv'
    BY <1>0, <1>4 DEF Revoke, GrantsInv, PhaseInv, ToolTypeOK, ApprovalRow, CallRecord
  <2>2. PhaseInv'
    BY <1>0, <1>4 DEF Revoke, PhaseInv, IntentInv, GrantsInv, ToolTypeOK, ApprovalRow, CallRecord, Phases
  <2>3. IntentInv'
    BY <1>0, <1>4 DEF Revoke, IntentInv, PhaseInv, ToolTypeOK, ApprovalRow, CallRecord
  <2>4. OutcomeInv' /\ AppliedInv'
    BY <1>0, <1>4 DEF Revoke, OutcomeInv, AppliedInv, PhaseInv, IntentInv, ToolTypeOK, CallRecord, Outcomes, Phases
  <2>5. ReceiptTruthful'
    BY <1>0, <1>4 DEF Revoke, ReceiptTruthful, OutcomeInv, AppliedInv, PhaseInv, IntentInv, ToolTypeOK, CallRecord
  <2> QED
    BY <1>t, <2>1, <2>2, <2>3, <2>4, <2>5 DEF ToolInv
<1>5. ASSUME NEW r \in Requests, EditOutside(r)
      PROVE  ToolInv'
  BY <1>0, <1>t, <1>5
     DEF EditOutside, ToolInv, ToolTypeOK, GrantsInv, PhaseInv, IntentInv, OutcomeInv, AppliedInv, ReceiptTruthful
<1>6. ASSUME NEW r \in Requests, NEW denial \in BOOLEAN, Prepare(r, denial)
      PROVE  ToolInv'
  BY <1>0, <1>t, <1>6
     DEF Prepare, NotPrepared, ToolInv, ToolTypeOK, GrantsInv, PhaseInv, IntentInv, OutcomeInv, AppliedInv, ReceiptTruthful
<1>7. ASSUME NEW a \in Approvals, NEW r \in Requests, Approve(a, r)
      PROVE  ToolInv'
  <2>1. GrantsInv'
    BY <1>0, <1>7 DEF Approve, GrantsInv, PhaseInv, ToolTypeOK, ApprovalRow, CallRecord
  <2>2. PhaseInv'
    BY <1>0, <1>7 DEF Approve, PhaseInv, IntentInv, GrantsInv, ToolTypeOK, ApprovalRow, CallRecord, Phases
  <2>3. IntentInv'
    BY <1>0, <1>7 DEF Approve, IntentInv, PhaseInv, ToolTypeOK, ApprovalRow, CallRecord
  <2>4. OutcomeInv' /\ AppliedInv'
    BY <1>0, <1>7 DEF Approve, OutcomeInv, AppliedInv, PhaseInv, IntentInv, ToolTypeOK, CallRecord, Outcomes, Phases
  <2>5. ReceiptTruthful'
    BY <1>0, <1>7 DEF Approve, ReceiptTruthful, OutcomeInv, AppliedInv, PhaseInv, IntentInv, ToolTypeOK, CallRecord
  <2> QED
    BY <1>t, <2>1, <2>2, <2>3, <2>4, <2>5 DEF ToolInv
<1>8. ASSUME NEW e \in Executions, NEW r \in Requests, RecordDenied(e, r)
      PROVE  ToolInv'
  <2>1. GrantsInv'
    BY <1>0, <1>8 DEF RecordDenied, GrantsInv, PhaseInv, ToolTypeOK, ApprovalRow, CallRecord
  <2>2. PhaseInv'
    BY <1>0, <1>8 DEF RecordDenied, PhaseInv, IntentInv, GrantsInv, ToolTypeOK, ApprovalRow, CallRecord, Phases
  <2>3. IntentInv'
    BY <1>0, <1>8 DEF RecordDenied, IntentInv, PhaseInv, ToolTypeOK, ApprovalRow, CallRecord
  <2>4. OutcomeInv' /\ AppliedInv'
    BY <1>0, <1>8 DEF RecordDenied, OutcomeInv, AppliedInv, PhaseInv, IntentInv, ToolTypeOK, CallRecord, Outcomes, Phases
  <2>5. ReceiptTruthful'
    <3>1. /\ took' = took
          /\ \A d \in Executions :
                d \in took \/ receipt[d] # "none" => call'[d].request = call[d].request
          /\ \A d \in Executions :
                receipt'[d] = receipt[d] \/ (receipt'[d] = "denied" /\ d \notin took)
      BY <1>0, <1>8 DEF RecordDenied, PhaseInv, IntentInv, ToolTypeOK, CallRecord
    <3> QED
      BY <1>0, <3>1, TruthKept
  <2> QED
    BY <1>t, <2>1, <2>2, <2>3, <2>4, <2>5 DEF ToolInv
<1>9. ASSUME NEW e \in Executions, NEW r \in Requests, NEW a \in Approvals, Begin(e, r, a)
      PROVE  ToolInv'
  <2>1. GrantsInv'
    BY <1>0, <1>9 DEF Begin, Binds, GrantsInv, PhaseInv, ToolTypeOK, ApprovalRow, CallRecord
  <2>2. PhaseInv'
    BY <1>0, <1>9 DEF Begin, Binds, PhaseInv, IntentInv, GrantsInv, ToolTypeOK, ApprovalRow, CallRecord, Phases
  <2>3. IntentInv'
    BY <1>0, <1>9 DEF Begin, Binds, IntentInv, PhaseInv, ToolTypeOK, ApprovalRow, CallRecord
  <2>4. OutcomeInv' /\ AppliedInv'
    BY <1>0, <1>9 DEF Begin, Binds, OutcomeInv, AppliedInv, PhaseInv, IntentInv, ToolTypeOK, CallRecord, Outcomes, Phases
  <2>5. ReceiptTruthful'
    <3>1. /\ took' = took
          /\ \A d \in Executions :
                d \in took \/ receipt[d] # "none" => call'[d].request = call[d].request
          /\ \A d \in Executions :
                receipt'[d] = receipt[d] \/ (receipt'[d] = "denied" /\ d \notin took)
      BY <1>0, <1>9 DEF Begin, PhaseInv, IntentInv, ToolTypeOK, CallRecord
    <3> QED
      BY <1>0, <3>1, TruthKept
  <2> QED
    BY <1>t, <2>1, <2>2, <2>3, <2>4, <2>5 DEF ToolInv
<1>10. ASSUME NEW e \in Executions, CommitToolIntent(e)
      PROVE  ToolInv'
  <2>0. /\ \A d \in Executions : d # e => call'[d] = call[d]
        /\ call'[e].phase = "begun" /\ call'[e].request = call[e].request
        /\ call'[e].approval = call[e].approval /\ call'[e].outcome = call[e].outcome
        /\ \A a \in Approvals :
              /\ approval'[a].request = approval[a].request
              /\ approval'[a].state = "none" <=> approval[a].state = "none"
    BY <1>0, <1>10, ConsumedRow DEF CommitToolIntent
  <2>1. GrantsInv'
    BY <1>0, <1>10, <2>0 DEF CommitToolIntent, GrantsInv
  <2>2. PhaseInv'
    <3>1. /\ intent'[e] = "recorded" /\ \A d \in Executions : d # e => intent'[d] = intent[d]
          /\ receipt' = receipt
      BY <1>0, <1>10 DEF CommitToolIntent, ToolTypeOK
    <3>2. call[e].request \in Requests /\ call[e].outcome = "none"
      BY <1>0, <1>10 DEF CommitToolIntent, PhaseInv
    <3>3. ASSUME NEW d \in Executions, d # e
          PROVE  /\ call'[d] = call[d] /\ intent'[d] = intent[d] /\ receipt'[d] = receipt[d]
                 /\ call[d].phase = "gated" =>
                       /\ call[d].approval \in Approvals
                       /\ approval'[call[d].approval].state # "none"
                       /\ approval'[call[d].approval].request = call[d].request
      BY <1>0, <2>0, <3>1, <3>3 DEF PhaseInv
    <3> QED
      BY <1>0, <2>0, <3>1, <3>2, <3>3 DEF PhaseInv
  <2>3. IntentInv'
    <3>1. ASSUME NEW d \in Executions, d # e, intent[d] # "none"
          PROVE  /\ call'[d] = call[d]
                 /\ approval'[call[d].approval] = approval[call[d].approval]
      BY <1>0, <1>10, <3>1 DEF CommitToolIntent, ConsumeApproval, IntentInv, PhaseInv, ToolTypeOK
    <3>2. intent'[e] # "none" =>
            /\ call'[e].approval \in Approvals
            /\ approval'[call'[e].approval].state = "consumed"
            /\ approval'[call'[e].approval].by = e
            /\ approval'[call'[e].approval].request = call'[e].request
      BY <1>0, <1>10 DEF CommitToolIntent, ConsumeApproval, PhaseInv, ToolTypeOK, ApprovalRow, CallRecord
    <3>3. \A d \in took' : intent'[d] # "none" /\ call'[d].request \notin ReadOnly
      BY <1>0, <1>10 DEF CommitToolIntent, IntentInv, PhaseInv, ToolTypeOK, CallRecord
    <3>4. \A d \in Executions : d # e => intent'[d] = intent[d]
      BY <1>0, <1>10 DEF CommitToolIntent, ToolTypeOK
    <3> QED
      BY <1>0, <3>1, <3>2, <3>3, <3>4 DEF IntentInv
  <2>4. OutcomeInv' /\ AppliedInv'
    BY <1>0, <1>10 DEF CommitToolIntent, ConsumeApproval, OutcomeInv, AppliedInv, PhaseInv, IntentInv, ToolTypeOK, CallRecord, Outcomes, Phases
  <2>5. ReceiptTruthful'
    <3>1. /\ took' = took
          /\ \A d \in Executions :
                d \in took \/ receipt[d] # "none" => call'[d].request = call[d].request
          /\ \A d \in Executions :
                receipt'[d] = receipt[d] \/ (receipt'[d] = "denied" /\ d \notin took)
      BY <1>0, <1>10 DEF CommitToolIntent, PhaseInv, IntentInv, ToolTypeOK, CallRecord
    <3> QED
      BY <1>0, <3>1, TruthKept
  <2> QED
    BY <1>t, <2>1, <2>2, <2>3, <2>4, <2>5 DEF ToolInv
<1>11. ASSUME NEW e \in Executions, CommitToolTaskUpdate(e)
      PROVE  ToolInv'
  <2>0. /\ \A d \in Executions : d # e => call'[d] = call[d]
        /\ call'[e].phase = "closed" /\ call'[e].request = call[e].request
        /\ call'[e].approval = call[e].approval /\ call'[e].outcome = call[e].outcome
        /\ \A a \in Approvals :
              /\ approval'[a].request = approval[a].request
              /\ approval'[a].state = "none" <=> approval[a].state = "none"
    BY <1>0, <1>11, ConsumedRow DEF CommitToolTaskUpdate
  <2>1. GrantsInv'
    BY <1>0, <1>11, <2>0 DEF CommitToolTaskUpdate, GrantsInv
  <2>2. PhaseInv'
    <3>1. /\ intent'[e] = intent[e] /\ \A d \in Executions : d # e => intent'[d] = intent[d]
          /\ receipt' = receipt
      BY <1>0, <1>11 DEF CommitToolTaskUpdate, ToolTypeOK
    <3>2. call[e].request \in Requests /\ call[e].outcome = "none"
      BY <1>0, <1>11 DEF CommitToolTaskUpdate, PhaseInv
    <3>3. ASSUME NEW d \in Executions, d # e
          PROVE  /\ call'[d] = call[d] /\ intent'[d] = intent[d] /\ receipt'[d] = receipt[d]
                 /\ call[d].phase = "gated" =>
                       /\ call[d].approval \in Approvals
                       /\ approval'[call[d].approval].state # "none"
                       /\ approval'[call[d].approval].request = call[d].request
      BY <1>0, <2>0, <3>1, <3>3 DEF PhaseInv
    <3> QED
      BY <1>0, <2>0, <3>1, <3>2, <3>3 DEF PhaseInv
  <2>3. IntentInv'
    <3>1. ASSUME NEW d \in Executions, d # e, intent[d] # "none"
          PROVE  /\ call'[d] = call[d]
                 /\ approval'[call[d].approval] = approval[call[d].approval]
      BY <1>0, <1>11, <3>1 DEF CommitToolTaskUpdate, ConsumeApproval, IntentInv, PhaseInv, ToolTypeOK
    <3>2. intent'[e] = "none"
      BY <1>0, <1>11 DEF CommitToolTaskUpdate, PhaseInv, ToolTypeOK
    <3>3. \A d \in took' : intent'[d] # "none" /\ call'[d].request \notin ReadOnly
      BY <1>0, <1>11 DEF CommitToolTaskUpdate, IntentInv, PhaseInv, ToolTypeOK, CallRecord
    <3>4. \A d \in Executions : d # e => intent'[d] = intent[d]
      BY <1>0, <1>11 DEF CommitToolTaskUpdate, ToolTypeOK
    <3> QED
      BY <1>0, <3>1, <3>2, <3>3, <3>4 DEF IntentInv
  <2>4. OutcomeInv' /\ AppliedInv'
    BY <1>0, <1>11 DEF CommitToolTaskUpdate, ConsumeApproval, OutcomeInv, AppliedInv, PhaseInv, IntentInv, ToolTypeOK, CallRecord, Outcomes, Phases
  <2>5. ReceiptTruthful'
    <3>1. /\ took' = took
          /\ \A d \in Executions :
                d \in took \/ receipt[d] # "none" => call'[d].request = call[d].request
          /\ \A d \in Executions :
                receipt'[d] = receipt[d] \/ (receipt'[d] = "denied" /\ d \notin took)
      BY <1>0, <1>11 DEF CommitToolTaskUpdate, PhaseInv, IntentInv, ToolTypeOK, CallRecord
    <3> QED
      BY <1>0, <3>1, TruthKept
  <2> QED
    BY <1>t, <2>1, <2>2, <2>3, <2>4, <2>5 DEF ToolInv
<1>12. ASSUME NEW e \in Executions, CommitRefused(e)
      PROVE  ToolInv'
  <2>1. GrantsInv'
    BY <1>0, <1>12 DEF CommitRefused, GrantsInv, PhaseInv, ToolTypeOK, ApprovalRow, CallRecord
  <2>2. PhaseInv'
    BY <1>0, <1>12 DEF CommitRefused, PhaseInv, IntentInv, GrantsInv, ToolTypeOK, ApprovalRow, CallRecord, Phases
  <2>3. IntentInv'
    BY <1>0, <1>12 DEF CommitRefused, IntentInv, PhaseInv, ToolTypeOK, ApprovalRow, CallRecord
  <2>4. OutcomeInv' /\ AppliedInv'
    BY <1>0, <1>12 DEF CommitRefused, OutcomeInv, AppliedInv, PhaseInv, IntentInv, ToolTypeOK, CallRecord, Outcomes, Phases
  <2>5. ReceiptTruthful'
    <3>1. /\ took' = took
          /\ \A d \in Executions :
                d \in took \/ receipt[d] # "none" => call'[d].request = call[d].request
          /\ \A d \in Executions :
                receipt'[d] = receipt[d] \/ (receipt'[d] = "denied" /\ d \notin took)
      BY <1>0, <1>12 DEF CommitRefused, PhaseInv, IntentInv, ToolTypeOK, CallRecord
    <3> QED
      BY <1>0, <3>1, TruthKept
  <2> QED
    BY <1>t, <2>1, <2>2, <2>3, <2>4, <2>5 DEF ToolInv
<1>13. ASSUME NEW e \in Executions, TakeEffect(e)
      PROVE  ToolInv'
  <2>1. GrantsInv' /\ PhaseInv' /\ IntentInv' /\ OutcomeInv'
    BY <1>0, <1>13 DEF TakeEffect, ToolTypeOK, GrantsInv, PhaseInv, IntentInv, OutcomeInv
  <2>2. AppliedInv'
    BY <1>0, <1>13 DEF TakeEffect, ToolTypeOK, PhaseInv, AppliedInv, SameAction
  <2>3. ReceiptTruthful'
    BY <1>0, <1>13 DEF TakeEffect, ToolTypeOK, PhaseInv, OutcomeInv, ReceiptTruthful
  <2> QED
    BY <1>t, <2>1, <2>2, <2>3 DEF ToolInv
<1>14. ASSUME NEW e \in Executions, NEW outcome \in Outcomes \ {"none"}, RunBegun(e, outcome)
      PROVE  ToolInv'
  <2>1. GrantsInv'
    BY <1>0, <1>14 DEF RunBegun, GrantsInv, PhaseInv, ToolTypeOK, ApprovalRow, CallRecord
  <2>2. PhaseInv'
    BY <1>0, <1>14 DEF RunBegun, PhaseInv, IntentInv, GrantsInv, ToolTypeOK, ApprovalRow, CallRecord, Phases
  <2>3. IntentInv'
    BY <1>0, <1>14 DEF RunBegun, IntentInv, PhaseInv, ToolTypeOK, ApprovalRow, CallRecord
  <2>4. OutcomeInv' /\ AppliedInv'
    BY <1>0, <1>14 DEF RunBegun, OutcomeInv, AppliedInv, PhaseInv, IntentInv, ToolTypeOK, CallRecord, Outcomes, Phases
  <2>5. ReceiptTruthful'
    BY <1>0, <1>14 DEF RunBegun, ReceiptTruthful, OutcomeInv, AppliedInv, PhaseInv, IntentInv, ToolTypeOK, CallRecord
  <2> QED
    BY <1>t, <2>1, <2>2, <2>3, <2>4, <2>5 DEF ToolInv
<1>15. ASSUME NEW e \in Executions, FinishBegun(e)
      PROVE  ToolInv'
  <2>1. GrantsInv'
    BY <1>0, <1>15 DEF FinishBegun, Settle, ReceiptFor, IntentStatusFor, GrantsInv, PhaseInv, ToolTypeOK, ApprovalRow, CallRecord
  <2>2. PhaseInv'
    BY <1>0, <1>15 DEF FinishBegun, Settle, ReceiptFor, IntentStatusFor, PhaseInv, IntentInv, GrantsInv, ToolTypeOK, ApprovalRow, CallRecord, Phases
  <2>3. IntentInv'
    BY <1>0, <1>15 DEF FinishBegun, Settle, ReceiptFor, IntentStatusFor, IntentInv, PhaseInv, ToolTypeOK, ApprovalRow, CallRecord
  <2>4. OutcomeInv' /\ AppliedInv'
    BY <1>0, <1>15 DEF FinishBegun, Settle, ReceiptFor, IntentStatusFor, OutcomeInv, AppliedInv, PhaseInv, IntentInv, ToolTypeOK, CallRecord, Outcomes, Phases
  <2>5. ReceiptTruthful'
    <3>1. /\ took' = took
          /\ \A d \in Executions : call'[d].request = call[d].request
          /\ \A d \in Executions :
                \/ receipt'[d] = receipt[d] \/ receipt'[d] = "outcome_unknown"
                \/ receipt'[d] \in {"denied", "refused"} /\ d \notin took
                \/ receipt'[d] = "settled" /\ (call'[d].request \in ReadOnly \/ d \in took)
      BY <1>0, <1>15 DEF FinishBegun, Settle, ReceiptFor, OutcomeInv, PhaseInv, IntentInv, ToolTypeOK, CallRecord
    <3> QED
      BY <1>0, <3>1, TruthKept
  <2> QED
    BY <1>t, <2>1, <2>2, <2>3, <2>4, <2>5 DEF ToolInv
<1>16. ASSUME NEW e \in Executions, FinishRefused(e)
      PROVE  ToolInv'
  <2>1. GrantsInv'
    BY <1>0, <1>16 DEF FinishRefused, GrantsInv, PhaseInv, ToolTypeOK, ApprovalRow, CallRecord
  <2>2. PhaseInv'
    BY <1>0, <1>16 DEF FinishRefused, PhaseInv, IntentInv, GrantsInv, ToolTypeOK, ApprovalRow, CallRecord, Phases
  <2>3. IntentInv'
    BY SMTT(60), <1>0, <1>16 DEF FinishRefused, IntentInv, PhaseInv, ToolTypeOK, ApprovalRow, CallRecord
  <2>4. OutcomeInv' /\ AppliedInv'
    BY <1>0, <1>16 DEF FinishRefused, OutcomeInv, AppliedInv, PhaseInv, IntentInv, ToolTypeOK, CallRecord, Outcomes, Phases
  <2>5. ReceiptTruthful'
    <3>1. /\ took' = took
          /\ \A d \in Executions : call'[d].request = call[d].request
          /\ receipt' = receipt
      BY <1>0, <1>16 DEF FinishRefused, ToolTypeOK, CallRecord
    <3> QED
      BY <1>0, <3>1, TruthKept
  <2> QED
    BY <1>t, <2>1, <2>2, <2>3, <2>4, <2>5 DEF ToolInv
<1>17. ASSUME NEW e \in Executions, ReconcilePending(e)
      PROVE  ToolInv'
  <2>1. GrantsInv'
    BY <1>0, <1>17 DEF ReconcilePending, Settle, IntentStatusFor, GrantsInv, PhaseInv, ToolTypeOK, ApprovalRow, CallRecord
  <2>2. PhaseInv'
    BY <1>0, <1>17 DEF ReconcilePending, Settle, IntentStatusFor, PhaseInv, IntentInv, GrantsInv, ToolTypeOK, ApprovalRow, CallRecord, Phases
  <2>3. IntentInv'
    BY <1>0, <1>17 DEF ReconcilePending, Settle, IntentStatusFor, IntentInv, PhaseInv, ToolTypeOK, ApprovalRow, CallRecord
  <2>4. OutcomeInv' /\ AppliedInv'
    BY <1>0, <1>17 DEF ReconcilePending, Settle, IntentStatusFor, OutcomeInv, AppliedInv, PhaseInv, IntentInv, ToolTypeOK, CallRecord, Outcomes, Phases
  <2>5. ReceiptTruthful'
    BY <1>0, <1>17 DEF ReconcilePending, Settle, IntentStatusFor, ReceiptTruthful, OutcomeInv, AppliedInv, PhaseInv, IntentInv, ToolTypeOK, CallRecord
  <2> QED
    BY <1>t, <2>1, <2>2, <2>3, <2>4, <2>5 DEF ToolInv
<1>18. CASE UNCHANGED toolVars
  BY <1>0, <1>t, <1>18
     DEF toolVars, ToolInv, ToolTypeOK, GrantsInv, PhaseInv, IntentInv, OutcomeInv, AppliedInv, ReceiptTruthful
<1> QED
  BY <1>1, <1>2, <1>3, <1>4, <1>5, <1>6, <1>7, <1>8, <1>9, <1>10, <1>11, <1>12, <1>13, <1>14, <1>15,
     <1>16, <1>17, <1>18 DEF ToolNext

LEMMA ToolInvAlways == ToolSpec => []ToolInv
  BY ToolInvInit, ToolInvStep, PTL DEF ToolSpec

(* No side effect without an approval that this execution alone consumed,   *)
(* given for exactly its request and not denied by the policy, through      *)
(* every race of begins, revocations, expiries and host takeovers.          *)
THEOREM EffectsAreAuthorized == ToolSpec => []SideEffectAuthorized
<1>1. ToolInv => SideEffectAuthorized
  BY ToolAssumption DEF ToolInv, GrantsInv, IntentInv, ToolTypeOK, SideEffectAuthorized, ApprovalRow
<1> QED
  BY <1>1, ToolInvAlways, PTL

(* What a receipt claims of the side effect is true, now and later.         *)
THEOREM ReceiptsAreTruthful == ToolSpec => []ReceiptTruthful
<1>1. ToolInv => ReceiptTruthful
  BY DEF ToolInv
<1> QED
  BY <1>1, ToolInvAlways, PTL

(* Approvals, intents and receipts that reached a final state stay there.   *)
THEOREM FinalRecordsStay == ToolSpec => RecordsAreFinal
<1> DEFINE Kept ==
      /\ \A a \in Approvals :
            approval[a].state \in {"consumed", "revoked"} => approval'[a] = approval[a]
      /\ \A e \in Executions :
            /\ intent[e] \in {"settled", "outcome_unknown"} => intent'[e] = intent[e]
            /\ receipt[e] # "none" => receipt'[e] = receipt[e]
<1>1. ToolInv /\ [ToolNext]_toolVars => [Kept]_toolVars
  <2> SUFFICES ASSUME ToolInv, ToolNext PROVE Kept
    BY DEF toolVars
  <2>0. ToolTypeOK /\ PhaseInv /\ OutcomeInv
    BY DEF ToolInv
  <2>1. CASE Takeover
    BY <2>0, <2>1 DEF Takeover, ToolTypeOK, PhaseInv, OutcomeInv
  <2>2. CASE ChangePolicy
    BY <2>0, <2>2 DEF ChangePolicy, ToolTypeOK, PhaseInv, OutcomeInv
  <2>3. ASSUME NEW a \in Approvals, Expire(a)
        PROVE  Kept
    BY <2>0, <2>3 DEF Expire, ToolTypeOK, PhaseInv, OutcomeInv
  <2>4. ASSUME NEW a \in Approvals, Revoke(a)
        PROVE  Kept
    BY <2>0, <2>4 DEF Revoke, ToolTypeOK, PhaseInv, OutcomeInv
  <2>5. ASSUME NEW r \in Requests, EditOutside(r)
        PROVE  Kept
    BY <2>0, <2>5 DEF EditOutside, ToolTypeOK, PhaseInv, OutcomeInv
  <2>6. ASSUME NEW r \in Requests, NEW denial \in BOOLEAN, Prepare(r, denial)
        PROVE  Kept
    BY <2>0, <2>6 DEF Prepare, NotPrepared, ToolTypeOK, PhaseInv, OutcomeInv
  <2>7. ASSUME NEW a \in Approvals, NEW r \in Requests, Approve(a, r)
        PROVE  Kept
    BY <2>0, <2>7 DEF Approve, ToolTypeOK, PhaseInv, OutcomeInv
  <2>8. ASSUME NEW e \in Executions, NEW r \in Requests, RecordDenied(e, r)
        PROVE  Kept
    BY <2>0, <2>8 DEF RecordDenied, ToolTypeOK, PhaseInv, OutcomeInv
  <2>9. ASSUME NEW e \in Executions, NEW r \in Requests, NEW a \in Approvals, Begin(e, r, a)
        PROVE  Kept
    BY <2>0, <2>9 DEF Begin, Binds, ToolTypeOK, PhaseInv, OutcomeInv
  <2>10. ASSUME NEW e \in Executions, CommitToolIntent(e)
        PROVE  Kept
    BY <2>0, <2>10 DEF CommitToolIntent, ConsumeApproval, ToolTypeOK, PhaseInv, OutcomeInv
  <2>11. ASSUME NEW e \in Executions, CommitToolTaskUpdate(e)
        PROVE  Kept
    BY <2>0, <2>11 DEF CommitToolTaskUpdate, ConsumeApproval, ToolTypeOK, PhaseInv, OutcomeInv
  <2>12. ASSUME NEW e \in Executions, CommitRefused(e)
        PROVE  Kept
    BY <2>0, <2>12 DEF CommitRefused, ToolTypeOK, PhaseInv, OutcomeInv
  <2>13. ASSUME NEW e \in Executions, TakeEffect(e)
        PROVE  Kept
    BY <2>0, <2>13 DEF TakeEffect, ToolTypeOK, PhaseInv, OutcomeInv
  <2>14. ASSUME NEW e \in Executions, NEW outcome \in Outcomes \ {"none"}, RunBegun(e, outcome)
        PROVE  Kept
    BY <2>0, <2>14 DEF RunBegun, ToolTypeOK, PhaseInv, OutcomeInv
  <2>15. ASSUME NEW e \in Executions, FinishBegun(e)
        PROVE  Kept
    BY <2>0, <2>15 DEF FinishBegun, Settle, ReceiptFor, IntentStatusFor, ToolTypeOK, PhaseInv, OutcomeInv
  <2>16. ASSUME NEW e \in Executions, FinishRefused(e)
        PROVE  Kept
    BY <2>0, <2>16 DEF FinishRefused, ToolTypeOK, PhaseInv, OutcomeInv
  <2>17. ASSUME NEW e \in Executions, ReconcilePending(e)
        PROVE  Kept
    BY <2>0, <2>17 DEF ReconcilePending, Settle, IntentStatusFor, ToolTypeOK, PhaseInv, OutcomeInv
  <2> QED
    BY <2>1, <2>2, <2>3, <2>4, <2>5, <2>6, <2>7, <2>8, <2>9, <2>10, <2>11, <2>12, <2>13, <2>14, <2>15,
       <2>16, <2>17 DEF ToolNext
<1> QED
  BY <1>1, ToolInvAlways, PTL DEF ToolSpec, RecordsAreFinal

-----------------------------------------------------------------------------
(* The journal.  What has no durable outcome of its gate is not in it; what *)
(* is open has its intent there and nothing else; what used an approval     *)
(* consumed it.                                                             *)
Ungated(e) == call[e].phase \in {"idle", "gated"}

UngatedIsUnjournaled == \A e \in Executions : Ungated(e) => \A i \in DOMAIN journal : journal[i].of # e

OpenIsJournaled ==
    \A e \in Executions : intent[e] = "recorded" =>
        /\ \E i \in DOMAIN journal : journal[i] = [kind |-> "intent", of |-> e]
        /\ \A i \in DOMAIN journal : journal[i].of = e => journal[i].kind = "intent"

UsedIsConsumed ==
    \A e \in Executions : UsedApproval(e) =>
        call[e].approval \in Approvals /\ approval[call[e].approval].state = "consumed"

GateIInv ==
    /\ ToolInv /\ UngatedIsUnjournaled /\ OpenIsJournaled /\ UsedIsConsumed
    /\ JournalReplays /\ ApprovalUsedOnce

(* A step that writes nothing in the journal: nobody is gated anew, no      *)
(* intent is opened, and what was gated keeps its approval.                 *)
LEMMA QuietKeeps ==
    ASSUME GateIInv, ToolInv', UNCHANGED journal,
           \A e \in Executions : Ungated(e)' => Ungated(e),
           \A e \in Executions : intent'[e] = "recorded" => intent[e] = "recorded",
           \A e \in Executions : ~Ungated(e) => call'[e].approval = call[e].approval,
           \A a \in Approvals : approval[a].state = "consumed" => approval'[a].state = "consumed"
    PROVE  GateIInv'
<1>1. \A e \in Executions : UsedApproval(e) => ~Ungated(e)
  BY DEF GateIInv, UngatedIsUnjournaled, UsedApproval
<1>2. \A e \in Executions : UsedApproval(e)' <=> UsedApproval(e)
  BY DEF UsedApproval
<1>3. UngatedIsUnjournaled' /\ OpenIsJournaled' /\ JournalReplays'
  BY DEF GateIInv, UngatedIsUnjournaled, OpenIsJournaled, JournalReplays
<1>4. UsedIsConsumed' /\ ApprovalUsedOnce'
  BY <1>1, <1>2 DEF GateIInv, UsedIsConsumed, ApprovalUsedOnce
<1> QED BY <1>3, <1>4 DEF GateIInv

(* A step that writes an event: the first one of an execution, or the       *)
(* receipt of an open intent; an event that uses an approval consumes it.   *)
LEMMA EventKeeps ==
    ASSUME GateIInv, ToolInv', NEW e \in Executions, NEW kind \in {"intent", "receipt", "denied", "task_update"},
           journal' = Append(journal, [kind |-> kind, of |-> e]),
           kind = "receipt" => intent[e] = "recorded" /\ ~Ungated(e), kind # "receipt" => Ungated(e),
           ~Ungated(e)',
           \A d \in Executions : d # e => call'[d] = call[d] /\ intent'[d] = intent[d],
           intent'[e] = "recorded" => kind = "intent",
           kind # "denied" => call'[e].approval = call[e].approval,
           \A a \in Approvals : approval[a].state = "consumed" => approval'[a].state = "consumed",
           kind \in {"intent", "task_update"} =>
               /\ call[e].approval \in Approvals /\ approval[call[e].approval].state # "consumed"
               /\ approval'[call[e].approval].state = "consumed"
    PROVE  GateIInv'
<1> DEFINE ev == [kind |-> kind, of |-> e]
           new == Len(journal) + 1
<1>1. /\ journal \in Seq([kind : {"intent", "receipt", "denied", "task_update"}, of : Executions])
      /\ ev \in [kind : {"intent", "receipt", "denied", "task_update"}, of : Executions] /\ ev.kind = kind /\ ev.of = e
  BY DEF GateIInv, ToolInv, ToolTypeOK
<1>2. /\ Len(journal) \in Nat /\ DOMAIN journal = 1..Len(journal) /\ DOMAIN journal' = 1..new
      /\ \A i \in 1..Len(journal) : journal'[i] = journal[i]
      /\ journal'[new] = ev
  BY <1>1
<1>3. /\ \A i \in DOMAIN journal' : (i \in DOMAIN journal /\ i < new) \/ i = new
      /\ \A i \in DOMAIN journal : i \in DOMAIN journal'
  BY <1>2
<1>4. \A i \in DOMAIN journal : journal[i].of = e => kind = "receipt" /\ journal[i].kind = "intent"
  BY DEF GateIInv, UngatedIsUnjournaled, OpenIsJournaled
<1>5. UngatedIsUnjournaled'
  <2> SUFFICES ASSUME NEW d \in Executions, Ungated(d)', NEW i \in DOMAIN journal' PROVE journal'[i].of # d
    BY DEF UngatedIsUnjournaled
  <2>1. d # e /\ Ungated(d)
    BY DEF Ungated
  <2>2. CASE i = new
    BY <1>1, <1>2, <2>1, <2>2
  <2>3. CASE i # new
    BY <1>2, <1>3, <2>1, <2>3 DEF GateIInv, UngatedIsUnjournaled
  <2> QED BY <2>2, <2>3
<1>6. OpenIsJournaled'
  <2> SUFFICES ASSUME NEW d \in Executions, intent'[d] = "recorded"
               PROVE  /\ \E i \in DOMAIN journal' : journal'[i] = [kind |-> "intent", of |-> d]
                      /\ \A i \in DOMAIN journal' : journal'[i].of = d => journal'[i].kind = "intent"
    BY Zenon DEF OpenIsJournaled
  <2>1. CASE d = e
    <3>1. kind = "intent" /\ \A i \in DOMAIN journal : journal[i].of # e
      BY <2>1, <1>4
    <3>2. new \in DOMAIN journal' /\ journal'[new] = [kind |-> "intent", of |-> d]
      BY <1>2, <2>1, <3>1
    <3>3. \A i \in DOMAIN journal' : journal'[i].of = d => i = new
      BY <1>2, <1>3, <2>1, <3>1
    <3> QED BY <1>1, <3>2, <3>3
  <2>2. CASE d # e
    <3>1. intent[d] = "recorded"
      BY <2>2
    <3>2. PICK i \in DOMAIN journal : journal[i] = [kind |-> "intent", of |-> d]
      BY <3>1 DEF GateIInv, OpenIsJournaled
    <3>3. i \in DOMAIN journal' /\ journal'[i] = [kind |-> "intent", of |-> d]
      BY <3>2, <1>2, <1>3
    <3>4. \A j \in DOMAIN journal' : journal'[j].of = d => j \in DOMAIN journal /\ journal'[j] = journal[j]
      BY <1>1, <1>2, <1>3, <2>2
    <3>5. \A j \in DOMAIN journal : journal[j].of = d => journal[j].kind = "intent"
      BY <3>1 DEF GateIInv, OpenIsJournaled
    <3> QED BY <3>3, <3>4, <3>5
  <2> QED BY <2>1, <2>2
<1>7. JournalReplays'
  <2>1. ASSUME NEW i \in DOMAIN journal', NEW j \in DOMAIN journal', i < j, journal'[i].of = journal'[j].of
        PROVE  journal'[i].kind = "intent" /\ journal'[j].kind = "receipt"
    <3>1. i \in DOMAIN journal /\ journal'[i] = journal[i]
      BY <1>2, <2>1
    <3>2. CASE j = new
      BY <1>1, <1>2, <1>4, <2>1, <3>1, <3>2
    <3>3. CASE j # new
      BY <1>2, <1>3, <2>1, <3>1, <3>3 DEF GateIInv, JournalReplays
    <3> QED BY <3>2, <3>3
  <2>2. ASSUME NEW j \in DOMAIN journal', journal'[j].kind = "receipt"
        PROVE  \E i \in 1..(j - 1) : journal'[i] = [kind |-> "intent", of |-> journal'[j].of]
    <3>1. CASE j = new
      <4>1. kind = "receipt" /\ journal'[j].of = e
        BY <1>1, <1>2, <2>2, <3>1
      <4>2. PICK i \in DOMAIN journal : journal[i] = [kind |-> "intent", of |-> e]
        BY <4>1 DEF GateIInv, OpenIsJournaled
      <4>3. i \in 1..(j - 1) /\ journal'[i] = journal[i]
        BY <1>2, <3>1, <4>2
      <4> QED BY <4>1, <4>2, <4>3
    <3>2. CASE j # new
      <4>1. j \in DOMAIN journal /\ journal'[j] = journal[j]
        BY <1>2, <1>3, <3>2
      <4>2. PICK i \in 1..(j - 1) : journal[i] = [kind |-> "intent", of |-> journal[j].of]
        BY <2>2, <4>1 DEF GateIInv, JournalReplays
      <4>3. journal'[i] = journal[i]
        BY <1>2, <4>1, <4>2
      <4> QED BY <4>1, <4>2, <4>3
    <3> QED BY <3>1, <3>2
  <2> QED BY <2>1, <2>2 DEF JournalReplays
<1>8. \A d \in Executions : UsedApproval(d)' <=> UsedApproval(d) \/ (d = e /\ kind \in {"intent", "task_update"})
  <2>1. ASSUME NEW d \in Executions, UsedApproval(d) PROVE UsedApproval(d)'
    BY <1>2, <1>3, <2>1 DEF UsedApproval
  <2>2. ASSUME kind \in {"intent", "task_update"} PROVE UsedApproval(e)'
    BY <1>2, <2>2 DEF UsedApproval
  <2>3. ASSUME NEW d \in Executions, UsedApproval(d)', ~(d = e /\ kind \in {"intent", "task_update"})
        PROVE  UsedApproval(d)
    <3>1. PICK i \in DOMAIN journal' : journal'[i] \in {[kind |-> "intent", of |-> d], [kind |-> "task_update", of |-> d]}
      BY <2>3 DEF UsedApproval
    <3>2. journal'[i].of = d /\ journal'[i].kind \in {"intent", "task_update"}
      BY <3>1
    <3>3. i # new
      BY <1>1, <1>2, <2>3, <3>2
    <3>4. i \in DOMAIN journal /\ journal'[i] = journal[i]
      BY <1>2, <1>3, <3>3
    <3> QED BY <3>1, <3>4 DEF UsedApproval
  <2> QED BY <2>1, <2>2, <2>3
<1>9. \A d \in Executions : UsedApproval(d) => call'[d].approval = call[d].approval
  <2>1. UsedApproval(e) => ~Ungated(e)
    BY DEF GateIInv, UngatedIsUnjournaled, UsedApproval
  <2> QED BY <2>1
<1>10. UsedIsConsumed'
  BY <1>8, <1>9 DEF GateIInv, UsedIsConsumed
<1>11. ApprovalUsedOnce'
  <2>1. ASSUME NEW c \in Executions, NEW d \in Executions, UsedApproval(c)', UsedApproval(d)',
               call'[c].approval = call'[d].approval
        PROVE  c = d
    <3>1. CASE UsedApproval(c) /\ UsedApproval(d)
      BY <3>1, <2>1, <1>9 DEF GateIInv, ApprovalUsedOnce
    <3>2. CASE c = e /\ kind \in {"intent", "task_update"} /\ UsedApproval(d)
      BY <3>2, <2>1, <1>9 DEF GateIInv, UsedIsConsumed
    <3>3. CASE d = e /\ kind \in {"intent", "task_update"} /\ UsedApproval(c)
      BY <3>3, <2>1, <1>9 DEF GateIInv, UsedIsConsumed
    <3> QED BY <2>1, <1>8, <3>1, <3>2, <3>3
  <2> QED BY <2>1 DEF ApprovalUsedOnce
<1> QED BY <1>5, <1>6, <1>7, <1>10, <1>11 DEF GateIInv

LEMMA GateStarts == ToolInit => GateIInv
<1>1. ToolInit => ToolInv
  BY ToolInvInit
<1>2. ToolInit => \A e \in Executions : intent[e] = "none" /\ DOMAIN journal = {}
  BY DEF ToolInit
<1> QED
  BY <1>1, <1>2 DEF ToolInit, GateIInv, UngatedIsUnjournaled, OpenIsJournaled, UsedIsConsumed, JournalReplays, ApprovalUsedOnce,
     UsedApproval

(* An approval that is consumed was active, and is the call's own.          *)
LEMMA ConsumesOwn ==
    ASSUME ToolInv, NEW e \in Executions, NEW by, call[e].phase = "gated", ConsumeApproval(e, by)
    PROVE  /\ call[e].approval \in Approvals /\ approval[call[e].approval].state # "consumed"
           /\ approval'[call[e].approval].state = "consumed"
           /\ \A a \in Approvals : approval[a].state = "consumed" => approval'[a].state = "consumed"
<1>1. call[e].approval \in Approvals /\ approval \in [Approvals -> ApprovalRow]
  BY DEF ToolInv, PhaseInv, ToolTypeOK
<1>2. approval[call[e].approval].state = "active"
  BY DEF ConsumeApproval
<1>3. approval' = [approval EXCEPT ![call[e].approval] = [approval[call[e].approval] EXCEPT !.state = "consumed", !.by = by]]
  BY DEF ConsumeApproval
<1>4. [approval[call[e].approval] EXCEPT !.state = "consumed", !.by = by].state = "consumed"
  BY ONLY <1>1 DEF ApprovalRow
<1> QED BY <1>1, <1>2, <1>3, <1>4

LEMMA GateStepKeeps ==
    ASSUME GateIInv, [ToolNext]_toolVars
    PROVE  GateIInv'
<1> USE ToolAssumption
<1>0. ToolInv' /\ ToolInv /\ ToolTypeOK /\ call \in [Executions -> CallRecord]
  BY ToolInvStep DEF GateIInv, ToolInv, ToolTypeOK
<1>1. ASSUME UNCHANGED <<journal, call, intent>>, \A a \in Approvals : approval[a].state = "consumed" => approval'[a].state = "consumed"
      PROVE  GateIInv'
  BY <1>0, <1>1, QuietKeeps DEF Ungated
<1>2. CASE Takeover \/ ChangePolicy
  BY <1>2, <1>1 DEF Takeover, ChangePolicy
<1>3. ASSUME NEW a \in Approvals, Expire(a) \/ Revoke(a) PROVE GateIInv'
  BY <1>0, <1>3, <1>1 DEF Expire, Revoke, ToolTypeOK
<1>4. ASSUME NEW r \in Requests, EditOutside(r) \/ \E denial \in BOOLEAN : Prepare(r, denial) PROVE GateIInv'
  BY <1>4, <1>1 DEF EditOutside, Prepare
<1>5. ASSUME NEW a \in Approvals, NEW r \in Requests, Approve(a, r) PROVE GateIInv'
  BY <1>0, <1>5, <1>1 DEF Approve, ToolTypeOK
<1>6. ASSUME NEW e \in Executions, NEW r \in Requests, RecordDenied(e, r) PROVE GateIInv'
  <2>1. /\ Ungated(e) /\ ~Ungated(e)' /\ \A d \in Executions : d # e => call'[d] = call[d] /\ intent'[d] = intent[d]
        /\ journal' = Append(journal, [kind |-> "denied", of |-> e])
    BY <1>0, <1>6 DEF RecordDenied, Ungated
  <2>2. intent'[e] # "recorded" /\ UNCHANGED approval
    BY <1>0, <1>6 DEF RecordDenied, ToolInv, PhaseInv
  <2> QED BY <1>0, <2>1, <2>2, EventKeeps
<1>7. ASSUME NEW e \in Executions, NEW r \in Requests, NEW a \in Approvals, Begin(e, r, a) PROVE GateIInv'
  <2>1. /\ Ungated(e) /\ \A d \in Executions : d # e => call'[d] = call[d]
        /\ UNCHANGED <<journal, intent, approval>>
    BY <1>0, <1>7 DEF Begin, Ungated
  <2>2. \A d \in Executions : (Ungated(d)' => Ungated(d)) /\ (~Ungated(d) => call'[d].approval = call[d].approval)
    BY <2>1 DEF Ungated
  <2> QED BY <1>0, <2>1, <2>2, QuietKeeps
<1>8. ASSUME NEW e \in Executions, CommitToolIntent(e) PROVE GateIInv'
  <2>1. call[e].phase = "gated" /\ ConsumeApproval(e, e) /\ call' = [call EXCEPT ![e].phase = "begun"]
    BY <1>8 DEF CommitToolIntent
  <2>2. /\ \A d \in Executions : d # e => call'[d] = call[d] /\ intent'[d] = intent[d]
        /\ call'[e].phase = "begun" /\ call'[e].approval = call[e].approval
        /\ journal' = Append(journal, [kind |-> "intent", of |-> e])
    BY <1>0, <1>8, <2>1, ConsumedRow DEF CommitToolIntent, ToolInv, ToolTypeOK
  <2>3. Ungated(e) /\ ~Ungated(e)'
    BY <2>1, <2>2 DEF Ungated
  <2> QED BY <1>0, <2>1, <2>2, <2>3, ConsumesOwn, EventKeeps
<1>9. ASSUME NEW e \in Executions, CommitToolTaskUpdate(e) PROVE GateIInv'
  <2>1. call[e].phase = "gated" /\ ConsumeApproval(e, TaskUpdate) /\ call' = [call EXCEPT ![e].phase = "closed"]
    BY <1>9 DEF CommitToolTaskUpdate
  <2>2. /\ \A d \in Executions : d # e => call'[d] = call[d]
        /\ call'[e].phase = "closed" /\ call'[e].approval = call[e].approval
        /\ journal' = Append(journal, [kind |-> "task_update", of |-> e])
    BY <1>0, <1>9, <2>1, ConsumedRow DEF CommitToolTaskUpdate, ToolInv, ToolTypeOK
  <2>3. Ungated(e) /\ ~Ungated(e)' /\ UNCHANGED intent /\ intent[e] = "none"
    BY <1>0, <1>9, <2>1, <2>2 DEF Ungated, CommitToolTaskUpdate, ToolInv, PhaseInv
  <2> QED BY <1>0, <2>1, <2>2, <2>3, ConsumesOwn, EventKeeps
<1>10. ASSUME NEW e \in Executions, NEW p \in Phases \ {"idle", "gated"}, NEW o \in Outcomes, UNCHANGED <<journal, intent, approval>>,
              call' = [call EXCEPT ![e].phase = p, ![e].outcome = o] \/ call' = [call EXCEPT ![e].phase = p]
       PROVE  GateIInv'
  <2>1. \E c \in {[call[e] EXCEPT !.phase = p, !.outcome = o], [call[e] EXCEPT !.phase = p]} : call' = [call EXCEPT ![e] = c]
    BY <1>10
  <2>2. /\ [call[e] EXCEPT !.phase = p, !.outcome = o].phase = p /\ [call[e] EXCEPT !.phase = p, !.outcome = o].approval = call[e].approval
        /\ [call[e] EXCEPT !.phase = p].phase = p /\ [call[e] EXCEPT !.phase = p].approval = call[e].approval
    <3>1. call[e] \in CallRecord
      BY <1>0
    <3> QED BY ONLY <3>1 DEF CallRecord
  <2>3. \A d \in Executions : (d # e => call'[d] = call[d]) /\ call'[e].phase = p /\ call'[e].approval = call[e].approval
    BY <1>0, <2>1, <2>2
  <2>4. \A d \in Executions : (Ungated(d)' => Ungated(d)) /\ (~Ungated(d) => call'[d].approval = call[d].approval)
    BY <2>3 DEF Ungated
  <2> QED BY <1>0, <1>10, <2>4, QuietKeeps
<1>11. ASSUME NEW e \in Executions, CommitRefused(e) \/ FinishRefused(e) PROVE GateIInv'
  BY <1>11, <1>10 DEF CommitRefused, FinishRefused, Phases, Outcomes
<1>12. ASSUME NEW e \in Executions, TakeEffect(e) PROVE GateIInv'
  BY <1>12, <1>1 DEF TakeEffect
<1>13. ASSUME NEW e \in Executions, NEW outcome \in Outcomes \ {"none"}, RunBegun(e, outcome) PROVE GateIInv'
  BY <1>13, <1>10 DEF RunBegun, Phases
<1>14. ASSUME NEW e \in Executions, NEW r, Settle(e, r), UNCHANGED approval, ~Ungated(e),
              \A d \in Executions : call'[d].phase = call[d].phase \/ (d = e /\ call'[d].phase = "closed"),
              \A d \in Executions : call'[d].approval = call[d].approval /\ (d # e => call'[d] = call[d])
       PROVE  GateIInv'
  <2>1. /\ intent[e] = "recorded" /\ intent'[e] # "recorded" /\ \A d \in Executions : d # e => intent'[d] = intent[d]
        /\ journal' = Append(journal, [kind |-> "receipt", of |-> e])
    BY <1>0, <1>14 DEF Settle, IntentStatusFor, ToolTypeOK
  <2>2. ~Ungated(e)'
    BY <1>14 DEF Ungated
  <2> QED BY <1>0, <1>14, <2>1, <2>2, EventKeeps
<1>15. ASSUME NEW e \in Executions, FinishBegun(e) PROVE GateIInv'
  <2>1. Settle(e, ReceiptFor(e)) /\ UNCHANGED approval /\ call[e].phase = "ran" /\ call' = [call EXCEPT ![e] = [call[e] EXCEPT !.phase = "closed"]]
    BY <1>15 DEF FinishBegun
  <2>2. [call[e] EXCEPT !.phase = "closed"].phase = "closed" /\ [call[e] EXCEPT !.phase = "closed"].approval = call[e].approval
    <3>1. call[e] \in CallRecord
      BY <1>0
    <3> QED BY ONLY <3>1 DEF CallRecord
  <2> QED BY <1>0, <1>14, <2>1, <2>2 DEF Ungated
<1>16. ASSUME NEW e \in Executions, ReconcilePending(e) PROVE GateIInv'
  <2>1. UNCHANGED <<call, approval>> /\ intent[e] = "recorded"
        /\ \E r \in {"settled", "outcome_unknown"} : Settle(e, r)
    BY <1>16 DEF ReconcilePending, Settle
  <2>2. ~Ungated(e)
    BY <1>0, <2>1 DEF Ungated, ToolInv, PhaseInv
  <2> QED BY <2>1, <2>2, <1>14
<1>17. CASE UNCHANGED toolVars
  BY <1>17, <1>1 DEF toolVars
<1> QED
  BY <1>2, <1>3, <1>4, <1>5, <1>6, <1>7, <1>8, <1>9, <1>11, <1>12, <1>13, <1>15, <1>16, <1>17 DEF ToolNext

(* Recovery can fold the tool events of a session whatever hosts, begins,   *)
(* settlements and reconciliations met, and no approval is used twice: by   *)
(* an action, a task note, or one of each (consume_tool_approval_inner,     *)
(* commit_tool_settlement, fold_event).                                     *)
THEOREM GateSafe == ToolSpec => []GateInv
<1>1. GateIInv => GateInv
  BY DEF GateIInv, GateInv, ToolInv
<1> QED
  BY <1>1, GateStarts, GateStepKeeps, PTL DEF ToolSpec

-----------------------------------------------------------------------------
(* The calls of a batch are gated in their order: behind the position       *)
(* nothing is prepared, up to it a call with a phase was prepared.          *)
OrderIsKept ==
    /\ \A i \in Executions : call[i].phase # "idle" =>
          i \in 1..Last /\ i <= position /\ prepared[batch[i]] # NotPrepared
    /\ \A j \in 1..Last : j > position => prepared[batch[j]] = NotPrepared

(* A call that runs alone is the one the loop is at, and it was prepared    *)
(* with nothing else in a slot.                                             *)
AloneIsAtPosition ==
    /\ \A i \in Ready : RunsAlone(i) => i = position /\ driver = "gating"
    /\ position \in 1..Last /\ RunsAlone(position) /\ prepared[batch[position]] # NotPrepared => Ready \subseteq {position}

BatchIInv == ToolInv /\ batch \in Batches /\ BatchTypeOK /\ OrderIsKept /\ AloneIsAtPosition

(* A batch runs through the gate: each of its steps is a step of the gate.  *)
LEMMA BatchStepIsGateStep ==
    ASSUME BatchIInv, [BatchNext]_batchVars
    PROVE  [ToolNext]_toolVars
<1>1. batch \in Seq(Requests) /\ DOMAIN batch \subseteq Executions /\ Approvals = Executions
  BY BatchAssumption DEF BatchIInv
<1>2. Last \in Nat /\ \A i \in 1..Last : batch[i] \in Requests /\ i \in Executions /\ i \in Approvals
  BY <1>1 DEF Last
<1>3. position \in Nat \ {0} /\ (position <= Last => position \in 1..Last)
  BY <1>2 DEF BatchIInv, BatchTypeOK
<1>4. CASE GatePrepare
  BY <1>2, <1>3, <1>4 DEF GatePrepare, MayGate, AtFreshCall, ToolNext
<1>5. CASE GateDeny
  BY <1>2, <1>3, <1>5 DEF GateDeny, ToolNext
<1>6. CASE GateApprove
  BY <1>2, <1>3, <1>6 DEF GateApprove, ToolNext
<1>7. CASE GateBegin
  BY <1>2, <1>3, <1>7 DEF GateBegin, ToolNext
<1>8. CASE GateIntent \/ GateFinished \/ RunAlone \/ CompleteAlone
  BY <1>2, <1>3, <1>8 DEF GateIntent, GateFinished, RunAlone, CompleteAlone, ToolNext
<1>9. ASSUME NEW i \in Executions, SegmentReturns(i) \/ BatchEffect(i) PROVE ToolNext
  BY <1>9 DEF SegmentReturns, BatchEffect, ToolNext
<1>10. CASE SegmentCompletes
  <2>1. Head(returned) \in Executions
    BY <1>10 DEF SegmentCompletes, BatchIInv, BatchTypeOK
  <2> QED BY <1>10, <2>1 DEF SegmentCompletes, ToolNext
<1>11. CASE BatchPolicyChange
  BY <1>11 DEF BatchPolicyChange, ToolNext
<1>12. CASE GateSkip \/ AskUser \/ RunReadySlots \/ SegmentPanics \/ BatchDone
  BY <1>12 DEF GateSkip, AskUser, RunReadySlots, SegmentPanics, BatchDone
<1>13. CASE UNCHANGED batchVars
  BY <1>13 DEF batchVars
<1> QED
  BY <1>4, <1>5, <1>6, <1>7, <1>8, <1>9, <1>10, <1>11, <1>12, <1>13 DEF BatchNext, DriverStep

(* The phase that an operation of the gate leaves an execution in.          *)
MovesTo(e, p) == call'[e].phase = p /\ \A d \in Executions : d # e => call'[d] = call[d]

LEMMA GateMoves ==
    ASSUME ToolTypeOK, NEW e \in Executions
    PROVE  /\ \A r \in Requests : RecordDenied(e, r) => MovesTo(e, "closed") /\ UNCHANGED prepared
           /\ \A r \in Requests, a \in Approvals : Begin(e, r, a) => MovesTo(e, "gated") /\ UNCHANGED prepared
           /\ CommitToolIntent(e) => MovesTo(e, "begun") /\ UNCHANGED prepared
           /\ CommitToolTaskUpdate(e) \/ CommitRefused(e) \/ FinishBegun(e) \/ FinishRefused(e) =>
                  MovesTo(e, "closed") /\ UNCHANGED prepared
           /\ \A outcome \in Outcomes : RunBegun(e, outcome) => MovesTo(e, "ran") /\ UNCHANGED prepared
<1>1. call \in [Executions -> CallRecord]
  BY DEF ToolTypeOK
<1>2. ASSUME NEW p PROVE call' = [call EXCEPT ![e].phase = p] => MovesTo(e, p)
  <2>1. [call[e] EXCEPT !.phase = p].phase = p
    BY ONLY <1>1 DEF CallRecord
  <2> QED BY <1>1, <2>1 DEF MovesTo
<1>3. ASSUME NEW p, NEW o PROVE call' = [call EXCEPT ![e].phase = p, ![e].outcome = o] => MovesTo(e, p)
  <2>1. [call[e] EXCEPT !.phase = p, !.outcome = o].phase = p
    BY ONLY <1>1 DEF CallRecord
  <2>2. call' = [call EXCEPT ![e].phase = p, ![e].outcome = o] => call' = [call EXCEPT ![e] = [call[e] EXCEPT !.phase = p, !.outcome = o]]
    BY <1>1
  <2> QED BY <1>1, <2>1, <2>2 DEF MovesTo
<1>4. \A r \in Requests : RecordDenied(e, r) => MovesTo(e, "closed") /\ UNCHANGED prepared
  BY <1>1 DEF RecordDenied, MovesTo
<1>5. \A r \in Requests, a \in Approvals : Begin(e, r, a) => MovesTo(e, "gated") /\ UNCHANGED prepared
  BY <1>1 DEF Begin, MovesTo
<1>6. CommitToolIntent(e) => MovesTo(e, "begun") /\ UNCHANGED prepared
  BY <1>2 DEF CommitToolIntent
<1>7. CommitToolTaskUpdate(e) \/ CommitRefused(e) \/ FinishBegun(e) \/ FinishRefused(e) => MovesTo(e, "closed") /\ UNCHANGED prepared
  BY <1>2 DEF CommitToolTaskUpdate, CommitRefused, FinishBegun, FinishRefused
<1>8. \A outcome \in Outcomes : RunBegun(e, outcome) => MovesTo(e, "ran") /\ UNCHANGED prepared
  BY <1>3 DEF RunBegun
<1> QED BY <1>4, <1>5, <1>6, <1>7, <1>8

(* Which step of a batch moves which call.                                  *)
LEMMA CallAtPosition ==
    ASSUME BatchIInv
    PROVE  /\ Last \in Nat /\ position \in 1..(Last + 1) /\ 1..Last \subseteq Executions /\ Executions \subseteq Nat
           /\ \A i \in 1..Last : batch[i] \in Requests /\ \A j \in 1..Last : batch[i] = batch[j] => i = j
           /\ Approvals = Executions
<1>1. batch \in Batches /\ position \in 1..(Last + 1)
  BY DEF BatchIInv, BatchTypeOK
<1>2. batch \in Seq(Requests) /\ (\A i, j \in DOMAIN batch : batch[i] = batch[j] => i = j) /\ DOMAIN batch \subseteq Executions
  BY <1>1, BatchAssumption
<1>3. DOMAIN batch = 1..Last /\ Last \in Nat
  BY <1>2 DEF Last
<1> QED BY <1>1, <1>2, <1>3, BatchAssumption

(* A step that moves the call e to the phase p, and the loop to `at`.       *)
LEMMA OneCallMoves ==
    ASSUME BatchIInv, UNCHANGED <<batch, prepared>>, position' \in {position, position + 1}, position' \in 1..(Last + 1),
           NEW e \in Executions, NEW p, MovesTo(e, p), call[e].phase # "idle" \/ (e = position /\ position <= Last /\ prepared[batch[e]] # NotPrepared),
           p \in {"begun", "ran"} => call[e].phase \in {"begun", "ran"} \/ (e = position /\ position <= Last /\ prepared[batch[e]] # NotPrepared),
           position' # position => \A i \in Ready' : ~RunsAlone(i),
           driver' # driver => \A i \in Ready' : ~RunsAlone(i),
           p \in {"begun", "ran"} /\ RunsAlone(e) => e = position' /\ driver' = "gating"
    PROVE  OrderIsKept' /\ AloneIsAtPosition'
<1>1. Last' = Last /\ (\A i \in Executions : RunsAlone(i)' <=> RunsAlone(i)) /\ Ready' \subseteq Ready \cup {e}
      /\ (e \in Ready' <=> p \in {"begun", "ran"})
  BY DEF Last, RunsAlone, Ready, MovesTo
<1>2. /\ Last \in Nat /\ position \in Nat /\ Executions \subseteq Nat
  BY CallAtPosition
<1>3. OrderIsKept'
  <2>1. position \in 1..(Last + 1) /\ position' \in Nat /\ position <= position' /\ OrderIsKept
    BY <1>2, CallAtPosition DEF BatchIInv
  <2>2. ASSUME NEW i \in Executions, call'[i].phase # "idle"
        PROVE  i \in 1..Last /\ i <= position /\ prepared[batch[i]] # NotPrepared
    <3>1. CASE i = e
      BY <1>2, <2>1, <3>1 DEF OrderIsKept
    <3>2. CASE i # e
      BY <2>1, <2>2, <3>2 DEF OrderIsKept, MovesTo
    <3> QED BY <3>1, <3>2
  <2>3. ASSUME NEW i \in Executions, call'[i].phase # "idle" PROVE i <= position'
    BY <1>2, <2>1, <2>2, <2>3
  <2>4. ASSUME NEW j \in 1..Last, j > position' PROVE prepared[batch[j]] = NotPrepared
    BY <1>2, <2>1, <2>4 DEF OrderIsKept
  <2> QED BY <1>1, <2>2, <2>3, <2>4 DEF OrderIsKept
<1>4. \A i \in Ready' : RunsAlone(i)' => i = position' /\ driver' = "gating"
  BY <1>1 DEF BatchIInv, AloneIsAtPosition, Ready
<1>5. position' \in 1..Last' /\ RunsAlone(position)' /\ prepared'[batch'[position']] # NotPrepared => Ready' \subseteq {position'}
  <2>1. CASE position' = position
    <3> SUFFICES ASSUME position \in 1..Last, RunsAlone(position)', prepared[batch[position]] # NotPrepared
                 PROVE  Ready' \subseteq {position}
      BY <1>1, <2>1
    <3>1. RunsAlone(position) /\ Ready \subseteq {position}
      BY <2>1 DEF RunsAlone, BatchIInv, AloneIsAtPosition
    <3>2. e \in Ready' => e = position
      BY <1>1, <3>1 DEF Ready
    <3> QED BY <1>1, <3>1, <3>2
  <2>2. CASE position' = position + 1
    BY <1>1, <1>2, <2>2 DEF BatchIInv, OrderIsKept
  <2> QED BY <2>1, <2>2
<1> QED BY <1>3, <1>4, <1>5 DEF AloneIsAtPosition

(* A step that moves no call: at most the call at the position is prepared, *)
(* with nothing else in a slot if it runs alone, or the loop goes on.       *)
LEMMA NoCallMoves ==
    ASSUME BatchIInv, UNCHANGED <<batch, call>>, position' \in {position, position + 1}, position' \in 1..(Last + 1),
           \/ UNCHANGED prepared
           \/ /\ position \in 1..Last /\ position' = position /\ prepared'[batch[position]] # NotPrepared
              /\ \A r \in Requests : r # batch[position] => prepared'[r] = prepared[r]
              /\ RunsAlone(position) => Ready = {},
           position' # position => \A i \in Ready : ~RunsAlone(i),
           driver' # driver => \A i \in Ready : ~RunsAlone(i)
    PROVE  OrderIsKept' /\ AloneIsAtPosition'
<1>1. Last' = Last /\ (\A i \in Executions : RunsAlone(i)' <=> RunsAlone(i)) /\ Ready' = Ready
  BY DEF Last, RunsAlone, Ready
<1>2. /\ Last \in Nat /\ position \in 1..(Last + 1) /\ Executions \subseteq Nat /\ 1..Last \subseteq Executions
      /\ \A i \in 1..Last : batch[i] \in Requests /\ \A j \in 1..Last : batch[i] = batch[j] => i = j
  BY CallAtPosition
<1>3. OrderIsKept /\ AloneIsAtPosition
  BY DEF BatchIInv
<1>4. \A j \in 1..Last : j # position => prepared'[batch[j]] = prepared[batch[j]]
  BY <1>2
<1>5. OrderIsKept'
  <2>1. ASSUME NEW i \in Executions, call[i].phase # "idle" PROVE i \in 1..Last /\ i <= position' /\ prepared'[batch[i]] # NotPrepared
    BY <1>2, <1>3, <1>4, <2>1 DEF OrderIsKept
  <2>2. ASSUME NEW j \in 1..Last, j > position' PROVE prepared'[batch[j]] = NotPrepared
    BY <1>2, <1>3, <1>4, <2>2 DEF OrderIsKept
  <2> QED BY <1>1, <2>1, <2>2 DEF OrderIsKept
<1>6. \A i \in Ready' : RunsAlone(i)' => i = position' /\ driver' = "gating"
  BY <1>1, <1>3 DEF AloneIsAtPosition, Ready
<1>7. position' \in 1..Last' /\ RunsAlone(position)' /\ prepared'[batch'[position']] # NotPrepared => Ready' \subseteq {position'}
  <2>1. CASE position' = position
    <3>1. RunsAlone(position)' <=> RunsAlone(position)
      BY <2>1 DEF RunsAlone
    <3> QED BY <1>1, <1>3, <2>1, <3>1 DEF AloneIsAtPosition
  <2>2. CASE position' = position + 1
    BY <1>1, <1>2, <1>3, <2>2 DEF OrderIsKept
  <2> QED BY <2>1, <2>2
<1> QED BY <1>5, <1>6, <1>7 DEF AloneIsAtPosition

LEMMA BatchTypeKept ==
    ASSUME BatchIInv, [BatchNext]_batchVars
    PROVE  BatchTypeOK' /\ batch' = batch
<1>1. /\ Last \in Nat /\ position \in 1..(Last + 1) /\ driver \in {"gating", "segment", "done", "failed"}
      /\ returned \in Seq(Executions) /\ (position <= Last => position + 1 \in 1..(Last + 1))
  BY CallAtPosition DEF BatchIInv, BatchTypeOK
<1>2. batch' = batch
  BY DEF BatchNext, DriverStep, GatePrepare, GateSkip, AskUser, GateDeny, GateApprove, GateBegin, GateIntent, GateFinished, RunAlone,
     CompleteAlone, RunReadySlots, SegmentCompletes, SegmentPanics, BatchDone, SegmentReturns, BatchPolicyChange, BatchEffect, batchVars
<1>3. position' \in 1..(Last + 1) /\ driver' \in {"gating", "segment", "done", "failed"}
  BY <1>1 DEF BatchNext, DriverStep, GatePrepare, GateSkip, AskUser, GateDeny, GateApprove, GateBegin, GateIntent, GateFinished, RunAlone,
     CompleteAlone, RunReadySlots, SegmentCompletes, SegmentPanics, BatchDone, SegmentReturns, BatchPolicyChange, BatchEffect, batchVars
<1>4. returned' \in Seq(Executions)
  BY <1>1 DEF BatchNext, DriverStep, GatePrepare, GateSkip, AskUser, GateDeny, GateApprove, GateBegin, GateIntent, GateFinished, RunAlone,
     CompleteAlone, RunReadySlots, SegmentCompletes, SegmentPanics, BatchDone, SegmentReturns, BatchPolicyChange, BatchEffect, batchVars
<1> QED BY <1>2, <1>3, <1>4 DEF BatchTypeOK, Last

LEMMA OrderStep ==
    ASSUME BatchIInv, [BatchNext]_batchVars
    PROVE  OrderIsKept' /\ AloneIsAtPosition'
<1>1. ToolTypeOK /\ generation # 0 /\ OrderIsKept /\ AloneIsAtPosition /\ BatchTypeOK
  BY DEF BatchIInv, ToolInv
<1>2. /\ Last \in Nat /\ position \in 1..(Last + 1) /\ 1..Last \subseteq Executions /\ Approvals = Executions
      /\ \A i \in 1..Last : batch[i] \in Requests
  BY CallAtPosition
<1>3. batch' = batch /\ position' \in 1..(Last + 1)
  BY BatchTypeKept DEF BatchTypeOK, Last
<1>4. \A r \in Requests : prepared[r].host = generation => prepared[r] # NotPrepared
  BY <1>1 DEF NotPrepared
<1>5. ASSUME driver = "gating", position <= Last
      PROVE  position \in Executions /\ batch[position] \in Requests
  BY <1>2, <1>5
<1>6. driver # "gating" => \A i \in Ready : ~RunsAlone(i)
  BY <1>1 DEF AloneIsAtPosition
<1>7. call[position].phase \notin {"begun", "ran"} => \A i \in Ready : ~RunsAlone(i)
  BY <1>1 DEF AloneIsAtPosition, Ready
<1>8. CASE GatePrepare
  <2>1. /\ position <= Last /\ UNCHANGED <<batch, call, position, driver>> /\ (RunsAlone(position) => Ready = {})
        /\ \E denial \in BOOLEAN : Prepare(batch[position], denial)
    BY <1>8 DEF GatePrepare, MayGate, AtFreshCall, Prepare
  <2>2. prepared'[batch[position]] # NotPrepared /\ \A r \in Requests : r # batch[position] => prepared'[r] = prepared[r]
    BY <1>1, <1>2, <2>1 DEF Prepare, ToolTypeOK, NotPrepared
  <2> QED BY <1>2, <1>3, <2>1, <2>2, NoCallMoves
<1>9. CASE GateSkip
  <2>1. UNCHANGED <<call, prepared, driver>> /\ position' = position + 1 /\ call[position].phase = "idle"
    BY <1>9 DEF GateSkip, toolVars
  <2> QED BY <1>3, <1>7, <2>1, NoCallMoves
<1>10. CASE AskUser
  <2>1. UNCHANGED <<call, prepared, position>> /\ batch[position] \in Alone /\ (RunsAlone(position) => Ready = {})
    BY <1>10, BatchAssumption DEF AskUser, MayGate, toolVars
  <2> QED BY <1>3, <2>1, NoCallMoves DEF RunsAlone
<1>11. CASE GateDeny
  <2>1. position \in Executions /\ batch[position] \in Requests /\ RecordDenied(position, batch[position])
        /\ position' = position + 1 /\ UNCHANGED driver /\ position <= Last
    BY <1>5, <1>11 DEF GateDeny
  <2>2. MovesTo(position, "closed") /\ UNCHANGED prepared /\ call[position].phase = "idle" /\ prepared[batch[position]] # NotPrepared
    BY <1>1, <1>4, <2>1, GateMoves DEF RecordDenied
  <2>3. Ready' = Ready /\ \A i \in Ready : ~RunsAlone(i)
    BY <1>7, <2>2 DEF MovesTo, Ready
  <2> QED BY <1>3, <2>1, <2>2, <2>3, OneCallMoves
<1>12. CASE GateApprove
  <2>1. UNCHANGED <<call, prepared, position, driver>>
    BY <1>12 DEF GateApprove, Approve
  <2> QED BY <1>3, <2>1, NoCallMoves
<1>13. CASE GateBegin
  <2>1. position \in Executions /\ batch[position] \in Requests /\ Begin(position, batch[position], position)
        /\ UNCHANGED <<position, driver>> /\ position <= Last
    BY <1>5, <1>13 DEF GateBegin
  <2>2. MovesTo(position, "gated") /\ UNCHANGED prepared /\ prepared[batch[position]] # NotPrepared
    BY <1>1, <1>2, <1>4, <2>1, GateMoves DEF Begin
  <2> QED BY <1>3, <2>1, <2>2, OneCallMoves
<1>14. CASE GateIntent
  <2>1. position \in Executions /\ batch[position] \in Requests /\ CommitToolIntent(position) /\ position <= Last
        /\ position' = (IF RunsAlone(position) THEN position ELSE position + 1) /\ UNCHANGED driver /\ driver = "gating"
    BY <1>5, <1>14 DEF GateIntent
  <2>2. MovesTo(position, "begun") /\ UNCHANGED prepared /\ call[position].phase = "gated"
    BY <1>1, <2>1, GateMoves DEF CommitToolIntent
  <2>3. prepared[batch[position]] # NotPrepared
    BY <1>1, <2>1, <2>2 DEF OrderIsKept
  <2>4. \A i \in Ready : ~RunsAlone(i)
    BY <1>7, <2>2
  <2>5. position' # position => \A i \in Ready' : ~RunsAlone(i)
    BY <2>1, <2>2, <2>4 DEF Ready, MovesTo
  <2> QED BY <1>3, <2>1, <2>2, <2>3, <2>5, OneCallMoves
<1>15. CASE GateFinished
  <2>1. position \in Executions /\ (CommitToolTaskUpdate(position) \/ CommitRefused(position))
        /\ position' = position + 1 /\ UNCHANGED driver
    BY <1>5, <1>15 DEF GateFinished
  <2>2. MovesTo(position, "closed") /\ UNCHANGED prepared /\ call[position].phase = "gated"
    BY <1>1, <2>1, GateMoves DEF CommitToolTaskUpdate, CommitRefused
  <2>3. Ready' = Ready /\ \A i \in Ready : ~RunsAlone(i)
    BY <1>7, <2>2 DEF MovesTo, Ready
  <2> QED BY <1>3, <2>1, <2>2, <2>3, OneCallMoves
<1>16. CASE RunAlone
  <2>1. position \in Executions /\ (\E outcome \in Outcomes : RunBegun(position, outcome)) /\ UNCHANGED <<position, driver>> /\ driver = "gating"
    BY <1>5, <1>16 DEF RunAlone
  <2>2. MovesTo(position, "ran") /\ UNCHANGED prepared /\ call[position].phase = "begun"
    BY <1>1, <2>1, GateMoves DEF RunBegun
  <2> QED BY <1>3, <2>1, <2>2, OneCallMoves
<1>17. CASE CompleteAlone
  <2>1. position \in Executions /\ (FinishBegun(position) \/ FinishRefused(position)) /\ position' = position + 1 /\ UNCHANGED driver
    BY <1>5, <1>17 DEF CompleteAlone
  <2>2. MovesTo(position, "closed") /\ UNCHANGED prepared /\ call[position].phase = "ran"
    BY <1>1, <2>1, GateMoves DEF FinishBegun, FinishRefused
  <2>3. \A i \in Ready' : ~RunsAlone(i)
    BY <1>1, <2>2 DEF MovesTo, Ready, AloneIsAtPosition
  <2> QED BY <1>3, <2>1, <2>2, <2>3, OneCallMoves
<1>18. CASE RunReadySlots
  <2>1. UNCHANGED <<call, prepared, position>> /\ (position > Last \/ prepared[batch[position]] = NotPrepared)
    BY <1>18 DEF RunReadySlots, AtFreshCall, toolVars
  <2>2. call[position].phase \in {"begun", "ran"} /\ position \in Executions => position <= Last /\ prepared[batch[position]] # NotPrepared
    BY <1>1, <1>2 DEF OrderIsKept
  <2>3. \A i \in Ready : ~RunsAlone(i)
    BY <1>1, <1>2, <2>1, <2>2 DEF AloneIsAtPosition, Ready
  <2> QED BY <1>3, <2>1, <2>3, NoCallMoves
<1>19. ASSUME NEW i \in Executions, SegmentReturns(i) PROVE OrderIsKept' /\ AloneIsAtPosition'
  <2>1. driver = "segment" /\ UNCHANGED <<position, driver>> /\ \E outcome \in Outcomes : RunBegun(i, outcome)
    BY <1>19 DEF SegmentReturns
  <2>2. MovesTo(i, "ran") /\ UNCHANGED prepared /\ call[i].phase = "begun"
    BY <1>1, <2>1, GateMoves DEF RunBegun
  <2>3. ~RunsAlone(i)
    BY <1>6, <2>1, <2>2 DEF Ready
  <2> QED BY <1>3, <2>1, <2>2, <2>3, OneCallMoves
<1>20. CASE SegmentCompletes
  <2> DEFINE i == Head(returned)
  <2>1. i \in Executions /\ driver = "segment" /\ UNCHANGED position /\ (FinishBegun(i) \/ FinishRefused(i))
    BY <1>1, <1>20 DEF SegmentCompletes, BatchTypeOK
  <2>2. MovesTo(i, "closed") /\ UNCHANGED prepared /\ call[i].phase = "ran"
    BY <1>1, <2>1, GateMoves DEF FinishBegun, FinishRefused
  <2>3. \A j \in Ready' : ~RunsAlone(j)
    BY <1>6, <2>1, <2>2 DEF MovesTo, Ready
  <2> QED BY <1>3, <2>1, <2>2, <2>3, OneCallMoves
<1>21. CASE SegmentPanics \/ BatchDone
  <2>1. UNCHANGED <<call, prepared, position>> /\ \A i \in Ready : ~RunsAlone(i)
    BY <1>6, <1>21 DEF SegmentPanics, BatchDone, toolVars
  <2> QED BY <1>3, <2>1, NoCallMoves
<1>22. ASSUME NEW i \in Executions, BatchEffect(i) PROVE OrderIsKept' /\ AloneIsAtPosition'
  <2>1. UNCHANGED <<call, prepared, position, driver>>
    BY <1>22 DEF BatchEffect, TakeEffect
  <2> QED BY <1>3, <2>1, NoCallMoves
<1>23. CASE BatchPolicyChange \/ UNCHANGED batchVars
  <2>1. UNCHANGED <<call, prepared, position, driver>>
    BY <1>23 DEF BatchPolicyChange, ChangePolicy, batchVars, toolVars
  <2> QED BY <1>3, <2>1, NoCallMoves
<1> QED
  BY <1>8, <1>9, <1>10, <1>11, <1>12, <1>13, <1>14, <1>15, <1>16, <1>17, <1>18, <1>19, <1>20, <1>21, <1>22, <1>23
  DEF BatchNext, DriverStep

LEMMA BatchStarts == BatchInit => BatchIInv
<1> SUFFICES ASSUME BatchInit PROVE BatchIInv
  OBVIOUS
<1>1. ToolInv /\ batch \in Batches
  BY ToolInvInit DEF BatchInit
<1>2. batch \in Seq(Requests) /\ Last \in Nat /\ \A j \in 1..Last : batch[j] \in Requests
  BY <1>1, BatchAssumption DEF Last
<1>3. (\A e \in Executions : call[e].phase = "idle") /\ \A r \in Requests : prepared[r] = NotPrepared
  BY DEF BatchInit, ToolInit, NoCall
<1>4. BatchTypeOK
  BY <1>2 DEF BatchInit, BatchTypeOK
<1>5. OrderIsKept /\ AloneIsAtPosition
  BY <1>2, <1>3 DEF OrderIsKept, AloneIsAtPosition, Ready
<1> QED BY <1>1, <1>4, <1>5 DEF BatchIInv

LEMMA BatchStepKeeps == BatchIInv /\ [BatchNext]_batchVars => BatchIInv'
BY BatchStepIsGateStep, ToolInvStep, BatchTypeKept, OrderStep DEF BatchIInv

LEMMA BatchInvAlways == BatchSpec => []BatchIInv
BY BatchStarts, BatchStepKeeps, PTL DEF BatchSpec

(* A turn runs its calls through the gate and in no other way: every        *)
(* behaviour of a batch is one of the gate, so that what holds of the gate  *)
(* holds of a batch (run_ready_slots, gate_action, complete_action).        *)
THEOREM BatchIsGated == BatchSpec => ToolSpec
<1>1. BatchInit => ToolInit
  BY DEF BatchInit
<1>2. BatchIInv /\ [BatchNext]_batchVars => [ToolNext]_toolVars
  BY BatchStepIsGateStep
<1> QED BY <1>1, <1>2, BatchInvAlways, PTL DEF BatchSpec, ToolSpec

(* A call that must run alone is alone between its intent and its receipt,  *)
(* in every batch, of any length, and in every order of its calls           *)
(* (run_ready_slots before runs_alone).                                     *)
THEOREM BatchSafe == BatchSpec => []BatchInv
<1>1. ASSUME BatchIInv PROVE AloneIsAlone
  <2> SUFFICES ASSUME NEW i \in Executions, i \in Ready, RunsAlone(i)
               PROVE  Ready = {i} /\ \A j \in Executions : j > i => call[j].phase = "idle"
    BY DEF AloneIsAlone, Ready
  <2>1. Last \in Nat /\ Executions \subseteq Nat /\ OrderIsKept /\ AloneIsAtPosition
    BY <1>1, CallAtPosition DEF BatchIInv
  <2>2. i = position /\ i \in 1..Last /\ prepared[batch[i]] # NotPrepared
    BY <2>1 DEF OrderIsKept, AloneIsAtPosition, Ready
  <2>3. Ready = {i}
    BY <2>1, <2>2 DEF AloneIsAtPosition
  <2>4. ASSUME NEW j \in Executions, j > i PROVE call[j].phase = "idle"
    BY <2>1, <2>2, <2>4 DEF OrderIsKept
  <2> QED BY <2>3, <2>4
<1>2. BatchIInv => BatchInv
  BY <1>1 DEF BatchIInv, BatchInv
<1> QED BY <1>2, BatchInvAlways, PTL
=============================================================================
