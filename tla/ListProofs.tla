----------------------------- MODULE ListProofs -----------------------------
(***************************************************************************)
(* What the other proofs share: induction over numbers, the lists that the *)
(* models take apart and put together, the loops that keep some places of  *)
(* a list, and the depth-first walk, for any nodes, edges and roots.       *)
(***************************************************************************)
EXTENDS Lists, DepthFirst, FiniteSetTheorems, WellFoundedInduction, TLAPS

(* A set of numbers that is not empty has a least one.                      *)
LEMMA LeastNumber ==
    ASSUME NEW S \in SUBSET Nat, S # {}
    PROVE  \E n \in S : \A m \in S : n <= m
<1> DEFINE Less == {p \in Nat \X Nat : p[1] < p[2]}
<1>1. IsWellFoundedOn(Less, Nat)
  BY NatLessThanWellFounded DEF OpToRel
<1>2. PICK n \in S : \A m \in S : <<m, n>> \notin Less
  <2> HIDE DEF Less
  <2> QED BY <1>1, WFMin
<1>3. \A m \in S : n <= m
  <2> SUFFICES ASSUME NEW m \in S PROVE n <= m
    OBVIOUS
  <2>1. ~(m < n)
    BY <1>2
  <2>2. m \in Nat /\ n \in Nat
    OBVIOUS
  <2> QED BY <2>1, <2>2
<1> QED BY <1>3

(* Induction over the numbers, for a set of them.                           *)
LEMMA NumbersByStep ==
    ASSUME NEW S \in SUBSET Nat, 0 \in S, \A n \in S : n + 1 \in S
    PROVE  S = Nat
<1> SUFFICES ASSUME Nat \ S # {} PROVE FALSE
  OBVIOUS
<1>1. PICK x \in Nat \ S : \A m \in Nat \ S : x <= m
  <2>1. Nat \ S \in SUBSET Nat
    OBVIOUS
  <2> QED BY <2>1, LeastNumber
<1>2. x \in Nat /\ x # 0
  OBVIOUS
<1>3. x - 1 \in Nat /\ ~(x <= x - 1) /\ (x - 1) + 1 = x
  BY <1>2
<1>4. x - 1 \in S
  BY <1>1, <1>3
<1>5. x \in S
  BY <1>3, <1>4
<1> QED BY <1>5

-----------------------------------------------------------------------------
(* Lists.                                                                   *)

LEMMA ElementsAreTyped == ASSUME NEW S, NEW s \in Seq(S) PROVE ToSet(s) \subseteq S
BY DEF ToSet

LEMMA ElementIsAt == ASSUME NEW s, NEW i \in DOMAIN s PROVE s[i] \in ToSet(s)
BY DEF ToSet

(* The first element, and those after it.                                   *)
LEMMA HeadAndTail ==
    ASSUME NEW S, NEW s \in Seq(S), s # <<>>
    PROVE  /\ Head(s) \in S /\ Tail(s) \in Seq(S) /\ ToSet(s) = {Head(s)} \cup ToSet(Tail(s))
<1>1. Head(s) \in S /\ Tail(s) \in Seq(S) /\ Len(s) \in Nat /\ Len(s) > 0
  OBVIOUS
<1>2. Head(s) = s[1] /\ 1 \in DOMAIN s /\ DOMAIN s = 1..Len(s)
  BY <1>1
<1>3. DOMAIN Tail(s) = 1..(Len(s) - 1) /\ \A i \in 1..(Len(s) - 1) : Tail(s)[i] = s[i + 1]
  BY <1>1
<1>4. \A i \in DOMAIN s : i = 1 \/ (i - 1 \in DOMAIN Tail(s) /\ Tail(s)[i - 1] = s[i])
  BY <1>1, <1>2, <1>3
<1>5. \A i \in DOMAIN Tail(s) : i + 1 \in DOMAIN s /\ s[i + 1] = Tail(s)[i]
  BY <1>1, <1>2, <1>3
<1>6. ToSet(s) \subseteq {Head(s)} \cup ToSet(Tail(s))
  BY <1>2, <1>4 DEF ToSet
<1>7. {Head(s)} \cup ToSet(Tail(s)) \subseteq ToSet(s)
  BY <1>2, <1>5 DEF ToSet
<1> QED BY <1>1, <1>6, <1>7

LEMMA AppendAdds ==
    ASSUME NEW S, NEW s \in Seq(S), NEW e \in S
    PROVE  /\ Append(s, e) \in Seq(S) /\ ToSet(Append(s, e)) = ToSet(s) \cup {e}
           /\ Len(Append(s, e)) = Len(s) + 1 /\ Append(s, e)[Len(s) + 1] = e
           /\ \A i \in DOMAIN s : Append(s, e)[i] = s[i]
           /\ DOMAIN Append(s, e) = DOMAIN s \cup {Len(s) + 1}
           /\ Append(s, e) # <<>>
<1>1. /\ Append(s, e) \in Seq(S) /\ Len(Append(s, e)) = Len(s) + 1 /\ Append(s, e)[Len(s) + 1] = e
      /\ \A i \in 1..Len(s) : Append(s, e)[i] = s[i]
      /\ Len(s) \in Nat /\ DOMAIN s = 1..Len(s) /\ DOMAIN Append(s, e) = 1..(Len(s) + 1)
  OBVIOUS
<1>2. DOMAIN Append(s, e) = DOMAIN s \cup {Len(s) + 1}
  BY <1>1
<1>3. ToSet(Append(s, e)) = ToSet(s) \cup {e}
  BY <1>1, <1>2 DEF ToSet
<1>4. Append(s, e) # <<>>
  BY <1>1
<1> QED BY <1>1, <1>2, <1>3, <1>4

LEMMA FrontAndLast ==
    ASSUME NEW S, NEW s \in Seq(S), s # <<>>
    PROVE  /\ Front(s) \in Seq(S) /\ Len(Front(s)) = Len(s) - 1 /\ s[Len(s)] \in S
           /\ Len(s) \in Nat \ {0} /\ Len(s) \in DOMAIN s /\ DOMAIN s = 1..Len(s)
           /\ DOMAIN Front(s) = 1..(Len(s) - 1) /\ \A i \in 1..(Len(s) - 1) : Front(s)[i] = s[i]
<1>1. Len(s) \in Nat \ {0} /\ Len(s) \in DOMAIN s /\ DOMAIN s = 1..Len(s) /\ s[Len(s)] \in S
  OBVIOUS
<1>2. Len(s) - 1 \in Nat
  BY <1>1
<1>3. Front(s) \in Seq(S) /\ Len(Front(s)) = Len(s) - 1
  BY <1>1, <1>2 DEF Front
<1>4. DOMAIN Front(s) = 1..(Len(s) - 1) /\ \A i \in 1..(Len(s) - 1) : Front(s)[i] = s[i]
  BY <1>1, <1>2 DEF Front
<1> QED BY <1>1, <1>3, <1>4

-----------------------------------------------------------------------------
(* f holds what KeepAt has kept of the first n places.                      *)
HoldsKept(f, s, I, n) ==
    f = [k \in 0..n |-> IF k = 0 THEN <<>> ELSE IF k \in I THEN Append(f[k - 1], s[k]) ELSE f[k - 1]]

LEMMA KeptIsHeld == ASSUME NEW s, NEW I, NEW n \in Nat PROVE \E f : HoldsKept(f, s, I, n)
<1> DEFINE Held == {m \in Nat : \E f : HoldsKept(f, s, I, m)}
<1>1. 0 \in Held
  <2> DEFINE f == [k \in 0..0 |-> <<>>]
  <2>1. \A k \in 0..0 : k = 0
    OBVIOUS
  <2>2. f = [k \in 0..0 |-> IF k = 0 THEN <<>> ELSE IF k \in I THEN Append(f[k - 1], s[k]) ELSE f[k - 1]]
    BY <2>1
  <2> QED BY <2>2 DEF HoldsKept
<1>2. ASSUME NEW m \in Held PROVE m + 1 \in Held
  <2>1. PICK f : HoldsKept(f, s, I, m)
    OBVIOUS
  <2> DEFINE last == IF m + 1 \in I THEN Append(f[m], s[m + 1]) ELSE f[m]
             g == [k \in 0..(m + 1) |-> IF k = m + 1 THEN last ELSE f[k]]
  <2>2. m \in Nat
    OBVIOUS
  <2>3. ASSUME NEW k \in 0..(m + 1)
        PROVE  g[k] = IF k = 0 THEN <<>> ELSE IF k \in I THEN Append(g[k - 1], s[k]) ELSE g[k - 1]
    <3>1. CASE k = m + 1
      <4>1. k # 0 /\ k - 1 = m /\ m \in 0..(m + 1) /\ m # m + 1
        BY <2>2, <3>1
      <4>2. g[k] = last /\ g[m] = f[m]
        BY <3>1, <4>1
      <4> QED BY <3>1, <4>1, <4>2
    <3>2. CASE k # m + 1
      <4>1. k \in 0..m /\ (k # 0 => k - 1 \in 0..(m + 1) /\ k - 1 # m + 1)
        BY <2>2, <3>2
      <4>2. g[k] = f[k] /\ (k # 0 => g[k - 1] = f[k - 1])
        BY <3>2, <4>1
      <4>3. f[k] = IF k = 0 THEN <<>> ELSE IF k \in I THEN Append(f[k - 1], s[k]) ELSE f[k - 1]
        BY <2>1, <4>1 DEF HoldsKept
      <4> QED BY <4>2, <4>3
    <3> QED BY <3>1, <3>2
  <2>4. g = [k \in 0..(m + 1) |-> IF k = 0 THEN <<>> ELSE IF k \in I THEN Append(g[k - 1], s[k]) ELSE g[k - 1]]
    BY <2>3
  <2> HIDE DEF g
  <2>5. HoldsKept(g, s, I, m + 1)
    BY <2>4 DEF HoldsKept
  <2> QED BY <2>2, <2>5
<1>3. Held = Nat
  <2> HIDE DEF Held
  <2>1. Held \in SUBSET Nat
    BY DEF Held
  <2> QED BY <1>1, <1>2, <2>1, NumbersByStep
<1> QED BY <1>3

(* KeepAt keeps what stands at the places it is given, and nothing else.    *)
LEMMA KeepAtKeeps ==
    ASSUME NEW S, NEW s \in Seq(S), NEW I
    PROVE  KeepAt(s, I) \in Seq(S) /\ ToSet(KeepAt(s, I)) = {s[n] : n \in DOMAIN s \cap I}
<1> DEFINE f == CHOOSE f : HoldsKept(f, s, I, Len(s))
           Good == {n \in Nat : n <= Len(s) => /\ f[n] \in Seq(S)
                                               /\ ToSet(f[n]) = {s[k] : k \in (1..n) \cap I}}
<1>0. Len(s) \in Nat /\ DOMAIN s = 1..Len(s) /\ \A k \in 1..Len(s) : s[k] \in S
  OBVIOUS
<1>1. HoldsKept(f, s, I, Len(s))
  BY <1>0, KeptIsHeld
<1>2. KeepAt(s, I) = f[Len(s)]
  BY DEF KeepAt, HoldsKept
<1> HIDE DEF f
<1>3. \A k \in 0..Len(s) : f[k] = IF k = 0 THEN <<>> ELSE IF k \in I THEN Append(f[k - 1], s[k]) ELSE f[k - 1]
  BY <1>1 DEF HoldsKept
<1>4. 0 \in Good
  <2>1. 0 \in 0..Len(s)
    BY <1>0
  <2>2. f[0] = <<>>
    BY <1>3, <2>1
  <2>3. <<>> \in Seq(S) /\ ToSet(<<>>) = {} /\ {s[k] : k \in (1..0) \cap I} = {}
    BY DEF ToSet
  <2> QED BY <2>2, <2>3
<1>5. ASSUME NEW n \in Good PROVE n + 1 \in Good
  <2> SUFFICES ASSUME n + 1 <= Len(s)
               PROVE  f[n + 1] \in Seq(S) /\ ToSet(f[n + 1]) = {s[k] : k \in (1..(n + 1)) \cap I}
    OBVIOUS
  <2>1. n \in Nat /\ n + 1 \in 0..Len(s) /\ n + 1 # 0 /\ (n + 1) - 1 = n /\ n <= Len(s) /\ n + 1 \in 1..Len(s)
    BY <1>0
  <2>2. f[n] \in Seq(S) /\ ToSet(f[n]) = {s[k] : k \in (1..n) \cap I}
    BY <2>1
  <2>3. f[n + 1] = IF n + 1 \in I THEN Append(f[n], s[n + 1]) ELSE f[n]
    BY <1>3, <2>1
  <2>4. 1..(n + 1) = (1..n) \cup {n + 1}
    BY <2>1
  <2>5. CASE n + 1 \in I
    <3>1. f[n + 1] \in Seq(S) /\ ToSet(f[n + 1]) = ToSet(f[n]) \cup {s[n + 1]}
      BY <2>1, <2>2, <2>3, <2>5, <1>0, AppendAdds
    <3>2. {s[k] : k \in (1..(n + 1)) \cap I} = {s[k] : k \in (1..n) \cap I} \cup {s[n + 1]}
      BY <2>4, <2>5
    <3> QED BY <3>1, <3>2, <2>2
  <2>6. CASE n + 1 \notin I
    <3>1. (1..(n + 1)) \cap I = (1..n) \cap I
      BY <2>4, <2>6
    <3> QED BY <3>1, <2>2, <2>3, <2>6
  <2> QED BY <2>5, <2>6
<1>6. Good = Nat
  <2> HIDE DEF Good
  <2>1. Good \in SUBSET Nat
    BY DEF Good
  <2> QED BY <1>4, <1>5, <2>1, NumbersByStep
<1>7. f[Len(s)] \in Seq(S) /\ ToSet(f[Len(s)]) = {s[k] : k \in (1..Len(s)) \cap I}
  <2>1. Len(s) \in Good
    <3> HIDE DEF Good
    <3> QED BY <1>0, <1>6
  <2> QED BY <2>1, <1>0
<1> QED BY <1>0, <1>2, <1>7

(* A list without an element has all its others.                            *)
LEMMA OthersAreKept ==
    ASSUME NEW S, NEW s \in Seq(S), NEW e
    PROVE  LeavingOut(s, e) \in Seq(S) /\ ToSet(LeavingOut(s, e)) = ToSet(s) \ {e}
<1> DEFINE I == {n \in DOMAIN s : s[n] # e}
<1>1. KeepAt(s, I) \in Seq(S) /\ ToSet(KeepAt(s, I)) = {s[n] : n \in DOMAIN s \cap I}
  BY KeepAtKeeps
<1>2. {s[n] : n \in DOMAIN s \cap I} = ToSet(s) \ {e}
  BY DEF ToSet
<1> QED BY <1>1, <1>2 DEF LeavingOut

-----------------------------------------------------------------------------
(* The walk, for any nodes N, edges and roots R.                            *)

Frames(N) == [node : N, left : Seq(N)]
VisitStates(N) == [roots : Seq(N), frames : Seq(Frames(N)), done : Seq(N), cycle : BOOLEAN]

EdgesIn(N, edges) == \A v \in N : edges[v] \in Seq(N)

(* Nodes of which each has a child among them.                              *)
Loop(N, edges) == \E S \in SUBSET N : S # {} /\ \A v \in S : ToSet(edges[v]) \cap S # {}

(* What was left was left once, after all its children.                     *)
LeftInOrder(w, edges) ==
    /\ \A i, j \in DOMAIN w.done : w.done[i] = w.done[j] => i = j
    /\ \A i \in DOMAIN w.done : \A c \in ToSet(edges[w.done[i]]) : \E j \in DOMAIN w.done : j < i /\ w.done[j] = c

(* The open visits are of different nodes, each called by the one below it. *)
OpenInOrder(w, edges) ==
    /\ \A i, j \in DOMAIN w.frames : w.frames[i].node = w.frames[j].node => i = j
    /\ \A i \in DOMAIN w.frames : w.frames[i].node \notin ToSet(w.done)
    /\ \A i \in DOMAIN w.frames : ToSet(w.frames[i].left) \subseteq ToSet(edges[w.frames[i].node])
    /\ \A i \in DOMAIN w.frames : i + 1 \in DOMAIN w.frames => w.frames[i + 1].node \in ToSet(edges[w.frames[i].node])

(* A child of an open visit was left, is still to come, or is the visit     *)
(* above it; but v, which the innermost is about to call.                   *)
ChildrenAreSeen(w, edges, But) ==
    \A i \in DOMAIN w.frames : \A c \in ToSet(edges[w.frames[i].node]) :
        \/ c \in ToSet(w.done) \/ c \in ToSet(w.frames[i].left)
        \/ i + 1 \in DOMAIN w.frames /\ c = w.frames[i + 1].node
        \/ i = Len(w.frames) /\ c \in But

RootsAreSeen(w, R, But) ==
    \A r \in R :
        \/ r \in ToSet(w.done) \/ r \in ToSet(w.roots)
        \/ w.frames # <<>> /\ r = w.frames[1].node
        \/ w.frames = <<>> /\ r \in But

VisitInv(w, N, edges, R) ==
    /\ w \in VisitStates(N)
    /\ w.cycle => Loop(N, edges)
    /\ ~w.cycle => /\ LeftInOrder(w, edges) /\ OpenInOrder(w, edges)
                   /\ ChildrenAreSeen(w, edges, {}) /\ RootsAreSeen(w, R, {})

LEMMA VisitsStart ==
    ASSUME NEW N, NEW edges, NEW roots \in Seq(N)
    PROVE  VisitInv(StartVisits(roots), N, edges, ToSet(roots))
<1> DEFINE w == StartVisits(roots)
<1>1. w \in VisitStates(N) /\ ~w.cycle /\ w.frames = <<>> /\ w.done = <<>> /\ w.roots = roots
  BY DEF StartVisits, VisitStates
<1>2. DOMAIN w.frames = {} /\ DOMAIN w.done = {}
  BY <1>1
<1> QED BY <1>1, <1>2 DEF VisitInv, LeftInOrder, OpenInOrder, ChildrenAreSeen, RootsAreSeen

(* The open visits from the one of a node on are a cycle when its node is   *)
(* called again.                                                            *)
LEMMA CalledAgain ==
    ASSUME NEW N, NEW edges, NEW w \in VisitStates(N), OpenInOrder(w, edges), NEW v \in Visiting(w),
           v \in ToSet(edges[Top(w).node])
    PROVE  Loop(N, edges)
<1>1. PICK m \in DOMAIN w.frames : w.frames[m].node = v
  BY DEF Visiting
<1> DEFINE f == w.frames
           n == Len(f)
           S == {f[i].node : i \in m..n}
<1>2. f \in Seq(Frames(N)) /\ n \in Nat /\ DOMAIN f = 1..n /\ m \in 1..n
  BY <1>1 DEF VisitStates
<1>3. S \subseteq N
  <2>1. \A i \in m..n : i \in DOMAIN f
    BY <1>2
  <2>2. \A i \in DOMAIN f : f[i] \in Frames(N)
    BY <1>2
  <2> QED BY <2>1, <2>2 DEF Frames
<1>4. v \in S
  BY <1>1, <1>2
<1>5. ASSUME NEW i \in m..n PROVE ToSet(edges[f[i].node]) \cap S # {}
  <2>1. CASE i = n
    BY <2>1, <1>4 DEF Top
  <2>2. CASE i # n
    <3>1. i \in DOMAIN f /\ i + 1 \in DOMAIN f /\ i + 1 \in m..n
      BY <1>2, <2>2
    <3>2. f[i + 1].node \in ToSet(edges[f[i].node])
      BY <3>1 DEF OpenInOrder
    <3>3. f[i + 1].node \in S
      BY <3>1
    <3> QED BY <3>2, <3>3
  <2> QED BY <2>1, <2>2
<1>6. S # {} /\ \A u \in S : ToSet(edges[u]) \cap S # {}
  BY <1>4, <1>5
<1> HIDE DEF S
<1> QED BY <1>3, <1>6 DEF Loop

(* visit(v) is called by the innermost open visit, or by the loop over the  *)
(* roots.                                                                   *)
LEMMA NodeIsEntered ==
    ASSUME NEW N, NEW edges, EdgesIn(N, edges), NEW R, NEW w \in VisitStates(N), NEW v \in N, ~w.cycle,
           LeftInOrder(w, edges), OpenInOrder(w, edges),
           ChildrenAreSeen(w, edges, {v}), RootsAreSeen(w, R, {v}),
           w.frames # <<>> => v \in ToSet(edges[Top(w).node])
    PROVE  VisitInv(EnterNode(w, v, edges), N, edges, R)
<1>0. w = [roots |-> w.roots, frames |-> w.frames, done |-> w.done, cycle |-> w.cycle] /\ edges[v] \in Seq(N)
      /\ w.frames \in Seq(Frames(N))
  BY DEF VisitStates, EdgesIn
<1>1. CASE v \in ToSet(w.done)
  <2>1. EnterNode(w, v, edges) = w
    BY <1>1 DEF EnterNode
  <2>2. ChildrenAreSeen(w, edges, {}) /\ RootsAreSeen(w, R, {})
    BY <1>1 DEF ChildrenAreSeen, RootsAreSeen
  <2> QED BY <2>1, <2>2 DEF VisitInv
<1>2. CASE v \notin ToSet(w.done) /\ v \in Visiting(w)
  <2>1. EnterNode(w, v, edges) = [w EXCEPT !.cycle = TRUE]
    BY <1>2 DEF EnterNode
  <2>2. EnterNode(w, v, edges) \in VisitStates(N) /\ EnterNode(w, v, edges).cycle
    BY <2>1 DEF VisitStates
  <2>3. w.frames # <<>>
    BY <1>2 DEF Visiting
  <2>4. Loop(N, edges)
    BY <1>2, <2>3, CalledAgain
  <2> QED BY <2>2, <2>4 DEF VisitInv
<1>3. CASE v \notin ToSet(w.done) /\ v \notin Visiting(w)
  <2> DEFINE fr == [node |-> v, left |-> edges[v]]
             x == EnterNode(w, v, edges)
             n == Len(w.frames)
  <2>1. x = [w EXCEPT !.frames = Append(@, fr)]
    BY <1>3 DEF EnterNode
  <2>2. fr \in Frames(N) /\ fr.node = v /\ fr.left = edges[v]
    BY <1>0 DEF Frames
  <2>a. Append(w.frames, fr) \in Seq(Frames(N))
    BY <1>0, <2>2, AppendAdds
  <2>b. x = [roots |-> w.roots, frames |-> Append(w.frames, fr), done |-> w.done, cycle |-> w.cycle]
    BY <1>0, <2>1
  <2> HIDE DEF x, fr
  <2>3. x \in VisitStates(N) /\ x.frames = Append(w.frames, fr) /\ x.done = w.done /\ x.roots = w.roots /\ ~x.cycle
    BY <2>a, <2>b DEF VisitStates
  <2>4. /\ n \in Nat /\ DOMAIN w.frames = 1..n /\ DOMAIN x.frames = 1..n \cup {n + 1} /\ Len(x.frames) = n + 1
        /\ \A i \in 1..n : x.frames[i] = w.frames[i]
        /\ x.frames[n + 1] = fr /\ x.frames # <<>>
    BY <1>0, <2>2, <2>3, AppendAdds
  <2>5. \A i \in 1..n : w.frames[i].node # v
    BY <1>3, <2>4 DEF Visiting
  <2>6. w.frames # <<>> <=> n # 0
    BY <1>0
  <2> HIDE DEF n
  <2>7. LeftInOrder(x, edges)
    BY <2>3 DEF LeftInOrder
  <2>8. OpenInOrder(x, edges)
    <3>1. \A i, j \in DOMAIN x.frames : x.frames[i].node = x.frames[j].node => i = j
      <4>1. \A i, j \in 1..n : x.frames[i].node = x.frames[j].node => i = j
        BY <2>4 DEF OpenInOrder
      <4>2. \A i \in 1..n : x.frames[i].node # x.frames[n + 1].node
        BY <2>2, <2>4, <2>5
      <4> QED BY <4>1, <4>2, <2>4
    <3>2. \A i \in DOMAIN x.frames : x.frames[i].node \notin ToSet(x.done)
      BY <1>3, <2>2, <2>3, <2>4 DEF OpenInOrder
    <3>3. \A i \in DOMAIN x.frames : ToSet(x.frames[i].left) \subseteq ToSet(edges[x.frames[i].node])
      BY <2>2, <2>4 DEF OpenInOrder
    <3>4. ASSUME NEW i \in DOMAIN x.frames, i + 1 \in DOMAIN x.frames
          PROVE  x.frames[i + 1].node \in ToSet(edges[x.frames[i].node])
      <4>1. CASE i + 1 \in 1..n
        <5>1. i \in 1..n
          BY <4>1, <2>4
        <5> QED BY <4>1, <5>1, <2>4 DEF OpenInOrder
      <4>2. CASE i = n /\ n # 0
        <5>1. i \in 1..n /\ x.frames[i] = w.frames[n] /\ x.frames[i + 1].node = v
          BY <4>2, <2>2, <2>4
        <5>2. v \in ToSet(edges[w.frames[n].node])
          BY <4>2, <2>6 DEF Top, n
        <5> QED BY <5>1, <5>2
      <4> QED BY <4>1, <4>2, <3>4, <2>4
    <3> QED BY <3>1, <3>2, <3>3, <3>4 DEF OpenInOrder
  <2>9. ChildrenAreSeen(x, edges, {})
    <3> SUFFICES ASSUME NEW i \in DOMAIN x.frames, NEW c \in ToSet(edges[x.frames[i].node])
                 PROVE  \/ c \in ToSet(x.done) \/ c \in ToSet(x.frames[i].left)
                        \/ i + 1 \in DOMAIN x.frames /\ c = x.frames[i + 1].node
      BY DEF ChildrenAreSeen
    <3>1. CASE i = n + 1
      BY <3>1, <2>2, <2>4
    <3>2. CASE i \in 1..n
      <4>1. \/ c \in ToSet(w.done) \/ c \in ToSet(w.frames[i].left)
            \/ i + 1 \in DOMAIN w.frames /\ c = w.frames[i + 1].node
            \/ i = Len(w.frames) /\ c = v
        BY <3>2, <2>4 DEF ChildrenAreSeen
      <4>2. i + 1 \in DOMAIN w.frames => i + 1 \in 1..n /\ x.frames[i + 1] = w.frames[i + 1]
        BY <2>4
      <4>3. i = n => i + 1 \in DOMAIN x.frames /\ x.frames[i + 1].node = v
        BY <2>2, <2>4
      <4>4. x.frames[i] = w.frames[i] /\ 1..n \subseteq DOMAIN x.frames
        BY <3>2, <2>4
      <4> QED BY <4>1, <4>2, <4>3, <4>4, <2>3 DEF n
    <3> QED BY <3>1, <3>2, <2>4
  <2>10. RootsAreSeen(x, R, {})
    <3> SUFFICES ASSUME NEW r \in R
                 PROVE  r \in ToSet(x.done) \/ r \in ToSet(x.roots) \/ (x.frames # <<>> /\ r = x.frames[1].node)
      BY DEF RootsAreSeen
    <3>1. \/ r \in ToSet(w.done) \/ r \in ToSet(w.roots)
          \/ w.frames # <<>> /\ r = w.frames[1].node
          \/ w.frames = <<>> /\ r = v
      BY DEF RootsAreSeen
    <3>2. w.frames # <<>> => x.frames[1] = w.frames[1]
      BY <2>4, <2>6
    <3>3. w.frames = <<>> => x.frames[1].node = v
      BY <2>2, <2>4, <2>6
    <3> QED BY <3>1, <3>2, <3>3, <2>3, <2>4
  <2> QED BY <2>3, <2>7, <2>8, <2>9, <2>10 DEF VisitInv, x
<1> QED BY <1>1, <1>2, <1>3

LEMMA RootIsEntered ==
    ASSUME NEW N, NEW edges, EdgesIn(N, edges), NEW R, NEW w, VisitInv(w, N, edges, R), AtRoot(w)
    PROVE  VisitInv(EnterRoot(w, edges), N, edges, R)
<1> DEFINE u == [w EXCEPT !.roots = Tail(@)]
           v == Head(w.roots)
<1>1. w \in VisitStates(N) /\ w.roots \in Seq(N) /\ w.roots # <<>> /\ w.frames = <<>> /\ ~w.cycle
  BY DEF VisitInv, AtRoot, VisitStates
<1>2. v \in N /\ Tail(w.roots) \in Seq(N) /\ ToSet(w.roots) = {v} \cup ToSet(Tail(w.roots))
  BY <1>1, HeadAndTail
<1>3. u \in VisitStates(N) /\ u.roots = Tail(w.roots) /\ u.frames = <<>> /\ u.done = w.done /\ ~u.cycle
  BY <1>1, <1>2 DEF VisitStates
<1>4. LeftInOrder(u, edges)
  BY <1>1, <1>3 DEF VisitInv, LeftInOrder
<1>5. DOMAIN u.frames = {}
  BY <1>3
<1>6. RootsAreSeen(u, R, {v})
  BY <1>1, <1>2, <1>3 DEF VisitInv, RootsAreSeen
<1>7. OpenInOrder(u, edges) /\ ChildrenAreSeen(u, edges, {v})
  BY <1>5 DEF OpenInOrder, ChildrenAreSeen
<1> HIDE DEF u
<1>8. VisitInv(EnterNode(u, v, edges), N, edges, R)
  BY <1>2, <1>3, <1>4, <1>6, <1>7, NodeIsEntered
<1> QED BY <1>8 DEF EnterRoot, u

LEMMA ChildIsEntered ==
    ASSUME NEW N, NEW edges, EdgesIn(N, edges), NEW R, NEW w, VisitInv(w, N, edges, R), AtChild(w)
    PROVE  VisitInv(EnterChild(w, edges), N, edges, R)
<1> DEFINE f == w.frames
           n == Len(f)
           v == Head(Top(w).left)
           top == [Top(w) EXCEPT !.left = Tail(@)]
           u == [w EXCEPT !.frames = Append(Front(@), top)]
<1>1. w \in VisitStates(N) /\ f \in Seq(Frames(N)) /\ f # <<>> /\ Top(w).left # <<>> /\ ~w.cycle
      /\ LeftInOrder(w, edges) /\ OpenInOrder(w, edges)
      /\ ChildrenAreSeen(w, edges, {}) /\ RootsAreSeen(w, R, {})
  BY DEF VisitInv, AtChild, VisitStates
<1>2. n \in Nat \ {0} /\ n \in DOMAIN f /\ DOMAIN f = 1..n /\ Top(w) = f[n] /\ f[n] \in Frames(N)
      /\ Front(f) \in Seq(Frames(N)) /\ Len(Front(f)) = n - 1 /\ DOMAIN Front(f) = 1..(n - 1)
      /\ \A i \in 1..(n - 1) : Front(f)[i] = f[i]
  BY <1>1, FrontAndLast DEF Top
<1>3. f[n] = [node |-> f[n].node, left |-> f[n].left] /\ f[n].node \in N /\ f[n].left \in Seq(N)
  BY <1>2 DEF Frames
<1>4. v \in N /\ Tail(f[n].left) \in Seq(N) /\ ToSet(f[n].left) = {v} \cup ToSet(Tail(f[n].left))
  BY <1>1, <1>2, <1>3, HeadAndTail
<1>5. top = [node |-> f[n].node, left |-> Tail(f[n].left)] /\ top \in Frames(N)
  <2>1. top = [[node |-> f[n].node, left |-> f[n].left] EXCEPT !.left = Tail(f[n].left)]
    BY <1>2, <1>3
  <2> HIDE DEF top, n
  <2>2. top = [node |-> f[n].node, left |-> Tail(f[n].left)]
    BY <2>1
  <2> QED BY <2>2, <1>3, <1>4 DEF Frames
<1>6. top.node = f[n].node /\ top.left = Tail(f[n].left)
  BY <1>5
<1> HIDE DEF top, v, n
<1>7. /\ Append(Front(f), top) \in Seq(Frames(N)) /\ Len(Append(Front(f), top)) = n
      /\ DOMAIN Append(Front(f), top) = 1..n /\ Append(Front(f), top)[n] = top
      /\ \A i \in 1..(n - 1) : Append(Front(f), top)[i] = f[i]
  <2>1. Front(f) \in Seq(Frames(N)) /\ Len(Front(f)) = n - 1 /\ DOMAIN Front(f) = 1..(n - 1)
    BY <1>2
  <2> DEFINE g == Front(f)
  <2> HIDE DEF g
  <2>2. /\ Append(g, top) \in Seq(Frames(N)) /\ Len(Append(g, top)) = Len(g) + 1 /\ Append(g, top)[Len(g) + 1] = top
        /\ \A i \in DOMAIN g : Append(g, top)[i] = g[i]
        /\ DOMAIN Append(g, top) = DOMAIN g \cup {Len(g) + 1}
    BY <2>1, <1>5, AppendAdds DEF g
  <2>3. Len(g) + 1 = n /\ 1..n = 1..(n - 1) \cup {n} /\ DOMAIN g = 1..(n - 1)
    BY <2>1, <1>2 DEF g
  <2>4. \A i \in 1..(n - 1) : g[i] = f[i]
    BY <1>2 DEF g
  <2>5. /\ Append(g, top) \in Seq(Frames(N)) /\ Len(Append(g, top)) = n /\ DOMAIN Append(g, top) = 1..n
        /\ Append(g, top)[n] = top /\ \A i \in 1..(n - 1) : Append(g, top)[i] = f[i]
    BY <2>2, <2>3, <2>4
  <2> QED BY <2>5 DEF g
<1>8. u = [roots |-> w.roots, frames |-> Append(Front(f), top), done |-> w.done, cycle |-> w.cycle]
  <2>1. w = [roots |-> w.roots, frames |-> w.frames, done |-> w.done, cycle |-> w.cycle]
    BY <1>1 DEF VisitStates
  <2> QED BY <2>1 DEF f
<1> HIDE DEF u
<1>9. /\ u \in VisitStates(N) /\ u.frames = Append(Front(f), top) /\ u.done = w.done /\ u.roots = w.roots /\ ~u.cycle
      /\ u.frames # <<>>
  <2>1. u.frames = Append(Front(f), top) /\ u.done = w.done /\ u.roots = w.roots /\ ~u.cycle
    BY <1>1, <1>8
  <2>2. u \in VisitStates(N)
    BY <1>1, <1>7, <1>8 DEF VisitStates
  <2>3. u.frames # <<>>
    BY <1>2, <1>7, <2>1
  <2> QED BY <2>1, <2>2, <2>3
<1>10. /\ DOMAIN u.frames = 1..n /\ Len(u.frames) = n /\ u.frames[n] = top /\ \A i \in 1..(n - 1) : u.frames[i] = f[i]
       /\ \A i \in 1..n : u.frames[i].node = f[i].node
  BY <1>2, <1>6, <1>7, <1>9
<1> DEFINE Over(i) == u.frames[i].left
<1>11. \A i \in 1..n : ToSet(u.frames[i].left) \subseteq ToSet(f[i].left)
  BY <1>2, <1>4, <1>6, <1>10
<1>12. \A i \in 1..n : \A c \in ToSet(f[i].left) : c \in ToSet(u.frames[i].left) \/ (i = n /\ c = v)
  BY <1>2, <1>4, <1>6, <1>10
<1>13. LeftInOrder(u, edges)
  BY <1>1, <1>9 DEF LeftInOrder
<1>14. OpenInOrder(u, edges)
  BY <1>1, <1>2, <1>9, <1>10, <1>11 DEF OpenInOrder
<1>15. ChildrenAreSeen(u, edges, {v})
  <2> SUFFICES ASSUME NEW i \in 1..n, NEW c \in ToSet(edges[f[i].node])
               PROVE  \/ c \in ToSet(w.done) \/ c \in ToSet(u.frames[i].left)
                      \/ i + 1 \in 1..n /\ c = f[i + 1].node
                      \/ i = n /\ c = v
    BY <1>9, <1>10 DEF ChildrenAreSeen
  <2>1. c \in ToSet(w.done) \/ c \in ToSet(f[i].left) \/ (i + 1 \in 1..n /\ c = f[i + 1].node)
    BY <1>1, <1>2 DEF ChildrenAreSeen
  <2> QED BY <2>1, <1>12
<1>16. RootsAreSeen(u, R, {v})
  <2>1. 1 \in 1..n /\ u.frames[1].node = f[1].node
    BY <1>2, <1>10
  <2> QED BY <2>1, <1>1, <1>9 DEF RootsAreSeen
<1>17. v \in ToSet(edges[Top(u).node])
  <2>1. Top(u).node = f[n].node
    BY <1>2, <1>10 DEF Top
  <2>2. ToSet(f[n].left) \subseteq ToSet(edges[f[n].node])
    BY <1>1, <1>2 DEF OpenInOrder
  <2> QED BY <2>1, <2>2, <1>4
<1>18. VisitInv(EnterNode(u, v, edges), N, edges, R)
  BY <1>4, <1>9, <1>13, <1>14, <1>15, <1>16, <1>17, NodeIsEntered
<1> QED BY <1>18 DEF EnterChild, u, v, top

(* A visit returns: the children of its node were left.                     *)
LEMMA NodeIsLeft ==
    ASSUME NEW N, NEW edges, EdgesIn(N, edges), NEW R, NEW w, VisitInv(w, N, edges, R), AtEnd(w)
    PROVE  VisitInv(LeaveNode(w), N, edges, R)
<1> DEFINE f == w.frames
           n == Len(f)
           t == f[n].node
           x == LeaveNode(w)
           d == Len(w.done)
<1>1. w \in VisitStates(N) /\ f \in Seq(Frames(N)) /\ f # <<>> /\ Top(w).left = <<>> /\ ~w.cycle /\ w.done \in Seq(N)
      /\ LeftInOrder(w, edges) /\ OpenInOrder(w, edges)
      /\ ChildrenAreSeen(w, edges, {}) /\ RootsAreSeen(w, R, {})
  BY DEF VisitInv, AtEnd, VisitStates
<1>2. n \in Nat \ {0} /\ n \in DOMAIN f /\ DOMAIN f = 1..n /\ Top(w) = f[n] /\ f[n] \in Frames(N)
      /\ Front(f) \in Seq(Frames(N)) /\ Len(Front(f)) = n - 1 /\ DOMAIN Front(f) = 1..(n - 1)
      /\ \A i \in 1..(n - 1) : Front(f)[i] = f[i]
  BY <1>1, FrontAndLast DEF Top
<1>3. t \in N
  BY <1>2 DEF Frames
<1>4. /\ Append(w.done, t) \in Seq(N) /\ ToSet(Append(w.done, t)) = ToSet(w.done) \cup {t}
      /\ Append(w.done, t)[d + 1] = t /\ \A i \in DOMAIN w.done : Append(w.done, t)[i] = w.done[i]
      /\ DOMAIN Append(w.done, t) = DOMAIN w.done \cup {d + 1}
      /\ d \in Nat /\ DOMAIN w.done = 1..d
  <2>1. d \in Nat /\ DOMAIN w.done = 1..d
    BY <1>1
  <2> QED BY <2>1, <1>1, <1>3, AppendAdds
<1>5. x = [roots |-> w.roots, frames |-> Front(f), done |-> Append(w.done, t), cycle |-> w.cycle]
  <2>1. w = [roots |-> w.roots, frames |-> w.frames, done |-> w.done, cycle |-> w.cycle]
    BY <1>1 DEF VisitStates
  <2>2. x = [w EXCEPT !.frames = Front(f), !.done = Append(w.done, t)]
    BY <1>2 DEF LeaveNode
  <2> QED BY <2>1, <2>2
<1> HIDE DEF x, n, d
<1>6. x \in VisitStates(N) /\ x.frames = Front(f) /\ x.done = Append(w.done, t) /\ x.roots = w.roots /\ ~x.cycle
  <2>1. x.frames = Front(f) /\ x.done = Append(w.done, t) /\ x.roots = w.roots /\ ~x.cycle
    BY <1>1, <1>5
  <2>2. x \in VisitStates(N)
    BY <1>1, <1>2, <1>4, <1>5 DEF VisitStates
  <2> QED BY <2>1, <2>2
<1>7. DOMAIN x.frames = 1..(n - 1) /\ Len(x.frames) = n - 1 /\ \A i \in 1..(n - 1) : x.frames[i] = f[i]
  BY <1>2, <1>6
<1>8. /\ ToSet(x.done) = ToSet(w.done) \cup {t} /\ DOMAIN x.done = 1..d \cup {d + 1} /\ x.done[d + 1] = t
      /\ \A i \in 1..d : x.done[i] = w.done[i]
  BY <1>4, <1>6
<1>9. t \notin ToSet(w.done) /\ \A i \in 1..d : w.done[i] # t
  <2>1. t \notin ToSet(w.done)
    BY <1>1, <1>2 DEF OpenInOrder
  <2> QED BY <2>1, <1>4, ElementIsAt
<1>10. \A c \in ToSet(edges[t]) : c \in ToSet(w.done)
  <2>1. ToSet(f[n].left) = {}
    BY <1>1, <1>2 DEF ToSet
  <2>2. n + 1 \notin DOMAIN f
    BY <1>2
  <2> QED BY <2>1, <2>2, <1>1, <1>2 DEF ChildrenAreSeen
<1>11. LeftInOrder(x, edges)
  <2>1. \A i, j \in DOMAIN x.done : x.done[i] = x.done[j] => i = j
    <3>1. \A i, j \in 1..d : w.done[i] = w.done[j] => i = j
      BY <1>1, <1>4 DEF LeftInOrder
    <3> QED BY <3>1, <1>8, <1>9
  <2>2. ASSUME NEW i \in DOMAIN x.done, NEW c \in ToSet(edges[x.done[i]])
        PROVE  \E j \in DOMAIN x.done : j < i /\ x.done[j] = c
    <3>1. CASE i \in 1..d
      <4>0. c \in ToSet(edges[w.done[i]]) /\ i \in DOMAIN w.done
        BY <3>1, <1>4, <1>8
      <4>1. \E j \in 1..d : j < i /\ w.done[j] = c
        BY <4>0, <1>1, <1>4 DEF LeftInOrder
      <4> QED BY <4>1, <1>8
    <3>2. CASE i = d + 1
      <4>1. c \in ToSet(w.done)
        BY <3>2, <1>8, <1>10
      <4>2. PICK j \in 1..d : w.done[j] = c
        BY <4>1, <1>4 DEF ToSet
      <4>3. j < d + 1 /\ x.done[j] = c /\ j \in DOMAIN x.done
        BY <4>2, <1>4, <1>8
      <4> QED BY <3>2, <4>3
    <3> QED BY <3>1, <3>2, <1>8
  <2> QED BY <2>1, <2>2 DEF LeftInOrder
<1>12. OpenInOrder(x, edges)
  <2>1. \A i \in 1..(n - 1) : i \in 1..n /\ i # n /\ (i + 1 \in 1..(n - 1) => i + 1 \in 1..n)
    BY <1>2
  <2>2. \A i \in 1..(n - 1) : f[i].node \notin ToSet(w.done) /\ f[i].node # t
    BY <1>1, <1>2, <2>1 DEF OpenInOrder
  <2>3. \A i, j \in 1..(n - 1) : f[i].node = f[j].node => i = j
    BY <1>1, <1>2, <2>1 DEF OpenInOrder
  <2>4. \A i \in 1..(n - 1) : /\ ToSet(f[i].left) \subseteq ToSet(edges[f[i].node])
                              /\ i + 1 \in 1..(n - 1) => f[i + 1].node \in ToSet(edges[f[i].node])
    BY <1>1, <1>2, <2>1 DEF OpenInOrder
  <2> QED BY <2>2, <2>3, <2>4, <1>7, <1>8 DEF OpenInOrder
<1>13. ChildrenAreSeen(x, edges, {})
  <2> SUFFICES ASSUME NEW i \in 1..(n - 1), NEW c \in ToSet(edges[f[i].node])
               PROVE  \/ c \in ToSet(w.done) \cup {t} \/ c \in ToSet(f[i].left)
                      \/ i + 1 \in 1..(n - 1) /\ c = f[i + 1].node
    BY <1>7, <1>8 DEF ChildrenAreSeen
  <2>1. i \in 1..n /\ i + 1 \in 1..n /\ (i + 1 \in 1..(n - 1) \/ i + 1 = n)
    BY <1>2
  <2>2. c \in ToSet(w.done) \/ c \in ToSet(f[i].left) \/ c = f[i + 1].node
    BY <1>1, <1>2, <2>1 DEF ChildrenAreSeen
  <2> QED BY <2>1, <2>2
<1>14. RootsAreSeen(x, R, {})
  <2> SUFFICES ASSUME NEW r \in R
               PROVE  r \in ToSet(w.done) \cup {t} \/ r \in ToSet(w.roots) \/ (x.frames # <<>> /\ r = x.frames[1].node)
    BY <1>6, <1>8 DEF RootsAreSeen
  <2>1. r \in ToSet(w.done) \/ r \in ToSet(w.roots) \/ r = f[1].node
    BY <1>1 DEF RootsAreSeen
  <2>2. CASE n = 1
    BY <2>1, <2>2
  <2>3. CASE n # 1
    <3>1. 1 \in 1..(n - 1)
      BY <1>2, <2>3
    <3>2. x.frames # <<>>
      BY <3>1, <1>7
    <3> QED BY <2>1, <3>1, <3>2, <1>7
  <2> QED BY <2>2, <2>3
<1> QED BY <1>6, <1>11, <1>12, <1>13, <1>14 DEF VisitInv, x

(* The walk keeps its invariant.                                            *)
LEMMA VisitsGoOn ==
    ASSUME NEW N, NEW edges, EdgesIn(N, edges), NEW R, NEW w, VisitInv(w, N, edges, R), NEW x, VisitStep(w, x, edges)
    PROVE  VisitInv(x, N, edges, R)
BY RootIsEntered, ChildIsEntered, NodeIsLeft DEF VisitStep

(* A walk that is over has left every root once, after all its children.    *)
LEMMA VisitsEnd ==
    ASSUME NEW N, NEW edges, NEW R, NEW w, VisitInv(w, N, edges, R), AllVisited(w)
    PROVE  w.done \in Seq(N) /\ LeftInOrder(w, edges) /\ R \subseteq ToSet(w.done)
<1>1. w.roots = <<>> /\ w.frames = <<>> /\ ~w.cycle
  BY DEF AllVisited
<1>2. ToSet(w.roots) = {}
  BY <1>1 DEF ToSet
<1> QED BY <1>1, <1>2 DEF VisitInv, RootsAreSeen, VisitStates

-----------------------------------------------------------------------------
(* How often a sequence holds an element of E.                              *)
CountIn(s, E) == Cardinality({i \in DOMAIN s : s[i] \in E})

LEMMA CountsAreNumbers ==
    ASSUME NEW S, NEW s \in Seq(S), NEW E
    PROVE  /\ IsFiniteSet({i \in DOMAIN s : s[i] \in E}) /\ CountIn(s, E) \in Nat
<1>1. DOMAIN s = 1..Len(s) /\ Len(s) \in Nat
  OBVIOUS
<1>2. IsFiniteSet(1..Len(s))
  BY <1>1, FS_Interval
<1>3. IsFiniteSet({i \in DOMAIN s : s[i] \in E})
  BY <1>1, <1>2, FS_Subset
<1> QED BY <1>3, FS_CardinalityType DEF CountIn

LEMMA NothingIsCounted == ASSUME NEW E PROVE CountIn(<<>>, E) = 0
<1>1. {i \in DOMAIN <<>> : <<>>[i] \in E} = {}
  OBVIOUS
<1> QED BY <1>1, FS_EmptySet DEF CountIn

LEMMA OneIsCounted == ASSUME NEW E, NEW e PROVE CountIn(<<e>>, E) = IF e \in E THEN 1 ELSE 0
<1>1. DOMAIN <<e>> = {1} /\ <<e>>[1] = e
  OBVIOUS
<1>2. {i \in DOMAIN <<e>> : <<e>>[i] \in E} = IF e \in E THEN {1} ELSE {}
  BY <1>1
<1> QED BY <1>2, FS_EmptySet, FS_Singleton DEF CountIn

(* Numbers moved up by n are as many.                                       *)
LEMMA MovedUp ==
    ASSUME NEW J \in SUBSET Nat, IsFiniteSet(J), NEW n \in Nat
    PROVE  IsFiniteSet({n + j : j \in J}) /\ Cardinality({n + j : j \in J}) = Cardinality(J)
<1> DEFINE K == {n + j : j \in J}
           f == [j \in J |-> n + j]
<1>1. f \in [J -> K] /\ (\A i, j \in J : f[i] = f[j] => i = j) /\ \A k \in K : \E j \in J : f[j] = k
  OBVIOUS
<1>2. f \in Bijection(J, K)
  <2> HIDE DEF f, K
  <2> QED BY <1>1 DEF Bijection, Injection, Surjection, IsInjective
<1>3. ExistsBijection(J, K)
  BY <1>2 DEF ExistsBijection
<1> HIDE DEF f, K
<1>4. IsFiniteSet(K) /\ Cardinality(K) = Cardinality(J)
  BY <1>3, FS_Bijection
<1> QED BY <1>4 DEF K

LEMMA CountsAdd ==
    ASSUME NEW S, NEW s \in Seq(S), NEW t \in Seq(S), NEW E
    PROVE  CountIn(s \o t, E) = CountIn(s, E) + CountIn(t, E)
<1> DEFINE I == {i \in DOMAIN s : s[i] \in E}
           J == {i \in DOMAIN t : t[i] \in E}
           K == {i \in DOMAIN (s \o t) : (s \o t)[i] \in E}
           n == Len(s)
           M == {n + j : j \in J}
<1>1. /\ DOMAIN s = 1..n /\ DOMAIN t = 1..Len(t) /\ DOMAIN (s \o t) = 1..(n + Len(t)) /\ n \in Nat /\ Len(t) \in Nat
      /\ (\A i \in 1..n : (s \o t)[i] = s[i]) /\ \A j \in 1..Len(t) : (s \o t)[n + j] = t[j]
  OBVIOUS
<1>2. IsFiniteSet(I) /\ IsFiniteSet(J) /\ J \in SUBSET Nat
  <2>1. IsFiniteSet(I)
    BY CountsAreNumbers
  <2>2. IsFiniteSet(J)
    BY CountsAreNumbers
  <2>3. J \in SUBSET Nat
    BY <1>1
  <2> QED BY <2>1, <2>2, <2>3
<1>3. K = I \cup M
  <2>1. ASSUME NEW k \in K PROVE k \in I \cup M
    <3>1. CASE k \in 1..n
      BY <1>1, <3>1
    <3>2. CASE k \notin 1..n
      <4>1. k - n \in 1..Len(t) /\ k = n + (k - n)
        BY <1>1, <3>2
      <4> QED BY <1>1, <4>1
    <3> QED BY <3>1, <3>2
  <2>2. \A k \in I : k \in K
    BY <1>1
  <2>3. ASSUME NEW j \in J PROVE n + j \in K
    <3>1. j \in 1..Len(t) /\ n + j \in 1..(n + Len(t))
      BY <1>1
    <3> QED BY <1>1, <3>1
  <2> HIDE DEF I, J, K
  <2> QED BY <2>1, <2>2, <2>3
<1>4. I \cap M = {}
  BY <1>1
<1> HIDE DEF I, J, K, M
<1>5. IsFiniteSet(M) /\ Cardinality(M) = Cardinality(J)
  BY <1>1, <1>2, MovedUp DEF M
<1>6. Cardinality(I) \in Nat /\ Cardinality(M) \in Nat
  BY <1>2, <1>5, FS_CardinalityType
<1>7. Cardinality(K) = Cardinality(I) + Cardinality(M)
  <2>1. Cardinality(I \cap M) = 0
    BY <1>4, FS_EmptySet
  <2>2. Cardinality(I \cup M) = Cardinality(I) + Cardinality(M) - Cardinality(I \cap M)
    BY <1>2, <1>5, FS_Union
  <2> QED BY <1>3, <1>6, <2>1, <2>2
<1> QED BY <1>5, <1>7 DEF CountIn, I, J, K

LEMMA AppendCounts ==
    ASSUME NEW S, NEW s \in Seq(S), NEW e \in S, NEW E
    PROVE  CountIn(Append(s, e), E) = CountIn(s, E) + (IF e \in E THEN 1 ELSE 0)
<1>1. Append(s, e) = s \o <<e>> /\ <<e>> \in Seq(S)
  OBVIOUS
<1> DEFINE one == <<e>>
<1>2. CountIn(one, E) = IF e \in E THEN 1 ELSE 0
  BY OneIsCounted
<1> HIDE DEF one
<1>3. CountIn(s \o one, E) = CountIn(s, E) + CountIn(one, E)
  BY <1>1, CountsAdd DEF one
<1>4. Append(s, e) = s \o one
  BY <1>1 DEF one
<1> QED BY <1>2, <1>3, <1>4

LEMMA TailCounts ==
    ASSUME NEW S, NEW s \in Seq(S), s # <<>>, NEW E
    PROVE  CountIn(s, E) = CountIn(Tail(s), E) + (IF Head(s) \in E THEN 1 ELSE 0)
<1>1. s = <<Head(s)>> \o Tail(s) /\ <<Head(s)>> \in Seq(S) /\ Tail(s) \in Seq(S)
  OBVIOUS
<1> DEFINE h == <<Head(s)>>
           r == Tail(s)
<1>2. CountIn(h, E) = IF Head(s) \in E THEN 1 ELSE 0
  BY OneIsCounted
<1> HIDE DEF h, r
<1>3. CountIn(s, E) = CountIn(h, E) + CountIn(r, E)
  BY <1>1, CountsAdd DEF h, r
<1>4. CountIn(h, E) \in Nat /\ CountIn(r, E) \in Nat
  BY <1>1, CountsAreNumbers DEF h, r
<1> QED BY <1>2, <1>3, <1>4 DEF r

(* A list made from another, place by place.                                *)
LEMMA PlacesCount ==
    ASSUME NEW s, NEW f, DOMAIN f = DOMAIN s, NEW E, NEW F, \A i \in DOMAIN s : f[i] \in F <=> s[i] \in E
    PROVE  CountIn(f, F) = CountIn(s, E)
<1>1. {i \in DOMAIN f : f[i] \in F} = {i \in DOMAIN s : s[i] \in E}
  OBVIOUS
<1> QED BY <1>1 DEF CountIn

(* A set that is listed has each of its elements once.                      *)
LEMMA ListedOnce ==
    ASSUME NEW S, NEW U \in SUBSET S, IsFiniteSet(U), NEW t
    PROVE  /\ SetToSeq(U) \in Seq(S) /\ Len(SetToSeq(U)) = Cardinality(U) /\ Cardinality(U) \in Nat
           /\ \A i \in 1..Cardinality(U) : SetToSeq(U)[i] \in U
           /\ CountIn(SetToSeq(U), {t}) = IF t \in U THEN 1 ELSE 0
<1> DEFINE n == Cardinality(U)
           s == SetToSeq(U)
<1>1. n \in Nat /\ \E f : f \in Bijection(1..n, U)
  BY FS_CardinalityType DEF ExistsBijection
<1>2. PICK f : f \in Bijection(1..n, U)
  BY <1>1
<1>3. f \in [1..n -> U] /\ IsInjective(f)
  BY <1>2 DEF Bijection, Injection, IsInjective
<1>4. s \in [1..n -> U] /\ IsInjective(s)
  BY <1>3 DEF SetToSeq
<1> HIDE DEF s, n
<1>5. s \in Seq(S) /\ Len(s) = n /\ DOMAIN s = 1..n
  BY <1>1, <1>4
<1>6. IsFiniteSet(1..n) /\ Cardinality(1..n) = n
  BY <1>1, FS_Interval
<1>7. s \in Surjection(1..n, U)
  <2>1. s \in Injection(1..n, U)
    BY <1>4 DEF Injection
  <2> QED BY <1>6, <2>1, FS_Injection DEF n
<1>8. CASE t \in U
  <2>1. PICK k \in 1..n : s[k] = t
    BY <1>7, <1>8 DEF Surjection
  <2>2. {i \in DOMAIN s : s[i] \in {t}} = {k}
    BY <1>4, <1>5, <2>1 DEF IsInjective
  <2> QED BY <1>1, <1>4, <1>5, <1>8, <2>2, FS_Singleton DEF CountIn, s, n
<1>9. CASE t \notin U
  <2>1. {i \in DOMAIN s : s[i] \in {t}} = {}
    BY <1>4, <1>5, <1>9
  <2> QED BY <1>1, <1>4, <1>5, <1>9, <2>1, FS_EmptySet DEF CountIn, s, n
<1> QED BY <1>8, <1>9

(* One list after another holds what both do.                               *)
LEMMA ConcatAdds ==
    ASSUME NEW S, NEW s \in Seq(S), NEW t \in Seq(S)
    PROVE  s \o t \in Seq(S) /\ ToSet(s \o t) = ToSet(s) \cup ToSet(t)
<1>1. /\ DOMAIN s = 1..Len(s) /\ DOMAIN t = 1..Len(t) /\ DOMAIN (s \o t) = 1..(Len(s) + Len(t)) /\ s \o t \in Seq(S)
      /\ (\A i \in 1..Len(s) : (s \o t)[i] = s[i]) /\ (\A j \in 1..Len(t) : (s \o t)[Len(s) + j] = t[j])
      /\ Len(s) \in Nat /\ Len(t) \in Nat
  OBVIOUS
<1>2. ASSUME NEW i \in DOMAIN (s \o t) PROVE (s \o t)[i] \in ToSet(s) \cup ToSet(t)
  <2>1. CASE i \in 1..Len(s)
    BY <1>1, <2>1 DEF ToSet
  <2>2. CASE i \notin 1..Len(s)
    <3>1. i - Len(s) \in 1..Len(t) /\ i = Len(s) + (i - Len(s))
      BY <1>1, <2>2
    <3>2. (s \o t)[i] = t[i - Len(s)]
      BY <1>1, <3>1
    <3> QED BY <1>1, <3>1, <3>2 DEF ToSet
  <2> QED BY <2>1, <2>2
<1>3. \A i \in DOMAIN s : s[i] \in ToSet(s \o t)
  BY <1>1 DEF ToSet
<1>4. ASSUME NEW j \in DOMAIN t PROVE t[j] \in ToSet(s \o t)
  <2>1. Len(s) + j \in DOMAIN (s \o t) /\ (s \o t)[Len(s) + j] = t[j]
    BY <1>1
  <2> QED BY <2>1 DEF ToSet
<1>5. ToSet(s \o t) \subseteq ToSet(s) \cup ToSet(t)
  BY <1>2 DEF ToSet
<1>6. ToSet(s) \subseteq ToSet(s \o t) /\ ToSet(t) \subseteq ToSet(s \o t)
  BY <1>3, <1>4 DEF ToSet
<1> QED BY <1>1, <1>5, <1>6
=============================================================================
