----------------------------- MODULE StepProofs -----------------------------
(***************************************************************************)
(* Proofs about the budget ledger, for any accounts, operations and        *)
(* amounts, and what the calls of run_inner keep, for any number of hosts, *)
(* calls and attempts, on an account that others charge too.               *)
(***************************************************************************)
EXTENDS ModelStep, FiniteSetTheorems, TLAPS

(* The chain of an account holds the account itself.                         *)
LEMMA ChainHoldsItself == \A b \in Accounts : b \in Chain(b)
  BY DEF Chain

(* What one charge of a chain does to a well-typed ledger (charge_chain).    *)
LEMMA ChargeKeepsBounds ==
    ASSUME BudgetInv, NEW b \in Accounts, NEW delta \in Int, ChargeChain(b, delta)
    PROVE  /\ b \in open
           /\ spent' \in [Accounts -> Nat]
           /\ \A a \in open : spent'[a] <= limit[a]
           /\ \A a \in Accounts \ open : spent'[a] = 0
<1> DEFINE C == Chain(b)
<1>1. /\ C \subseteq open
      /\ \A a \in C : spent[a] + delta >= 0 /\ (delta > 0 => spent[a] + delta <= limit[a])
      /\ spent' = [a \in Accounts |-> IF a \in C THEN spent[a] + delta ELSE spent[a]]
      /\ b \in C
    BY ChainHoldsItself DEF ChargeChain, CanCharge
<1> HIDE DEF C
<1>2. spent \in [Accounts -> Nat] /\ limit \in [Accounts -> Nat] /\ open \subseteq Accounts
    BY DEF BudgetInv, BudgetTypeOK
<1>3. spent' \in [Accounts -> Nat]
    BY <1>1, <1>2
<1>4. ASSUME NEW a \in open PROVE spent'[a] <= limit[a]
    BY <1>1, <1>2 DEF BudgetInv, WithinLimit
<1>5. ASSUME NEW a \in Accounts \ open PROVE spent'[a] = 0
    BY <1>1, <1>2 DEF BudgetInv, UnopenedIsUncharged
<1> QED BY <1>1, <1>3, <1>4, <1>5

LEMMA BudgetInvInit == BudgetInit => BudgetInv
  BY BudgetAssumption DEF BudgetInit, BudgetInv, BudgetTypeOK, WithinLimit, UnopenedIsUncharged,
     ReservedOnAccount, NoReservation, Reservation, ReservationState

(* Every transaction of the ledger preserves the inductive invariant.        *)
LEMMA BudgetInvStep == BudgetInv /\ [BudgetNext]_budgetVars => BudgetInv'
<1> SUFFICES ASSUME BudgetInv, [BudgetNext]_budgetVars PROVE BudgetInv'
    OBVIOUS
<1> USE BudgetAssumption
<1>0. BudgetTypeOK /\ WithinLimit /\ UnopenedIsUncharged /\ ReservedOnAccount
    BY DEF BudgetInv
<1>1. ASSUME NEW a \in Accounts, NEW p \in Accounts \cup {NoAccount}, NEW max \in Tokens,
             EnsureAccount(a, p, max)
      PROVE  BudgetInv'
    BY <1>0, <1>1 DEF EnsureAccount, BudgetInv, BudgetTypeOK, WithinLimit, UnopenedIsUncharged,
       ReservedOnAccount
<1>2. ASSUME NEW o \in Operations, NEW b \in Accounts, NEW bound \in Tokens, Reserve(o, b, bound)
      PROVE  BudgetInv'
  <2>1. ChargeChain(b, bound) /\ UNCHANGED <<open, parent, limit>> /\ bound \in Int
      BY <1>2 DEF Reserve
  <2>2. b \in open
      BY <2>1, ChargeKeepsBounds
  <2>3. reservation' \in [Operations -> Reservation] /\ ReservedOnAccount'
      BY <1>0, <1>2, <2>1, <2>2
         DEF Reserve, BudgetTypeOK, Reservation, ReservationState, ReservedOnAccount
  <2> QED BY <1>0, <2>1, <2>3, ChargeKeepsBounds
          DEF BudgetInv, BudgetTypeOK, WithinLimit, UnopenedIsUncharged
<1>3. ASSUME NEW o \in Operations, NEW delta \in Int,
             reservation[o].state = "reserved",
             UNCHANGED spent \/ ChargeChain(reservation[o].budget, delta),
             UNCHANGED <<open, parent, limit>>,
             reservation' \in [Operations -> Reservation],
             \A x \in Operations : reservation'[x].state = "reserved" => reservation'[x] = reservation[x]
      PROVE  BudgetInv'
  <2>1. reservation[o].budget \in Accounts
      BY <1>0, <1>3 DEF ReservedOnAccount, BudgetTypeOK
  <2>2. ReservedOnAccount'
      BY <1>0, <1>3 DEF ReservedOnAccount
  <2>3. CASE UNCHANGED spent
      BY <1>0, <1>3, <2>2, <2>3 DEF BudgetInv, BudgetTypeOK, WithinLimit, UnopenedIsUncharged
  <2>4. CASE ChargeChain(reservation[o].budget, delta)
      BY <1>0, <1>3, <2>1, <2>2, <2>4, ChargeKeepsBounds
         DEF BudgetInv, BudgetTypeOK, WithinLimit, UnopenedIsUncharged
  <2> QED BY <1>3, <2>3, <2>4
<1>4. ASSUME NEW o \in Operations, NEW used \in Tokens, SettleMeasured(o, used)
      PROVE  BudgetInv'
  <2>1. used - reservation[o].bound \in Int
      BY <1>0 DEF BudgetTypeOK, Reservation
  <2>2. /\ reservation' \in [Operations -> Reservation]
        /\ \A x \in Operations : reservation'[x].state = "reserved" => reservation'[x] = reservation[x]
      BY ZenonT(60), <1>0, <1>4 DEF SettleMeasured, BudgetTypeOK, Reservation, ReservationState
  <2>3. /\ reservation[o].state = "reserved"
        /\ UNCHANGED spent \/ ChargeChain(reservation[o].budget, used - reservation[o].bound)
        /\ UNCHANGED <<open, parent, limit>>
      BY <1>4 DEF SettleMeasured
  <2> QED BY <1>3, <2>1, <2>2, <2>3
<1>5. ASSUME NEW o \in Operations, SettleUnknown(o)
      PROVE  BudgetInv'
  <2>1. /\ reservation' \in [Operations -> Reservation]
        /\ \A x \in Operations : reservation'[x].state = "reserved" => reservation'[x] = reservation[x]
      BY <1>0, <1>5 DEF SettleUnknown, BudgetTypeOK, Reservation, ReservationState
  <2> QED BY <1>3, <1>5, <2>1 DEF SettleUnknown
<1>6. ASSUME NEW o \in Operations, Release(o)
      PROVE  BudgetInv'
  <2>1. -reservation[o].bound \in Int
      BY <1>0 DEF BudgetTypeOK, Reservation
  <2>2. /\ reservation' \in [Operations -> Reservation]
        /\ \A x \in Operations : reservation'[x].state = "reserved" => reservation'[x] = reservation[x]
      BY <1>0, <1>6 DEF Release, BudgetTypeOK, Reservation, ReservationState
  <2>3. /\ reservation[o].state = "reserved"
        /\ ChargeChain(reservation[o].budget, -reservation[o].bound)
        /\ UNCHANGED <<open, parent, limit>>
      BY <1>6 DEF Release
  <2> QED BY <1>3, <2>1, <2>2, <2>3
<1>7. CASE UNCHANGED budgetVars
    BY <1>0, <1>7 DEF budgetVars, BudgetInv, BudgetTypeOK, WithinLimit, UnopenedIsUncharged,
       ReservedOnAccount
<1> QED BY <1>1, <1>2, <1>4, <1>5, <1>6, <1>7 DEF BudgetNext

(* The ledger keeps its types and never charges an account past its limit,   *)
(* for every forest of accounts and any number of operations.                *)
THEOREM BudgetSafe == BudgetSpec => [](BudgetTypeOK /\ WithinLimit)
<1>1. BudgetInv => BudgetTypeOK /\ WithinLimit
    BY DEF BudgetInv
<1> QED BY <1>1, BudgetInvInit, BudgetInvStep, PTL DEF BudgetSpec

(* A reservation that is done keeps its numbers for ever: nothing settles    *)
(* or releases it a second time.                                             *)
THEOREM DoneReservationsStay == BudgetSpec => DoneIsFinal
<1>1. BudgetInv /\ [BudgetNext]_budgetVars
        => [\A o \in Operations : Done(reservation[o]) => reservation'[o] = reservation[o]]_budgetVars
  <2> SUFFICES ASSUME BudgetInv, BudgetNext, NEW o \in Operations, Done(reservation[o])
               PROVE  reservation'[o] = reservation[o]
      BY DEF BudgetInv
  <2>1. reservation \in [Operations -> Reservation]
      BY DEF BudgetInv, BudgetTypeOK
  <2> QED BY <2>1 DEF BudgetNext, EnsureAccount, Reserve, SettleMeasured, SettleUnknown, Release, Done
<1> QED BY <1>1, BudgetInvInit, BudgetInvStep, PTL DEF BudgetSpec, DoneIsFinal

-----------------------------------------------------------------------------
(* The books.                                                               *)

(* A reservation that was made names an account whose whole chain is open:  *)
(* an account keeps the chain it had when it was first charged.             *)
MadeOnOpenAccounts ==
    \A o \in Operations : reservation[o].state # "none" =>
        reservation[o].budget \in Accounts /\ Chain(reservation[o].budget) \subseteq open

BooksBalance ==
    \A a \in Accounts : IsFiniteSet(SpentOnBehalfOf(a)) /\ spent[a] = Cardinality(SpentOnBehalfOf(a))

BooksInv == BudgetInv /\ MadeOnOpenAccounts /\ BooksBalance

(* The operations a is charged for, and what each of them costs; the tokens *)
(* of the operations S, where each costs what f says.                       *)
OpsOn(a) == {o \in Operations : reservation[o].state # "none" /\ a \in Chain(reservation[o].budget)}
Cost == [o \in Operations |-> Charge(reservation[o])]
TokensIn(S, f) == UNION {{o} \X (1 .. f[o]) : o \in S}

LEMMA SpentIsTokens == \A a : SpentOnBehalfOf(a) = TokensIn(OpsOn(a), Cost)
  BY DEF SpentOnBehalfOf, TokensOf, TokensIn, OpsOn, Cost

(* An operation more, or less: its tokens are those of no other.            *)
LEMMA OneMore ==
    ASSUME NEW S, NEW f, NEW o \in S, f[o] \in Nat, IsFiniteSet(TokensIn(S \ {o}, f))
    PROVE  /\ IsFiniteSet(TokensIn(S, f))
           /\ Cardinality(TokensIn(S, f)) = Cardinality(TokensIn(S \ {o}, f)) + f[o]
<1> DEFINE R == TokensIn(S \ {o}, f)
           T == {o} \X (1 .. f[o])
<1>1. TokensIn(S, f) = R \cup T
  BY DEF TokensIn
<1>2. R \cap T = {}
  BY DEF TokensIn
<1>4. IsFiniteSet(1 .. f[o]) /\ Cardinality(1 .. f[o]) = f[o]
  <2> DEFINE n == f[o]
  <2>1. n \in Nat
    OBVIOUS
  <2> HIDE DEF n
  <2>2. IsFiniteSet(1 .. n) /\ Cardinality(1 .. n) = IF 1 > n THEN 0 ELSE (n - 1) + 1
    <3>1. 1 \in Int /\ n \in Int
      BY <2>1
    <3> QED BY ONLY <3>1, FS_Interval
  <2>3. Cardinality(1 .. n) = n
    BY ONLY <2>1, <2>2
  <2> QED BY <2>2, <2>3 DEF n
<1>5. IsFiniteSet({o}) /\ Cardinality({o}) = 1
  BY FS_Singleton
<1>6. IsFiniteSet(T) /\ Cardinality(T) = Cardinality({o}) * Cardinality(1 .. f[o])
  BY <1>4, <1>5, FS_Product
<1> HIDE DEF R, T
<1>7. IsFiniteSet(R) /\ Cardinality(R) \in Nat
  BY FS_CardinalityType DEF R
<1>8. IsFiniteSet(R \cup T) /\ Cardinality(R \cup T) = Cardinality(R) + Cardinality(T) - Cardinality(R \cap T)
  BY <1>6, <1>7, FS_Union
<1>9. Cardinality(R \cap T) = 0
  BY <1>2, FS_EmptySet
<1>10. Cardinality(T) = f[o]
  BY <1>4, <1>5, <1>6
<1> QED BY <1>1, <1>7, <1>8, <1>9, <1>10 DEF R

(* One row is made or settled, and its account's chain charged with the     *)
(* difference.                                                              *)
LEMMA RowIsCharged ==
    ASSUME BudgetTypeOK, BudgetTypeOK', MadeOnOpenAccounts, BooksBalance, NEW o \in Operations, NEW b \in Accounts, NEW delta \in Int,
           UNCHANGED <<open, parent>>, \A x \in Operations : x # o => reservation'[x] = reservation[x],
           reservation[o].state # "none" => reservation[o].budget = b,
           reservation'[o].state # "none", reservation'[o].budget = b, Chain(b) \subseteq open,
           Charge(reservation'[o]) = Charge(reservation[o]) + delta,
           \A a \in Accounts : spent'[a] = IF a \in Chain(b) THEN spent[a] + delta ELSE spent[a]
    PROVE  MadeOnOpenAccounts' /\ BooksBalance'
<1>1. \A c : Chain(c)' = Chain(c)
  BY DEF Chain
<1>2. MadeOnOpenAccounts'
  BY <1>1 DEF MadeOnOpenAccounts
<1>3. ASSUME NEW a \in Accounts
      PROVE  IsFiniteSet(SpentOnBehalfOf(a)') /\ spent'[a] = Cardinality(SpentOnBehalfOf(a)')
  <2> DEFINE S == OpsOn(a)
             N == OpsOn(a)'
             f == Cost
             g == Cost'
             R == TokensIn(S \ {o}, f)
  <2>1. f \in [Operations -> Nat] /\ g \in [Operations -> Nat] /\ g[o] = f[o] + delta /\ \A x \in Operations : x # o => g[x] = f[x]
    <3>1. f \in [Operations -> Nat] /\ g \in [Operations -> Nat]
      BY DEF BudgetTypeOK, Cost, Charge, Reservation
    <3>2. \A x \in Operations : f[x] = Charge(reservation[x]) /\ g[x] = Charge(reservation'[x])
      BY DEF Cost, Charge
    <3> QED BY <3>1, <3>2
  <2>2. /\ SpentOnBehalfOf(a) = TokensIn(S, f) /\ IsFiniteSet(TokensIn(S, f)) /\ spent[a] = Cardinality(TokensIn(S, f))
        /\ SpentOnBehalfOf(a)' = TokensIn(N, g)
    BY SpentIsTokens DEF BooksBalance, SpentOnBehalfOf, TokensOf, TokensIn, OpsOn, Cost
  <2>3. N \ {o} = S \ {o} /\ (a \in Chain(b) => o \in N) /\ (a \notin Chain(b) => o \notin N /\ o \notin S)
    BY <1>1 DEF OpsOn
  <2>4. o \notin S => a \notin Chain(b) \/ f[o] = 0
    BY DEF OpsOn, Cost, Charge
  <2>5. S \subseteq Operations
    BY DEF OpsOn
  <2>6. spent'[a] = IF a \in Chain(b) THEN spent[a] + delta ELSE spent[a]
    OBVIOUS
  <2> HIDE DEF S, N, f, g
  <2>7. TokensIn(N \ {o}, g) = R
    BY <2>1, <2>3, <2>5 DEF TokensIn
  <2>8. IsFiniteSet(R)
    <3>1. R \subseteq TokensIn(S, f)
      BY DEF TokensIn
    <3> QED BY <2>2, <3>1, FS_Subset
  <2>9. Cardinality(R) \in Nat
    BY <2>8, FS_CardinalityType
  <2> HIDE DEF R
  <2>10. CASE a \in Chain(b)
    <3>1. IsFiniteSet(TokensIn(N, g)) /\ Cardinality(TokensIn(N, g)) = Cardinality(R) + g[o]
      BY <2>1, <2>3, <2>7, <2>8, <2>10, OneMore
    <3>2. Cardinality(TokensIn(S, f)) = Cardinality(R) + f[o]
      <4>1. CASE o \in S
        BY <2>1, <2>8, <4>1, OneMore DEF R
      <4>2. CASE o \notin S
        <5>1. S \ {o} = S /\ f[o] = 0
          BY <2>4, <2>10, <4>2
        <5>2. R = TokensIn(S, f)
          BY <5>1 DEF R
        <5> QED BY <2>9, <5>1, <5>2
      <4> QED BY <4>1, <4>2
    <3> QED BY <2>1, <2>2, <2>6, <2>9, <2>10, <3>1, <3>2
  <2>11. CASE a \notin Chain(b)
    <3>1. N \ {o} = N /\ S \ {o} = S
      BY <2>3, <2>11
    <3> QED BY <2>2, <2>6, <2>7, <2>11, <3>1 DEF R
  <2> QED BY <2>10, <2>11
<1> QED BY <1>2, <1>3 DEF BooksBalance

(* A new account changes the chain of none that was charged.                *)
LEMMA ChainStays ==
    ASSUME NEW a \in Accounts, NEW b \in Accounts, a \notin Chain(b), \A x \in Accounts : x # a => parent'[x] = parent[x],
           parent \in [Accounts -> Accounts \cup {NoAccount}]
    PROVE  Chain(b)' = Chain(b)
<1>1. b \in Chain(b) /\ \A x \in Chain(b) : parent[x] # NoAccount => parent[x] \in Chain(b)
  BY DEF Chain
<1>2. Chain(b)' \subseteq Chain(b)
  <2>1. Chain(b) \in SUBSET Accounts /\ \A x \in Chain(b) : parent'[x] # NoAccount => parent'[x] \in Chain(b)
    BY <1>1 DEF Chain
  <2> DEFINE C == Chain(b)
  <2> HIDE DEF C
  <2>2. C \in SUBSET Accounts /\ b \in C /\ \A x \in C : parent'[x] # NoAccount => parent'[x] \in C
    BY <1>1, <2>1 DEF C
  <2>3. Chain(b)' \subseteq C
    BY <2>2 DEF Chain
  <2> QED BY <2>3 DEF C
<1>3. Chain(b) \subseteq Chain(b)'
  <2> DEFINE D == Chain(b)'
  <2>1. D \in SUBSET Accounts /\ b \in D /\ \A x \in D : parent'[x] # NoAccount => parent'[x] \in D
    BY DEF Chain
  <2>2. \A x \in D : parent[x] # NoAccount => parent[x] \in D
    BY <1>2, <2>1
  <2> HIDE DEF D
  <2>3. Chain(b) \subseteq D
    BY <2>1, <2>2 DEF Chain
  <2> QED BY <2>3 DEF D
<1> QED BY <1>2, <1>3

LEMMA BooksInvInit == BudgetInit => BooksInv
<1> SUFFICES ASSUME BudgetInit PROVE BooksInv
  OBVIOUS
<1>1. MadeOnOpenAccounts
  BY DEF BudgetInit, MadeOnOpenAccounts, NoReservation
<1>2. \A a \in Accounts : SpentOnBehalfOf(a) = {} /\ spent[a] = 0
  BY DEF BudgetInit, SpentOnBehalfOf, NoReservation
<1>3. BooksBalance
  BY <1>2, FS_EmptySet DEF BooksBalance
<1> QED BY <1>1, <1>3, BudgetInvInit DEF BooksInv

LEMMA BooksInvStep == BooksInv /\ [BudgetNext]_budgetVars => BooksInv'
<1> SUFFICES ASSUME BooksInv, [BudgetNext]_budgetVars PROVE MadeOnOpenAccounts' /\ BooksBalance'
  BY BudgetInvStep DEF BooksInv
<1>0. BudgetTypeOK /\ MadeOnOpenAccounts /\ BooksBalance /\ BudgetTypeOK' /\ BudgetInv
  BY BudgetInvStep DEF BooksInv, BudgetInv
<1>1. ASSUME NEW a \in Accounts, NEW p \in Accounts \cup {NoAccount}, NEW max \in Tokens, EnsureAccount(a, p, max)
      PROVE  MadeOnOpenAccounts' /\ BooksBalance'
  <2>1. a \notin open /\ open' = open \cup {a} /\ parent' = [parent EXCEPT ![a] = p] /\ UNCHANGED <<spent, reservation>>
    BY <1>1 DEF EnsureAccount
  <2>2. parent \in [Accounts -> Accounts \cup {NoAccount}] /\ \A x \in Accounts : x # a => parent'[x] = parent[x]
    BY <1>0, <2>1 DEF BudgetTypeOK
  <2>3. ASSUME NEW o \in Operations, reservation[o].state # "none"
        PROVE  Chain(reservation[o].budget)' = Chain(reservation[o].budget)
    <3>1. reservation[o].budget \in Accounts /\ a \notin Chain(reservation[o].budget)
      BY <1>0, <2>1, <2>3 DEF MadeOnOpenAccounts
    <3> DEFINE b == reservation[o].budget
    <3>2. b \in Accounts /\ a \notin Chain(b) /\ b' = b
      BY <2>1, <3>1
    <3> HIDE DEF b
    <3>3. \A c : c \in Accounts /\ a \notin Chain(c) => Chain(c)' = Chain(c)
      BY <2>2, ChainStays
    <3>4. Chain(b)' = Chain(b)
      BY <3>2, <3>3 DEF Chain
    <3> QED BY <3>4 DEF b
  <2>4. MadeOnOpenAccounts'
    BY <1>0, <2>1, <2>3 DEF MadeOnOpenAccounts
  <2>5. ASSUME NEW c \in Accounts
        PROVE  SpentOnBehalfOf(c)' = SpentOnBehalfOf(c)
    <3>1. OpsOn(c)' = OpsOn(c) /\ Cost' = Cost
      BY <2>1, <2>3 DEF OpsOn, Cost
    <3>2. SpentOnBehalfOf(c)' = TokensIn(OpsOn(c)', Cost')
      BY DEF SpentOnBehalfOf, TokensOf, TokensIn, OpsOn, Cost
    <3> QED BY <3>1, <3>2, SpentIsTokens
  <2> QED BY <1>0, <2>1, <2>4, <2>5 DEF BooksBalance
<1>2. ASSUME NEW o \in Operations, NEW b \in Accounts, NEW bound \in Tokens, Reserve(o, b, bound)
      PROVE  MadeOnOpenAccounts' /\ BooksBalance'
  <2>1. /\ reservation[o].state = "none" /\ UNCHANGED <<open, parent>> /\ Chain(b) \subseteq open
        /\ reservation' = [reservation EXCEPT ![o] = [state |-> "reserved", budget |-> b, bound |-> bound, used |-> 0]]
        /\ \A a \in Accounts : spent'[a] = IF a \in Chain(b) THEN spent[a] + bound ELSE spent[a]
    BY <1>2 DEF Reserve, ChargeChain, CanCharge
  <2>2. reservation'[o] = [state |-> "reserved", budget |-> b, bound |-> bound, used |-> 0] /\ \A x \in Operations : x # o => reservation'[x] = reservation[x]
    BY <1>0, <2>1 DEF BudgetTypeOK
  <2>3. Charge(reservation[o]) = 0 /\ Charge(reservation'[o]) = bound /\ bound \in Int
    BY <2>1, <2>2, BudgetAssumption DEF Charge
  <2>4. Charge(reservation'[o]) = Charge(reservation[o]) + bound
    BY <2>3
  <2> QED BY <1>0, <2>1, <2>2, <2>3, <2>4, RowIsCharged
<1>3. ASSUME NEW o \in Operations, NEW delta \in Int, reservation[o].state = "reserved",
             UNCHANGED <<open, parent>>, \A x \in Operations : x # o => reservation'[x] = reservation[x],
             reservation'[o].state # "none", reservation'[o].budget = reservation[o].budget,
             Charge(reservation'[o]) = reservation[o].bound + delta,
             ChargeChain(reservation[o].budget, delta) \/ (UNCHANGED spent /\ delta = 0)
      PROVE  MadeOnOpenAccounts' /\ BooksBalance'
  <2>1. reservation[o].budget \in Accounts /\ Chain(reservation[o].budget) \subseteq open /\ Charge(reservation[o]) = reservation[o].bound
    BY <1>0, <1>3 DEF MadeOnOpenAccounts, Charge
  <2>2. \A a \in Accounts : spent'[a] = IF a \in Chain(reservation[o].budget) THEN spent[a] + delta ELSE spent[a]
    <3>1. CASE ChargeChain(reservation[o].budget, delta)
      BY <3>1 DEF ChargeChain
    <3>2. CASE UNCHANGED spent /\ delta = 0
      BY <1>0, <3>2 DEF BudgetTypeOK
    <3> QED BY <1>3, <3>1, <3>2
  <2> DEFINE b == reservation[o].budget
  <2>3. /\ b \in Accounts /\ Chain(b) \subseteq open /\ reservation[o].budget = b /\ reservation'[o].budget = b
        /\ \A a \in Accounts : spent'[a] = IF a \in Chain(b) THEN spent[a] + delta ELSE spent[a]
    BY <1>3, <2>1, <2>2
  <2>4. Charge(reservation'[o]) = Charge(reservation[o]) + delta
    BY <1>3, <2>1
  <2> HIDE DEF b
  <2> QED BY <1>0, <1>3, <2>3, <2>4, RowIsCharged
<1>4. ASSUME NEW o \in Operations, NEW used \in Tokens, SettleMeasured(o, used)
      PROVE  MadeOnOpenAccounts' /\ BooksBalance'
  <2>0. reservation[o] \in Reservation /\ used \in Nat /\ reservation[o].bound \in Nat
    BY <1>0, BudgetAssumption DEF BudgetTypeOK, Reservation
  <2>1. /\ reservation[o].state = "reserved" /\ UNCHANGED <<open, parent>>
        /\ reservation' = [reservation EXCEPT ![o] = [reservation[o] EXCEPT !.state = "settled", !.used = used]]
    BY <1>4 DEF SettleMeasured
  <2>2. /\ reservation'[o] = [reservation[o] EXCEPT !.state = "settled", !.used = used]
        /\ \A x \in Operations : x # o => reservation'[x] = reservation[x]
    BY <1>0, <2>1 DEF BudgetTypeOK
  <2>3. reservation'[o].state = "settled" /\ reservation'[o].used = used /\ reservation'[o].budget = reservation[o].budget
    BY <2>0, <2>2 DEF Reservation
  <2>4. Charge(reservation'[o]) = reservation[o].bound + (used - reservation[o].bound)
    <3>1. Charge(reservation'[o]) = used
      BY <2>3 DEF Charge
    <3> QED BY <2>0, <3>1
  <2>5. ChargeChain(reservation[o].budget, used - reservation[o].bound) \/ (UNCHANGED spent /\ used - reservation[o].bound = 0)
    BY <1>4, <2>0 DEF SettleMeasured
  <2>6. used - reservation[o].bound \in Int
    BY <2>0
  <2> QED BY <1>3, <2>1, <2>2, <2>3, <2>4, <2>5, <2>6
<1>5. ASSUME NEW o \in Operations, SettleUnknown(o) \/ Release(o)
      PROVE  MadeOnOpenAccounts' /\ BooksBalance'
  <2>0. reservation[o] \in Reservation /\ reservation[o].bound \in Nat
    BY <1>0 DEF BudgetTypeOK, Reservation
  <2>1. PICK s \in {"unknown", "released"} :
          /\ reservation[o].state = "reserved" /\ UNCHANGED <<open, parent>>
          /\ reservation' = [reservation EXCEPT ![o] = [reservation[o] EXCEPT !.state = s]]
          /\ IF s = "unknown" THEN UNCHANGED spent ELSE ChargeChain(reservation[o].budget, -reservation[o].bound)
    BY <1>5 DEF SettleUnknown, Release
  <2>2. /\ reservation'[o] = [reservation[o] EXCEPT !.state = s]
        /\ \A x \in Operations : x # o => reservation'[x] = reservation[x]
    BY <1>0, <2>1 DEF BudgetTypeOK
  <2>3. reservation'[o].state = s /\ reservation'[o].bound = reservation[o].bound /\ reservation'[o].budget = reservation[o].budget
    BY <2>0, <2>2 DEF Reservation
  <2>4. CASE s = "unknown"
    <3>1. Charge(reservation'[o]) = reservation[o].bound + 0
      BY <2>0, <2>3, <2>4 DEF Charge
    <3> QED BY <1>3, <2>1, <2>2, <2>3, <2>4, <3>1
  <2>5. CASE s = "released"
    <3>1. Charge(reservation'[o]) = reservation[o].bound + (-reservation[o].bound) /\ -reservation[o].bound \in Int
      BY <2>0, <2>3, <2>5 DEF Charge
    <3>2. ChargeChain(reservation[o].budget, -reservation[o].bound)
      BY <2>1, <2>5
    <3> QED BY <1>3, <2>1, <2>2, <2>3, <2>5, <3>1, <3>2
  <2> QED BY <2>4, <2>5
<1>6. CASE UNCHANGED budgetVars
  BY <1>0, <1>6 DEF budgetVars, MadeOnOpenAccounts, BooksBalance, SpentOnBehalfOf, TokensOf, Chain
<1> QED BY <1>1, <1>2, <1>4, <1>5, <1>6 DEF BudgetNext

(* The books of any forest of accounts balance: through every order of      *)
(* reserve, settle and release, what an account shows as spent is what the  *)
(* reservations made on it and below it cost together (charge_chain).       *)
THEOREM BooksAreBalanced == BudgetSpec => []LedgerBalanced
<1>1. BooksInv => LedgerBalanced
  BY DEF BooksInv, BooksBalance, LedgerBalanced
<1> QED BY <1>1, BooksInvInit, BooksInvStep, PTL DEF BudgetSpec

-----------------------------------------------------------------------------
(* The calls of run_inner.                                                  *)

Attempts == 1..MaxAttempts
Calls == 1..MaxCalls

StepRecord == [state: {"frozen", "streamed", "failed", "canceled"}, command: Calls]
CommandRecord == [state: {"claimed", "completed", "pending", "canceled"}, owner: Hosts, attempts: Attempts]

(* A call between its command and its return; one that has a step; one that *)
(* has sent nothing for it yet; one whose last attempt is over.             *)
Commanded == {"enqueued", "ready", "reserved", "waiting", "answered", "measured", "error", "backoff",
              "failing", "unstepped", "unfinished"}
Stepped == Commanded \ {"enqueued"}

(* The rows and the calls, and the numbers a call carries.                  *)
RowsInv ==
    /\ generation \in Hosts
    /\ run \in [state: {"none", "running", "paused"} \cup Terminal, owner: 0..MaxHosts, revision: Nat]
    /\ steps \in Seq(StepRecord) /\ commands \in Seq(CommandRecord)
    /\ worker \in [Hosts -> WorkerRecord]
    /\ dispatched \in SUBSET Operations

(* A new command is due to the host that owns the store, and every step has *)
(* a command of its own: neither runs out.                                  *)
CountsInv ==
    /\ Len(steps) <= Len(commands) /\ Len(commands) <= MaxCalls
    /\ At(generation, "claimed") => Len(commands) < MaxCalls
    /\ At(generation, "enqueued") => Len(steps) < Len(commands)

(* What a call carries is of its command, its step and its attempts.        *)
CarriedInv ==
    \A h \in Hosts :
        /\ worker[h].pc \in Commanded => worker[h].command \in 1..Len(commands)
        /\ worker[h].pc \in Stepped =>
              /\ worker[h].step \in 1..Len(steps)
              /\ worker[h].attempt \in Attempts /\ worker[h].reserved \in Attempts
        /\ At(h, "backoff") => worker[h].attempt < MaxAttempts

CallInv == BudgetInv /\ RowsInv /\ CountsInv /\ CarriedInv

LEMMA CallInvInit == StepInit => CallInv
<1> SUFFICES ASSUME StepInit PROVE CallInv
  OBVIOUS
<1> USE StepAssumption, BudgetAssumption
<1>1. BudgetInv
  BY DEF StepInit, AccountOpened, BudgetInv, BudgetTypeOK, WithinLimit, UnopenedIsUncharged, ReservedOnAccount,
     NoReservation, Reservation, ReservationState
<1>2. /\ generation = 1 /\ steps = <<>> /\ commands = <<>> /\ dispatched = {}
      /\ run = [state |-> "none", owner |-> 0, revision |-> 0]
      /\ worker = [h \in Hosts |-> IF h = 1 THEN [NoWorker EXCEPT !.pc = "idle"] ELSE NoWorker]
  BY DEF StepInit, RunInit
<1>3. NoWorker \in WorkerRecord /\ [NoWorker EXCEPT !.pc = "idle"] \in WorkerRecord
  <2>1. 0 \in 0..MaxCalls /\ 0 \in 0..MaxAttempts /\ 0 \in Nat
    OBVIOUS
  <2> QED
    BY ONLY <2>1 DEF NoWorker, WorkerRecord
<1>4. RowsInv
  BY <1>2, <1>3 DEF RowsInv, Hosts
<1>5. \A h \in Hosts : worker[h].pc \in {"idle", "off"}
  BY <1>2 DEF NoWorker
<1>6. 1 \in Hosts
  BY DEF Hosts
<1>7. CountsInv
  <2>1. Len(steps) = 0 /\ Len(commands) = 0 /\ MaxCalls \in Nat
    BY <1>2
  <2>2. ~At(generation, "claimed") /\ ~At(generation, "enqueued")
    BY <1>2, <1>5, <1>6 DEF At
  <2> QED
    BY ONLY <2>1, <2>2 DEF CountsInv
<1>8. CarriedInv
  BY <1>5 DEF CarriedInv, At, Commanded, Stepped
<1> QED
  BY <1>1, <1>4, <1>7, <1>8 DEF CallInv

-----------------------------------------------------------------------------
(* The i-th step's n-th attempt is an operation of the ledger.              *)
LEMMA HeldIsOperation ==
    ASSUME CallInv, NEW h \in Hosts, worker[h].pc \in Stepped
    PROVE  /\ Held(h) \in Operations /\ <<worker[h].step, worker[h].attempt>> \in Operations
           /\ worker[h].step \in 1..Len(steps) /\ worker[h].step \in Calls
BY StepAssumption DEF CallInv, CarriedInv, CountsInv, RowsInv, Held, Attempts, Calls

(* Every step of a run is a transaction of the ledger, or none.             *)
LEMMA LedgerStep == ASSUME CallInv, [StepNext]_stepVars PROVE [BudgetNext]_budgetVars
<1> USE StepAssumption
<1>1. CASE UNCHANGED stepVars
  BY <1>1 DEF stepVars
<1>2. CASE Takeover
  BY <1>2 DEF Takeover
<1>3. ASSUME NEW o \in Elsewhere, OtherRun(o) PROVE BudgetNext
  <2>1. o \in Operations /\ RunBudget \in Accounts /\ Bound \in Tokens /\ Usages \subseteq Tokens
    OBVIOUS
  <2> QED
    BY <1>3, <2>1 DEF OtherRun, BudgetNext
<1>4. ASSUME NEW h \in Hosts, ClaimRun(h) \/ CallStep(h) \/ EndTurn(h) PROVE [BudgetNext]_budgetVars
  <2>1. CASE FreezeStep(h)
    <3>1. Reserve(<<Len(steps) + 1, 1>>, RunBudget, Bound) /\ generation = h /\ At(h, "enqueued")
      BY <2>1 DEF FreezeStep, Fenced
    <3>2. <<Len(steps) + 1, 1>> \in Operations
      BY <3>1 DEF CallInv, CountsInv, RowsInv
    <3> QED
      BY <3>1, <3>2 DEF BudgetNext
  <2>2. CASE CancelBeforeDispatch(h)
    <3>1. Held(h) \in Operations
      BY <2>2, HeldIsOperation DEF CancelBeforeDispatch, At, Stepped, Commanded
    <3> QED
      BY <2>2, <3>1 DEF CancelBeforeDispatch, BudgetNext
  <2>3. CASE ReserveRetry(h)
    <3>1. <<worker[h].step, worker[h].attempt>> \in Operations
      BY <2>3, HeldIsOperation DEF ReserveRetry, At, Stepped, Commanded
    <3> QED
      BY <2>3, <3>1 DEF ReserveRetry, BudgetNext
  <2>4. CASE SettleAttempt(h)
    <3>1. Held(h) \in Operations /\ Usages \subseteq Tokens
      BY <2>4, HeldIsOperation DEF SettleAttempt, At, Stepped, Commanded
    <3> QED
      BY <2>4, <3>1 DEF SettleAttempt, BudgetNext
  <2>5. CASE SettleFailed(h)
    <3>1. Held(h) \in Operations
      BY <2>5, HeldIsOperation DEF SettleFailed, At, Stepped, Commanded
    <3> QED
      BY <2>5, <3>1 DEF SettleFailed, BudgetNext
  <2>6. CASE \/ ClaimRun(h) \/ EndTurn(h) \/ EnqueueCommand(h) \/ Dispatch(h) \/ ProviderReturns(h)
             \/ CancelDuringBackoff(h) \/ BumpAttempt(h) \/ CompleteStep(h) \/ FailCommand(h) \/ FailStep(h)
             \/ FailRun(h) \/ CallAborts(h)
    BY <2>6 DEF ClaimRun, EndTurn, EnqueueCommand, Dispatch, ProviderReturns, CancelDuringBackoff, BumpAttempt,
       CompleteStep, FailCommand, FailStep, FailRun, CallAborts
  <2> QED
    BY <1>4, <2>1, <2>2, <2>3, <2>4, <2>5, <2>6 DEF CallStep
<1> QED
  BY <1>1, <1>2, <1>3, <1>4 DEF StepNext

-----------------------------------------------------------------------------
(* A call that moves on, and adds neither a command nor a step.             *)
LEMMA PlainMove ==
    ASSUME CallInv, NEW h \in Hosts, NEW w \in WorkerRecord, worker' = [worker EXCEPT ![h] = w],
           w.pc \notin {"claimed", "enqueued"},
           w.pc \in Stepped => /\ w.command \in 1..Len(commands) /\ w.step \in 1..Len(steps)
                               /\ w.attempt \in Attempts /\ w.reserved \in Attempts,
           w.pc = "backoff" => w.attempt < MaxAttempts,
           generation' = generation, Len(steps') = Len(steps), Len(commands') = Len(commands)
    PROVE  worker' \in [Hosts -> WorkerRecord] /\ CountsInv' /\ CarriedInv'
<1>1. worker \in [Hosts -> WorkerRecord] /\ generation \in Hosts
  BY DEF CallInv, RowsInv
<1>2. /\ worker' \in [Hosts -> WorkerRecord] /\ worker'[h] = w
      /\ \A g \in Hosts : g # h => worker'[g] = worker[g]
  BY <1>1
<1>3. CountsInv'
  BY <1>1, <1>2 DEF CallInv, CountsInv, At
<1>4. CarriedInv'
  BY <1>1, <1>2 DEF CallInv, CarriedInv, At, Commanded, Stepped
<1> QED
  BY <1>2, <1>3, <1>4

(* A row that is written stays a row, and the only one that changes.        *)
LEMMA StepRowWritten ==
    ASSUME steps \in Seq(StepRecord), NEW i, NEW v \in {"frozen", "streamed", "failed", "canceled"},
           steps' = [steps EXCEPT ![i].state = v]
    PROVE  /\ steps' \in Seq(StepRecord) /\ Len(steps') = Len(steps)
           /\ \A j \in 1..Len(steps) :
                /\ steps'[j].command = steps[j].command
                /\ steps'[j].state = IF j = i THEN v ELSE steps[j].state
<1>1. \A j \in 1..Len(steps) : steps[j] \in StepRecord /\ DOMAIN steps = 1..Len(steps) /\ Len(steps) \in Nat
  OBVIOUS
<1>2. \A j \in 1..Len(steps) : steps'[j] = IF j = i THEN [steps[j] EXCEPT !.state = v] ELSE steps[j]
  BY <1>1
<1>3. \A j \in 1..Len(steps) :
         /\ steps'[j] \in StepRecord /\ steps'[j].command = steps[j].command
         /\ steps'[j].state = IF j = i THEN v ELSE steps[j].state
  BY <1>1, <1>2 DEF StepRecord
<1>4. steps' \in [1..Len(steps) -> StepRecord]
  <2>1. steps \in [1..Len(steps) -> StepRecord]
    OBVIOUS
  <2>2. DOMAIN steps' = 1..Len(steps) /\ steps' = [j \in 1..Len(steps) |-> steps'[j]]
    BY <2>1
  <2> QED
    BY <1>3, <2>2
<1> QED
  BY <1>1, <1>3, <1>4

LEMMA CommandRowWritten ==
    ASSUME commands \in Seq(CommandRecord), NEW i, NEW v \in {"claimed", "completed", "pending", "canceled"},
           NEW n \in Attempts,
           \/ commands' = [commands EXCEPT ![i].state = v]
           \/ commands' = [commands EXCEPT ![i].attempts = n, ![i].state = v]
    PROVE  /\ commands' \in Seq(CommandRecord) /\ Len(commands') = Len(commands)
           /\ \A j \in 1..Len(commands) : commands'[j].state = IF j = i THEN v ELSE commands[j].state
<1>1. \A j \in 1..Len(commands) :
         commands[j] \in CommandRecord /\ DOMAIN commands = 1..Len(commands) /\ Len(commands) \in Nat
  OBVIOUS
<1>2. \A j \in 1..Len(commands) :
         \/ j = i /\ (\/ commands'[j] = [commands[j] EXCEPT !.state = v]
                      \/ commands'[j] = [commands[j] EXCEPT !.attempts = n, !.state = v])
         \/ j # i /\ commands'[j] = commands[j]
  BY <1>1
<1>3. \A j \in 1..Len(commands) :
         commands'[j] \in CommandRecord /\ commands'[j].state = IF j = i THEN v ELSE commands[j].state
  BY <1>1, <1>2 DEF CommandRecord
<1> QED
  BY <1>1, <1>3

(* The call moves on with what it carries.                                  *)
OnlyPc(v, w, pc) ==
    /\ w \in WorkerRecord /\ w.pc = pc /\ w.command = v.command /\ w.step = v.step
    /\ w.attempt = v.attempt /\ w.reserved = v.reserved

(* The rows, the counts and what a call carries, through every step.        *)
LEMMA CallInvStep == ASSUME CallInv, [StepNext]_stepVars PROVE CallInv'
<1> USE StepAssumption
<1>1. BudgetInv'
  BY LedgerStep, BudgetInvStep DEF CallInv
<1>2. /\ RowsInv /\ CountsInv /\ CarriedInv
      /\ worker \in [Hosts -> WorkerRecord] /\ steps \in Seq(StepRecord) /\ commands \in Seq(CommandRecord)
      /\ generation \in Hosts /\ dispatched \in SUBSET Operations
      /\ Len(steps) \in Nat /\ Len(commands) \in Nat
  BY DEF CallInv, RowsInv
<1>3. CASE UNCHANGED stepVars
  BY <1>1, <1>2, <1>3 DEF stepVars, runVars, CallInv, RowsInv, CountsInv, CarriedInv, At
<1>4. CASE Takeover
  <2>1. generation + 1 \in Hosts
    BY <1>2, <1>4 DEF Takeover, Hosts
  <2>2. /\ worker' = [worker EXCEPT ![generation + 1] = [worker[generation + 1] EXCEPT !.pc = "idle"]]
        /\ generation' = generation + 1 /\ UNCHANGED <<run, steps, commands, dispatched>>
    BY <1>4 DEF Takeover, runVars
  <2>3. [worker[generation + 1] EXCEPT !.pc = "idle"] \in WorkerRecord
    <3>1. worker[generation + 1] \in WorkerRecord
      BY <1>2, <2>1
    <3> QED
      BY ONLY <3>1 DEF WorkerRecord
  <2>4. worker'[generation + 1].pc = "idle" /\ \A g \in Hosts : g # generation + 1 => worker'[g] = worker[g]
    BY <1>2, <2>1, <2>2, <2>3 DEF WorkerRecord
  <2>5. RowsInv'
    BY <1>2, <2>1, <2>2, <2>3 DEF RowsInv
  <2>6. CountsInv'
    BY <1>2, <2>2, <2>4 DEF CountsInv, At
  <2>7. CarriedInv'
    BY <1>2, <2>2, <2>4 DEF CarriedInv, At, Commanded, Stepped
  <2> QED
    BY <1>1, <2>5, <2>6, <2>7 DEF CallInv
<1>5. ASSUME NEW o \in Elsewhere, OtherRun(o) PROVE CallInv'
  BY <1>1, <1>2, <1>5 DEF OtherRun, runVars, CallInv, RowsInv, CountsInv, CarriedInv, At
<1>6. ASSUME NEW h \in Hosts, ClaimRun(h) \/ CallStep(h) \/ EndTurn(h) PROVE CallInv'
  <2>0. worker[h] \in WorkerRecord /\ h \in 0..MaxHosts
    BY <1>2 DEF Hosts
  <2>1. CASE ClaimRun(h)
    <3> DEFINE w == [NoWorker EXCEPT !.pc = "claimed", !.revision = run'.revision]
    <3>1. run' \in [state: {"none", "running", "paused"} \cup Terminal, owner: 0..MaxHosts, revision: Nat]
      BY <1>2, <2>0, <2>1 DEF ClaimRun, RowsInv
    <3>2. w \in WorkerRecord /\ w.pc = "claimed"
      <4>1. 0 \in 0..MaxCalls /\ 0 \in 0..MaxAttempts /\ run'.revision \in Nat
        BY <3>1
      <4> QED
        BY ONLY <4>1 DEF NoWorker, WorkerRecord
    <3>3. worker' = [worker EXCEPT ![h] = w] /\ Len(commands) < MaxCalls /\ generation = h
      BY <2>1 DEF ClaimRun, Fenced
    <3>4. UNCHANGED <<generation, steps, commands, dispatched>>
      BY <2>1 DEF ClaimRun
    <3> HIDE DEF w
    <3>5. worker'[h].pc = "claimed" /\ \A g \in Hosts : g # h => worker'[g] = worker[g]
      BY <1>2, <3>2, <3>3
    <3>6. RowsInv'
      BY <1>2, <3>1, <3>2, <3>3, <3>4 DEF RowsInv
    <3>7. CountsInv' /\ CarriedInv'
      BY <1>2, <3>3, <3>4, <3>5 DEF CountsInv, CarriedInv, At, Commanded, Stepped
    <3> QED
      BY <1>1, <3>6, <3>7 DEF CallInv
  <2>2. CASE EnqueueCommand(h)
    <3> DEFINE w == [worker[h] EXCEPT !.pc = "enqueued", !.command = Len(commands) + 1]
               c == [state |-> "claimed", owner |-> h, attempts |-> 1]
    <3>1. /\ worker' = [worker EXCEPT ![h] = w] /\ generation = h /\ commands' = Append(commands, c)
          /\ UNCHANGED <<generation, run, steps, dispatched>> /\ At(generation, "claimed")
      BY <1>2, <2>2 DEF EnqueueCommand, Fenced
    <3>2. Len(commands) < MaxCalls /\ c \in CommandRecord
      BY <1>2, <3>1 DEF CountsInv, CommandRecord, Attempts
    <3>3. w \in WorkerRecord /\ w.pc = "enqueued" /\ w.command = Len(commands) + 1
      <4>1. Len(commands) + 1 \in 0..MaxCalls
        BY <1>2, <3>2
      <4> QED
        BY ONLY <2>0, <4>1 DEF WorkerRecord
    <3> HIDE DEF w, c
    <3>4. commands' \in Seq(CommandRecord) /\ Len(commands') = Len(commands) + 1
      BY <1>2, <3>1, <3>2
    <3>5. worker'[h] = w /\ \A g \in Hosts : g # h => worker'[g] = worker[g]
      BY <1>2, <3>1
    <3>6. RowsInv'
      BY <1>2, <3>1, <3>3, <3>4 DEF RowsInv
    <3>7. CountsInv' /\ CarriedInv'
      BY <1>2, <3>1, <3>2, <3>3, <3>4, <3>5 DEF CountsInv, CarriedInv, At, Commanded, Stepped
    <3> QED
      BY <1>1, <3>6, <3>7 DEF CallInv
  <2>3. CASE FreezeStep(h)
    <3> DEFINE w == [worker[h] EXCEPT !.pc = "ready", !.revision = @ + 1, !.step = Len(steps) + 1,
                                      !.attempt = 1, !.reserved = 1]
               s == [state |-> "frozen", command |-> worker[h].command]
    <3>1. /\ worker' = [worker EXCEPT ![h] = w] /\ generation = h /\ steps' = Append(steps, s)
          /\ run' = [run EXCEPT !.revision = @ + 1]
          /\ UNCHANGED <<generation, commands, dispatched>> /\ At(h, "enqueued")
      BY <1>2, <2>3 DEF FreezeStep, Fenced
    <3>2. Len(steps) < Len(commands) /\ Len(commands) <= MaxCalls /\ worker[h].command \in 1..Len(commands)
      BY <1>2, <3>1 DEF CountsInv, CarriedInv, At, Commanded
    <3>3. s \in StepRecord
      BY <1>2, <3>2 DEF StepRecord, Calls
    <3>4. /\ w \in WorkerRecord /\ w.pc = "ready" /\ w.step = Len(steps) + 1 /\ w.attempt = 1 /\ w.reserved = 1
          /\ w.command = worker[h].command
      <4>1. Len(steps) + 1 \in 0..MaxCalls /\ 1 \in 0..MaxAttempts
        BY <1>2, <3>2
      <4>2. worker[h].revision + 1 \in Nat
        BY ONLY <2>0 DEF WorkerRecord
      <4> QED
        BY ONLY <2>0, <4>1, <4>2 DEF WorkerRecord
    <3>5. run' \in [state: {"none", "running", "paused"} \cup Terminal, owner: 0..MaxHosts, revision: Nat]
      <4>1. run \in [state: {"none", "running", "paused"} \cup Terminal, owner: 0..MaxHosts, revision: Nat]
        BY <1>2 DEF RowsInv
      <4> QED
        BY ONLY <3>1, <4>1
    <3> HIDE DEF w, s
    <3>6. steps' \in Seq(StepRecord) /\ Len(steps') = Len(steps) + 1
      BY <1>2, <3>1, <3>3
    <3>7. worker'[h] = w /\ \A g \in Hosts : g # h => worker'[g] = worker[g]
      BY <1>2, <3>1
    <3>8. RowsInv'
      BY <1>2, <3>1, <3>4, <3>5, <3>6 DEF RowsInv
    <3>9. CountsInv'
      BY <1>2, <3>1, <3>2, <3>4, <3>6, <3>7 DEF CountsInv, At
    <3>10. CarriedInv'
      BY <1>2, <3>1, <3>2, <3>4, <3>6, <3>7 DEF CarriedInv, At, Commanded, Stepped, Attempts
    <3> QED
      BY <1>1, <3>8, <3>9, <3>10 DEF CallInv
  <2>4. CASE CancelBeforeDispatch(h) \/ ReserveRetry(h) \/ SettleAttempt(h) \/ SettleFailed(h)
    <3>1. /\ UNCHANGED <<generation, run, steps, commands, dispatched>>
          /\ At(h, "ready") \/ At(h, "answered") \/ At(h, "error")
      BY <2>4 DEF CancelBeforeDispatch, ReserveRetry, SettleAttempt, SettleFailed, runVars
    <3>2. PICK w :
             /\ worker' = [worker EXCEPT ![h] = w] /\ w \in WorkerRecord
             /\ w.command = worker[h].command /\ w.step = worker[h].step /\ w.attempt = worker[h].attempt
             /\ w.reserved = worker[h].reserved \/ w.reserved = worker[h].attempt
             /\ w.pc \in {"failing", "reserved", "measured", "backoff"}
             /\ w.pc = "backoff" => worker[h].attempt < MaxAttempts
      <4>1. CASE CancelBeforeDispatch(h)
        <5> DEFINE w == [worker[h] EXCEPT !.pc = "failing", !.error = "canceled"]
        <5>1. worker' = [worker EXCEPT ![h] = w]
          BY <4>1 DEF CancelBeforeDispatch
        <5>2. w \in WorkerRecord /\ w.pc = "failing"
          BY ONLY <2>0 DEF WorkerRecord
        <5> QED
          BY <2>0, <5>1, <5>2 DEF WorkerRecord
      <4>2. CASE ReserveRetry(h)
        <5> DEFINE w == [worker[h] EXCEPT !.pc = "reserved", !.reserved = worker[h].attempt]
        <5>1. worker' = [worker EXCEPT ![h] = w]
          BY <4>2 DEF ReserveRetry
        <5>2. w \in WorkerRecord /\ w.pc = "reserved" /\ w.reserved = worker[h].attempt
          BY ONLY <2>0 DEF WorkerRecord
        <5> QED
          BY <2>0, <5>1, <5>2 DEF WorkerRecord
      <4>3. CASE SettleAttempt(h)
        <5> DEFINE w == [worker[h] EXCEPT !.pc = "measured"]
        <5>1. worker' = [worker EXCEPT ![h] = w]
          BY <4>3 DEF SettleAttempt, Go
        <5>2. w \in WorkerRecord /\ w.pc = "measured"
          BY ONLY <2>0 DEF WorkerRecord
        <5> QED
          BY <2>0, <5>1, <5>2 DEF WorkerRecord
      <4>4. CASE SettleFailed(h)
        <5>1. PICK pc \in {"failing", "backoff"} :
                 /\ worker' = [worker EXCEPT ![h] = [worker[h] EXCEPT !.pc = pc]]
                 /\ pc = "backoff" => worker[h].attempt < MaxAttempts
          BY <4>4 DEF SettleFailed, Go
        <5> DEFINE w == [worker[h] EXCEPT !.pc = pc]
        <5>2. w \in WorkerRecord /\ w.pc = pc
          BY ONLY <2>0 DEF WorkerRecord
        <5> QED
          BY <2>0, <5>1, <5>2 DEF WorkerRecord
      <4> QED
        BY <2>4, <4>1, <4>2, <4>3, <4>4
    <3>3. /\ worker[h].command \in 1..Len(commands) /\ worker[h].step \in 1..Len(steps)
          /\ worker[h].attempt \in Attempts /\ worker[h].reserved \in Attempts
      BY <1>2, <3>1 DEF CarriedInv, At, Commanded, Stepped
    <3>4. worker' \in [Hosts -> WorkerRecord] /\ CountsInv' /\ CarriedInv'
      BY <3>1, <3>2, <3>3, PlainMove
    <3> QED
      BY <1>1, <1>2, <3>1, <3>4 DEF CallInv, RowsInv
  <2>5. CASE Dispatch(h) \/ ProviderReturns(h) \/ CancelDuringBackoff(h)
    <3>1. /\ UNCHANGED <<generation, run, steps, commands>> /\ worker[h].pc \in Stepped
          /\ worker[h].pc \in Stepped
      BY <2>5 DEF Dispatch, ProviderReturns, CancelDuringBackoff, runVars, At, Stepped, Commanded
    <3>2. PICK w :
             /\ worker' = [worker EXCEPT ![h] = w] /\ w \in WorkerRecord
             /\ w.command = worker[h].command /\ w.step = worker[h].step
             /\ w.attempt = worker[h].attempt /\ w.reserved = worker[h].reserved
             /\ w.pc \in {"waiting", "answered", "error", "failing"}
      <4>1. ASSUME NEW pc \in {"waiting", "answered"}, worker' = [worker EXCEPT ![h] = [worker[h] EXCEPT !.pc = pc]]
            PROVE  \E w : worker' = [worker EXCEPT ![h] = w] /\ OnlyPc(worker[h], w, pc)
        <5>1. OnlyPc(worker[h], [worker[h] EXCEPT !.pc = pc], pc)
          BY ONLY <2>0 DEF WorkerRecord, OnlyPc
        <5> QED
          BY <4>1, <5>1
      <4>2. ASSUME NEW pc \in {"error", "failing"}, NEW error \in {"canceled", "retryable", "permanent"},
                   worker' = [worker EXCEPT ![h] = [worker[h] EXCEPT !.pc = pc, !.error = error]]
            PROVE  \E w : worker' = [worker EXCEPT ![h] = w] /\ OnlyPc(worker[h], w, pc)
        <5>1. OnlyPc(worker[h], [worker[h] EXCEPT !.pc = pc, !.error = error], pc)
          BY ONLY <2>0 DEF WorkerRecord, OnlyPc
        <5> QED
          BY <4>2, <5>1
      <4>3. \/ \E pc \in {"waiting", "answered"} : worker' = [worker EXCEPT ![h] = [worker[h] EXCEPT !.pc = pc]]
            \/ \E pc \in {"error", "failing"}, error \in {"canceled", "retryable", "permanent"} :
                  worker' = [worker EXCEPT ![h] = [worker[h] EXCEPT !.pc = pc, !.error = error]]
        BY ZenonT(60), <2>5 DEF Dispatch, ProviderReturns, CancelDuringBackoff, Go
      <4> QED
        BY <4>1, <4>2, <4>3 DEF OnlyPc
    <3>4. /\ worker[h].command \in 1..Len(commands) /\ worker[h].step \in 1..Len(steps)
          /\ worker[h].attempt \in Attempts /\ worker[h].reserved \in Attempts
      BY <1>2, <3>1 DEF CarriedInv, Stepped
    <3>5. worker' \in [Hosts -> WorkerRecord] /\ CountsInv' /\ CarriedInv'
      BY <3>1, <3>2, <3>4, PlainMove
    <3>6. dispatched' \in SUBSET Operations
      BY <1>2, <2>5, <3>1, HeldIsOperation DEF Dispatch, ProviderReturns, CancelDuringBackoff
    <3> QED
      BY <1>1, <1>2, <3>1, <3>5, <3>6 DEF CallInv, RowsInv
  <2>6. CASE BumpAttempt(h)
    <3> DEFINE w == [worker[h] EXCEPT !.pc = "ready", !.attempt = @ + 1]
               n == commands[worker[h].command].attempts + 1
    <3>1. /\ UNCHANGED <<generation, run, steps, dispatched>> /\ worker[h].pc = "backoff"
          /\ worker' = [worker EXCEPT ![h] = w] /\ commands[worker[h].command].attempts < MaxAttempts
          /\ commands' = [commands EXCEPT ![worker[h].command].attempts = @ + 1,
                                          ![worker[h].command].state = "claimed"]
      BY <2>6 DEF BumpAttempt, At
    <3>2. /\ worker[h].command \in 1..Len(commands) /\ worker[h].step \in 1..Len(steps)
          /\ worker[h].attempt \in Attempts /\ worker[h].reserved \in Attempts /\ worker[h].attempt < MaxAttempts
      BY <1>2, <3>1 DEF CarriedInv, At, Commanded, Stepped
    <3>3. commands[worker[h].command] \in CommandRecord /\ n \in Attempts
      <4>1. commands[worker[h].command] \in CommandRecord
        BY <1>2, <3>2
      <4> QED
        BY <3>1, <4>1 DEF CommandRecord, Attempts
    <3>4. /\ w \in WorkerRecord /\ w.pc = "ready" /\ w.command = worker[h].command /\ w.step = worker[h].step
          /\ w.attempt = worker[h].attempt + 1 /\ w.reserved = worker[h].reserved
      <4>1. worker[h].attempt + 1 \in 0..MaxAttempts
        BY <3>2 DEF Attempts
      <4> QED
        BY ONLY <2>0, <4>1 DEF WorkerRecord
    <3>5. w.attempt \in Attempts
      BY <3>2, <3>4 DEF Attempts
    <3>6. commands' \in Seq(CommandRecord) /\ Len(commands') = Len(commands)
      <4>1. commands' = [commands EXCEPT ![worker[h].command].attempts = n, ![worker[h].command].state = "claimed"]
        BY <3>1
      <4> HIDE DEF n
      <4> QED
        BY <1>2, <3>3, <4>1, CommandRowWritten
    <3>7. worker' \in [Hosts -> WorkerRecord] /\ CountsInv' /\ CarriedInv'
      <4> HIDE DEF w
      <4> QED
        BY <3>1, <3>2, <3>4, <3>5, <3>6, PlainMove
    <3> QED
      BY <1>1, <1>2, <3>1, <3>6, <3>7 DEF CallInv, RowsInv
  <2>7. CASE CompleteStep(h) \/ FailCommand(h) \/ FailStep(h)
    <3>1. UNCHANGED <<generation, run, dispatched>> /\ worker[h].pc \in Stepped
      BY <2>7 DEF CompleteStep, FailCommand, FailStep, At, Stepped, Commanded
    <3>2. /\ steps' = steps \/ \E v \in {"streamed", "failed", "canceled"} :
                                  steps' = [steps EXCEPT ![worker[h].step].state = v]
          /\ commands' = commands \/ \E v \in {"completed", "pending", "canceled"} :
                                        commands' = [commands EXCEPT ![worker[h].command].state = v]
      BY <2>7 DEF CompleteStep, FailCommand, FailStep, Failure
    <3>3. steps' \in Seq(StepRecord) /\ Len(steps') = Len(steps)
      BY <1>2, <3>2, StepRowWritten
    <3>4. commands' \in Seq(CommandRecord) /\ Len(commands') = Len(commands)
      <4>1. 1 \in Attempts
        BY DEF Attempts
      <4> QED
        BY <1>2, <3>2, <4>1, CommandRowWritten
    <3>5. PICK w :
             /\ worker' = [worker EXCEPT ![h] = w] /\ w \in WorkerRecord
             /\ w.command = worker[h].command /\ w.step = worker[h].step
             /\ w.attempt = worker[h].attempt /\ w.reserved = worker[h].reserved
             /\ w.pc \in {"idle", "unstepped", "unfinished"}
      <4>1. ASSUME NEW pc \in {"unstepped", "unfinished"},
                   worker' = [worker EXCEPT ![h] = [worker[h] EXCEPT !.pc = pc]]
            PROVE  \E w : worker' = [worker EXCEPT ![h] = w] /\ OnlyPc(worker[h], w, pc)
        <5>1. OnlyPc(worker[h], [worker[h] EXCEPT !.pc = pc], pc)
          BY ONLY <2>0 DEF WorkerRecord, OnlyPc
        <5> QED
          BY <4>1, <5>1
      <4>2. ASSUME worker' = [worker EXCEPT ![h] = [worker[h] EXCEPT !.pc = "idle", !.result = TRUE]]
            PROVE  \E w : worker' = [worker EXCEPT ![h] = w] /\ OnlyPc(worker[h], w, "idle")
        <5>1. OnlyPc(worker[h], [worker[h] EXCEPT !.pc = "idle", !.result = TRUE], "idle")
          BY ONLY <2>0 DEF WorkerRecord, OnlyPc
        <5> QED
          BY <4>2, <5>1
      <4>3. \/ \E pc \in {"unstepped", "unfinished"} : worker' = [worker EXCEPT ![h] = [worker[h] EXCEPT !.pc = pc]]
            \/ worker' = [worker EXCEPT ![h] = [worker[h] EXCEPT !.pc = "idle", !.result = TRUE]]
        BY <2>7 DEF CompleteStep, FailCommand, FailStep, Go
      <4> QED
        BY <4>1, <4>2, <4>3 DEF OnlyPc
    <3>7. /\ worker[h].command \in 1..Len(commands) /\ worker[h].step \in 1..Len(steps)
          /\ worker[h].attempt \in Attempts /\ worker[h].reserved \in Attempts
      BY <1>2, <3>1 DEF CarriedInv, Stepped
    <3>8. worker' \in [Hosts -> WorkerRecord] /\ CountsInv' /\ CarriedInv'
      BY <3>1, <3>3, <3>4, <3>5, <3>7, PlainMove
    <3> QED
      BY <1>1, <1>2, <3>1, <3>3, <3>4, <3>8 DEF CallInv, RowsInv
  <2>8. CASE FailRun(h) \/ EndTurn(h) \/ CallAborts(h)
    <3>1. UNCHANGED <<generation, steps, commands, dispatched>>
      BY <2>8 DEF FailRun, EndTurn, CallAborts, runVars
    <3>2. run' \in [state: {"none", "running", "paused"} \cup Terminal, owner: 0..MaxHosts, revision: Nat]
      <4>1. run \in [state: {"none", "running", "paused"} \cup Terminal, owner: 0..MaxHosts, revision: Nat]
        BY <1>2 DEF RowsInv
      <4>2. run' = run \/ \E v \in Terminal \cup {"paused"} : run' = [run EXCEPT !.state = v, !.revision = @ + 1]
        BY <2>8 DEF FailRun, EndTurn, CallAborts, FinishRun, Failure, runVars, Terminal
      <4>3. run.revision + 1 \in Nat
        BY ONLY <4>1
      <4> QED
        BY ONLY <4>1, <4>2, <4>3 DEF Terminal
    <3>3. PICK w \in WorkerRecord : worker' = [worker EXCEPT ![h] = w] /\ w.pc \in {"idle", "gone"}
      <4>1. \A pc \in {"idle", "gone"} :
               [NoWorker EXCEPT !.pc = pc] \in WorkerRecord /\ [NoWorker EXCEPT !.pc = pc].pc = pc
        <5>1. 0 \in 0..MaxCalls /\ 0 \in 0..MaxAttempts /\ 0 \in Nat
          OBVIOUS
        <5> QED
          BY ONLY <5>1 DEF NoWorker, WorkerRecord
      <4>2. /\ [worker[h] EXCEPT !.result = FALSE] \in WorkerRecord
            /\ [worker[h] EXCEPT !.result = FALSE].pc = worker[h].pc
        BY ONLY <2>0 DEF WorkerRecord
      <4>3. \/ worker' = [worker EXCEPT ![h] = [NoWorker EXCEPT !.pc = "idle"]]
            \/ worker' = [worker EXCEPT ![h] = [NoWorker EXCEPT !.pc = "gone"]]
            \/ worker[h].pc = "idle" /\ worker' = [worker EXCEPT ![h] = [worker[h] EXCEPT !.result = FALSE]]
        BY <2>8 DEF FailRun, EndTurn, CallAborts, At
      <4> QED
        BY <4>1, <4>2, <4>3
    <3>4. worker' \in [Hosts -> WorkerRecord] /\ CountsInv' /\ CarriedInv'
      BY <3>1, <3>3, PlainMove DEF Stepped, Commanded
    <3> QED
      BY <1>1, <1>2, <3>1, <3>2, <3>4 DEF CallInv, RowsInv
  <2> QED
    BY <1>6, <2>1, <2>2, <2>3, <2>4, <2>5, <2>6, <2>7, <2>8 DEF CallStep
<1> QED
  BY <1>3, <1>4, <1>5, <1>6 DEF StepNext

-----------------------------------------------------------------------------
(* Whose a command and a step are: every step is of one command and every   *)
(* call has a command of its own, whose step stays frozen until the call    *)
(* records its outcome.                                                     *)
OwnInv ==
    /\ \A i, j \in 1..Len(steps) : steps[i].command = steps[j].command => i = j
    /\ \A i \in 1..Len(steps) : steps[i].command \in 1..Len(commands)
    /\ \A g, h \in Hosts :
          worker[g].pc \in Commanded /\ worker[h].pc \in Commanded /\ worker[g].command = worker[h].command => g = h
    /\ \A h \in Hosts :
          /\ At(h, "enqueued") => \A i \in 1..Len(steps) : steps[i].command # worker[h].command
          /\ worker[h].pc \in Stepped =>
                /\ steps[worker[h].step].command = worker[h].command
                /\ ~At(h, "unfinished") => steps[worker[h].step].state = "frozen"

(* A call that has not sent its attempt yet, and one that waits for it.     *)
Fresh(h) == At(h, "ready") /\ worker[h].attempt = 1
Charged(h) == Fresh(h) \/ worker[h].pc \in {"reserved", "waiting", "answered", "error"}

(* What a call has reserved: the attempt it is about to send or has sent    *)
(* and not settled, and nothing else.                                       *)
AttemptOf(h) ==
    worker[h].pc \in Stepped =>
        /\ Charged(h) => worker[h].reserved = worker[h].attempt
        /\ Fresh(h) \/ At(h, "reserved") => reservation[Held(h)].state = "reserved"
        /\ Fresh(h) => Held(h) \notin dispatched
        /\ \A n \in Attempts :
              reservation[<<worker[h].step, n>>].state = "reserved" => Charged(h) /\ n = worker[h].reserved

AttemptInv ==
    /\ \A i \in Calls, n \in Attempts : i > Len(steps) => reservation[<<i, n>>].state = "none"
    /\ \A h \in Hosts : AttemptOf(h)

RecordsInv == DispatchIsCharged /\ RecordedStepIsSettled /\ CommandAndStepAgree

FullInv == CallInv /\ OwnInv /\ AttemptInv /\ RecordsInv

LEMMA FullInvInit == StepInit => FullInv
<1> SUFFICES ASSUME StepInit PROVE FullInv
  OBVIOUS
<1>1. /\ steps = <<>> /\ commands = <<>> /\ dispatched = {}
      /\ worker = [h \in Hosts |-> IF h = 1 THEN [NoWorker EXCEPT !.pc = "idle"] ELSE NoWorker]
      /\ reservation = [o \in Operations |-> NoReservation]
  BY DEF StepInit, RunInit, AccountOpened
<1>2. \A h \in Hosts : worker[h].pc \in {"idle", "off"}
  BY <1>1 DEF NoWorker
<1>3. Len(steps) = 0 /\ Len(commands) = 0 /\ DOMAIN steps = {} /\ DOMAIN commands = {}
  BY <1>1
<1>4. OwnInv
  BY <1>2, <1>3 DEF OwnInv, Commanded, Stepped, At
<1>5. AttemptInv
  <2>1. \A i \in Calls, n \in Attempts : <<i, n>> \in Operations
    BY StepAssumption DEF Calls, Attempts
  <2>2. \A i \in Calls, n \in Attempts : reservation[<<i, n>>].state = "none"
    BY <1>1, <2>1 DEF NoReservation
  <2> QED
    BY <1>2, <2>2 DEF AttemptInv, AttemptOf, Commanded, Stepped
<1>6. RecordsInv
  BY <1>1, <1>3 DEF RecordsInv, DispatchIsCharged, RecordedStepIsSettled, CommandAndStepAgree
<1> QED
  BY <1>4, <1>5, <1>6, CallInvInit DEF FullInv

(* The steps of a call between its first and its last, which change no step *)
(* and add no command.                                                      *)
Quietly(h) ==
    \/ CancelBeforeDispatch(h) \/ ReserveRetry(h) \/ Dispatch(h) \/ ProviderReturns(h) \/ SettleAttempt(h)
    \/ SettleFailed(h) \/ CancelDuringBackoff(h) \/ BumpAttempt(h) \/ FailCommand(h)

LEMMA QuietMoves ==
    ASSUME CallInv, NEW h \in Hosts, Quietly(h)
    PROVE  /\ \A g \in Hosts : g # h => worker'[g] = worker[g]
           /\ {worker[h].pc, worker'[h].pc} \subseteq Stepped \ {"unfinished"}
           /\ worker'[h].command = worker[h].command /\ worker'[h].step = worker[h].step
           /\ steps' = steps /\ Len(commands') = Len(commands)
<1>1. worker \in [Hosts -> WorkerRecord] /\ worker[h] \in WorkerRecord /\ commands \in Seq(CommandRecord)
  BY DEF CallInv, RowsInv
<1>2. CASE CancelBeforeDispatch(h) \/ ReserveRetry(h)
  BY <1>1, <1>2 DEF CancelBeforeDispatch, ReserveRetry, runVars, At, Stepped, Commanded, WorkerRecord
<1>3. CASE Dispatch(h) \/ ProviderReturns(h)
  BY <1>1, <1>3 DEF Dispatch, ProviderReturns, runVars, At, Go, Stepped, Commanded, WorkerRecord
<1>4. CASE SettleAttempt(h) \/ SettleFailed(h) \/ CancelDuringBackoff(h)
  BY <1>1, <1>4 DEF SettleAttempt, SettleFailed, CancelDuringBackoff, runVars, At, Go, Stepped, Commanded, WorkerRecord
<1>5. CASE BumpAttempt(h) \/ FailCommand(h)
  <2>1. Len(commands') = Len(commands)
    BY <1>1, <1>5 DEF BumpAttempt, FailCommand
  <2> QED
    BY <1>1, <1>5, <2>1 DEF BumpAttempt, FailCommand, At, Go, Stepped, Commanded, WorkerRecord
<1> QED
  BY <1>2, <1>3, <1>4, <1>5 DEF Quietly

(* The steps after which a host is in no call that has a command.           *)
Returns(h) == ClaimRun(h) \/ FailRun(h) \/ EndTurn(h) \/ CallAborts(h)

LEMMA ReturnMoves ==
    ASSUME CallInv, NEW h \in Hosts, Returns(h)
    PROVE  /\ \A g \in Hosts : g # h => worker'[g] = worker[g]
           /\ worker'[h].pc \notin Commanded
           /\ UNCHANGED <<budgetVars, steps, commands, dispatched>>
<1>1. worker \in [Hosts -> WorkerRecord] /\ worker[h] \in WorkerRecord
  BY DEF CallInv, RowsInv
<1>2. UNCHANGED <<budgetVars, steps, commands, dispatched>>
  BY DEF Returns, ClaimRun, FailRun, EndTurn, CallAborts, runVars
<1>3. PICK w : worker' = [worker EXCEPT ![h] = w] /\ w.pc \notin Commanded
  <2>1. ASSUME NEW pc \in {"idle", "gone"}, worker' = [worker EXCEPT ![h] = [NoWorker EXCEPT !.pc = pc]]
        PROVE  \E w : worker' = [worker EXCEPT ![h] = w] /\ w.pc \notin Commanded
    <3>1. [NoWorker EXCEPT !.pc = pc].pc = pc
      BY DEF NoWorker
    <3> QED
      BY <2>1, <3>1 DEF Commanded
  <2>2. CASE ClaimRun(h)
    <3>1. [NoWorker EXCEPT !.pc = "claimed", !.revision = run'.revision].pc = "claimed"
      BY DEF NoWorker
    <3>2. worker' = [worker EXCEPT ![h] = [NoWorker EXCEPT !.pc = "claimed", !.revision = run'.revision]]
      BY <2>2 DEF ClaimRun
    <3> HIDE DEF NoWorker
    <3> QED
      BY <3>1, <3>2 DEF Commanded
  <2>3. CASE EndTurn(h)
    <3>1. [worker[h] EXCEPT !.result = FALSE].pc = worker[h].pc
      BY ONLY <1>1 DEF WorkerRecord
    <3>2. worker' = [worker EXCEPT ![h] = [worker[h] EXCEPT !.result = FALSE]] /\ worker[h].pc = "idle"
      BY <2>3 DEF EndTurn, At
    <3> QED
      BY <3>1, <3>2 DEF Commanded
  <2>4. CASE FailRun(h) \/ CallAborts(h)
    <3>1. \/ worker' = [worker EXCEPT ![h] = [NoWorker EXCEPT !.pc = "idle"]]
          \/ worker' = [worker EXCEPT ![h] = [NoWorker EXCEPT !.pc = "gone"]]
      BY <2>4 DEF FailRun, CallAborts
    <3> QED
      BY <2>1, <3>1
  <2> QED
    BY <2>2, <2>3, <2>4 DEF Returns
<1> QED
  BY <1>1, <1>2, <1>3

LEMMA OwnStep == ASSUME CallInv, OwnInv, [StepNext]_stepVars PROVE OwnInv'
<1>1. /\ CallInv' /\ worker \in [Hosts -> WorkerRecord] /\ steps \in Seq(StepRecord)
      /\ commands \in Seq(CommandRecord) /\ Len(steps) \in Nat /\ Len(commands) \in Nat
      /\ CarriedInv /\ CountsInv
  BY CallInvStep DEF CallInv, RowsInv
<1>2. CASE UNCHANGED stepVars
  BY <1>2 DEF stepVars, runVars, OwnInv, At
<1>3. CASE Takeover
  <2>1. UNCHANGED <<steps, commands>> /\ \A g \in Hosts : worker'[g] = worker[g] \/ worker'[g].pc = "idle"
    BY <1>1, <1>3 DEF Takeover, runVars, WorkerRecord
  <2> QED
    BY <2>1 DEF OwnInv, At, Commanded, Stepped
<1>4. ASSUME NEW o \in Elsewhere, OtherRun(o) PROVE OwnInv'
  BY <1>4 DEF OtherRun, runVars, OwnInv, At
<1>5. ASSUME NEW h \in Hosts, ClaimRun(h) \/ CallStep(h) \/ EndTurn(h) PROVE OwnInv'
  <2>1. CASE Quietly(h)
    BY <2>1, QuietMoves DEF OwnInv, At, Commanded, Stepped
  <2>2. CASE Returns(h)
    BY <2>2, ReturnMoves DEF OwnInv, At, Commanded, Stepped
  <2>3. CASE EnqueueCommand(h)
    <3>1. /\ \A g \in Hosts : g # h => worker'[g] = worker[g]
          /\ worker'[h].pc = "enqueued" /\ worker'[h].command = Len(commands) + 1
          /\ steps' = steps /\ Len(commands') = Len(commands) + 1
      BY <1>1, <2>3 DEF EnqueueCommand, WorkerRecord
    <3>2. \A g \in Hosts : worker[g].pc \in Commanded => worker[g].command \in 1..Len(commands)
      BY <1>1 DEF CarriedInv
    <3> QED
      BY SMTT(60), <1>1, <3>1, <3>2 DEF OwnInv, At, Commanded, Stepped
  <2>4. CASE FreezeStep(h)
    <3> DEFINE s == [state |-> "frozen", command |-> worker[h].command]
    <3>1. /\ \A g \in Hosts : g # h => worker'[g] = worker[g]
          /\ worker'[h].pc = "ready" /\ worker'[h].command = worker[h].command
          /\ worker'[h].step = Len(steps) + 1 /\ At(h, "enqueued")
          /\ steps' = Append(steps, s) /\ commands' = commands
      BY <1>1, <2>4 DEF FreezeStep, WorkerRecord
    <3>2. /\ Len(steps') = Len(steps) + 1 /\ steps'[Len(steps) + 1] = s
          /\ \A i \in 1..Len(steps) : steps'[i] = steps[i]
      BY <1>1, <3>1
    <3>3. worker[h].command \in 1..Len(commands) /\ worker[h].pc \in Commanded
      BY <1>1, <3>1 DEF CarriedInv, At, Commanded
    <3>4. \A g \in Hosts : worker[g].pc \in Stepped => worker[g].step \in 1..Len(steps)
      BY <1>1 DEF CarriedInv
    <3>5. s.command = worker[h].command /\ s.state = "frozen"
      OBVIOUS
    <3> HIDE DEF s
    <3>6. \A i, j \in 1..Len(steps') : steps'[i].command = steps'[j].command => i = j
      BY <1>1, <3>1, <3>2, <3>5 DEF OwnInv
    <3>7. \A i \in 1..Len(steps') : steps'[i].command \in 1..Len(commands)
      BY <1>1, <3>2, <3>3, <3>5 DEF OwnInv
    <3>8. \A g, k \in Hosts :
             worker'[g].pc \in Commanded /\ worker'[k].pc \in Commanded /\ worker'[g].command = worker'[k].command => g = k
      BY <3>1, <3>3 DEF OwnInv
    <3>9. \A g \in Hosts : worker'[g].pc = "enqueued" => \A i \in 1..Len(steps') : steps'[i].command # worker'[g].command
      BY <1>1, <3>1, <3>2, <3>3, <3>5 DEF OwnInv, At, Commanded
    <3>10. \A g \in Hosts : worker'[g].pc \in Stepped =>
              /\ steps'[worker'[g].step].command = worker'[g].command
              /\ worker'[g].pc # "unfinished" => steps'[worker'[g].step].state = "frozen"
      BY <1>1, <3>1, <3>2, <3>4, <3>5 DEF OwnInv, At
    <3> QED
      BY <3>1, <3>6, <3>7, <3>8, <3>9, <3>10 DEF OwnInv, At
  <2>5. CASE CompleteStep(h) \/ FailStep(h)
    <3>1. /\ \A g \in Hosts : g # h => worker'[g] = worker[g]
          /\ worker[h].pc \in Stepped
          /\ worker'[h].pc \in {"idle", "unfinished"} /\ worker'[h].command = worker[h].command
          /\ worker'[h].step = worker[h].step
      BY <1>1, <2>5 DEF CompleteStep, FailStep, Go, At, Stepped, Commanded, WorkerRecord
    <3>2. \/ steps' = steps
          \/ \E v \in {"streamed", "failed", "canceled"} : steps' = [steps EXCEPT ![worker[h].step].state = v]
      BY <2>5 DEF CompleteStep, FailStep, Failure
    <3>3. /\ Len(steps') = Len(steps)
          /\ \A j \in 1..Len(steps) :
                steps'[j].command = steps[j].command /\ (j # worker[h].step => steps'[j].state = steps[j].state)
      BY <1>1, <3>2, StepRowWritten
    <3>4. Len(commands') = Len(commands)
      BY <1>1, <2>5 DEF CompleteStep, FailStep
    <3>5. \A g \in Hosts : worker[g].pc \in Stepped =>
             worker[g].step \in 1..Len(steps) /\ (g # h => worker[g].step # worker[h].step)
      BY <1>1, <3>1 DEF OwnInv, CarriedInv, Stepped
    <3> QED
      BY SMTT(60), <3>1, <3>3, <3>4, <3>5 DEF OwnInv, At, Commanded, Stepped
  <2> QED
    BY <1>5, <2>1, <2>2, <2>3, <2>4, <2>5 DEF CallStep, Quietly, Returns
<1> QED
  BY <1>2, <1>3, <1>4, <1>5 DEF StepNext

-----------------------------------------------------------------------------
(* A transaction of the ledger writes the row of its own operation and no   *)
(* other.                                                                   *)
RowMoved(o, from, to) ==
    /\ reservation[o].state = from /\ reservation'[o].state = to
    /\ \A p \in Operations : p # o => reservation'[p] = reservation[p]

LEMMA LedgerRow ==
    ASSUME BudgetTypeOK, NEW o \in Operations
    PROVE  /\ \A b, bound : Reserve(o, b, bound) => RowMoved(o, "none", "reserved")
           /\ \A used : SettleMeasured(o, used) => RowMoved(o, "reserved", "settled")
           /\ SettleUnknown(o) => RowMoved(o, "reserved", "unknown")
           /\ Release(o) => RowMoved(o, "reserved", "released")
<1>1. reservation \in [Operations -> Reservation]
  BY DEF BudgetTypeOK
<1>2. reservation[o] \in Reservation
  BY <1>1
<1>3. ASSUME NEW r, reservation' = [reservation EXCEPT ![o] = r]
      PROVE  reservation'[o] = r /\ \A p \in Operations : p # o => reservation'[p] = reservation[p]
  BY <1>1, <1>3
<1>4. ASSUME NEW b, NEW bound, Reserve(o, b, bound) PROVE RowMoved(o, "none", "reserved")
  BY <1>3, <1>4 DEF Reserve, RowMoved
<1>5. ASSUME NEW used, SettleMeasured(o, used) PROVE RowMoved(o, "reserved", "settled")
  <2>1. [reservation[o] EXCEPT !.state = "settled", !.used = used].state = "settled"
    BY <1>2 DEF Reservation
  <2>2. reservation' = [reservation EXCEPT ![o] = [reservation[o] EXCEPT !.state = "settled", !.used = used]]
    BY <1>5 DEF SettleMeasured
  <2> QED
    BY <1>3, <1>5, <2>1, <2>2 DEF SettleMeasured, RowMoved
<1>6. ASSUME SettleUnknown(o) PROVE RowMoved(o, "reserved", "unknown")
  <2>1. [reservation[o] EXCEPT !.state = "unknown"].state = "unknown"
    BY <1>2 DEF Reservation
  <2> QED
    BY <1>3, <1>6, <2>1 DEF SettleUnknown, RowMoved
<1>7. ASSUME Release(o) PROVE RowMoved(o, "reserved", "released")
  <2>1. [reservation[o] EXCEPT !.state = "released"].state = "released"
    BY <1>2 DEF Reservation
  <2> QED
    BY <1>3, <1>7, <2>1 DEF Release, RowMoved
<1> QED
  BY <1>4, <1>5, <1>6, <1>7

(* Two calls with a step have two steps.                                    *)
LEMMA StepsDiffer ==
    ASSUME CallInv, OwnInv, NEW g \in Hosts, NEW h \in Hosts, g # h,
           worker[g].pc \in Stepped, worker[h].pc \in Stepped
    PROVE  worker[g].step # worker[h].step
BY DEF OwnInv, Stepped

(* A step of one call leaves the attempts of the others as they are.        *)
LEMMA OthersKept ==
    ASSUME CallInv, OwnInv, AttemptInv, NEW h \in Hosts, worker[h].pc \in Stepped,
           \A g \in Hosts : g # h => worker'[g] = worker[g],
           \A i \in Calls, n \in Attempts : i # worker[h].step => reservation'[<<i, n>>] = reservation[<<i, n>>],
           \A i, n : <<i, n>> \in dispatched' => <<i, n>> \in dispatched \/ i = worker[h].step,
           Len(steps') = Len(steps), AttemptOf(h)'
    PROVE  AttemptInv'
<1>1. worker[h].step \in 1..Len(steps) /\ Len(steps) \in Nat
  BY DEF CallInv, CarriedInv, RowsInv
<1>2. \A i \in Calls, n \in Attempts : i > Len(steps') => reservation'[<<i, n>>].state = "none"
  BY <1>1 DEF AttemptInv, Calls
<1>3. ASSUME NEW g \in Hosts, g # h PROVE AttemptOf(g)'
  <2>1. AttemptOf(g) /\ worker'[g] = worker[g]
    BY <1>3 DEF AttemptInv
  <2>2. CASE worker[g].pc \notin Stepped
    BY <2>1, <2>2 DEF AttemptOf
  <2>3. CASE worker[g].pc \in Stepped
    <3>1. worker[g].step # worker[h].step /\ worker[g].step \in Calls /\ worker[g].reserved \in Attempts
      BY <1>3, <2>3, StepsDiffer, HeldIsOperation DEF CallInv, CarriedInv
    <3>2. \A n \in Attempts : reservation'[<<worker[g].step, n>>] = reservation[<<worker[g].step, n>>]
      BY <3>1
    <3>3. Held(g)' = Held(g) /\ reservation'[Held(g)] = reservation[Held(g)]
      BY <2>1, <3>1, <3>2 DEF Held
    <3>4. Held(g) \notin dispatched => Held(g) \notin dispatched'
      BY <3>1 DEF Held
    <3> QED
      BY <2>1, <2>3, <3>2, <3>3, <3>4 DEF AttemptOf, Fresh, Charged, At
  <2> QED
    BY <2>2, <2>3
<1> QED
  BY <1>2, <1>3 DEF AttemptInv

(* A call whose attempt is over has nothing reserved.                       *)
LEMMA NothingReserved ==
    ASSUME AttemptInv, NEW h \in Hosts, worker[h].pc \in Stepped, ~Charged(h), NEW n \in Attempts
    PROVE  reservation[<<worker[h].step, n>>].state # "reserved"
BY DEF AttemptInv, AttemptOf

(* The steps of a call that has a step, and what they do to its attempts.   *)
LEMMA QuietAttempt ==
    ASSUME CallInv, OwnInv, AttemptInv, NEW h \in Hosts, Quietly(h)
    PROVE  AttemptInv'
<1>1. /\ \A g \in Hosts : g # h => worker'[g] = worker[g]
      /\ worker[h].pc \in Stepped /\ worker'[h].step = worker[h].step /\ steps' = steps
      /\ worker \in [Hosts -> WorkerRecord] /\ worker[h] \in WorkerRecord /\ BudgetTypeOK
  BY QuietMoves DEF CallInv, RowsInv, BudgetInv
<1>2. /\ Held(h) \in Operations /\ <<worker[h].step, worker[h].attempt>> \in Operations
      /\ worker[h].step \in Calls /\ worker[h].attempt \in Attempts /\ worker[h].reserved \in Attempts
  BY <1>1, HeldIsOperation DEF CallInv, CarriedInv
<1>3. AttemptOf(h) /\ \A i \in Calls, n \in Attempts : <<i, n>> \in Operations
  BY StepAssumption DEF AttemptInv, Calls, Attempts
<1>4. ASSUME NEW o \in Operations, NEW from, NEW to, RowMoved(o, from, to), o[1] = worker[h].step
      PROVE  \A i \in Calls, n \in Attempts : i # worker[h].step => reservation'[<<i, n>>] = reservation[<<i, n>>]
  BY <1>3, <1>4 DEF RowMoved
<1>5. ASSUME RowMoved(Held(h), "reserved", "settled") \/ RowMoved(Held(h), "reserved", "unknown")
             \/ RowMoved(Held(h), "reserved", "released")
      PROVE  \A n \in Attempts : reservation'[<<worker[h].step, n>>].state # "reserved"
  BY <1>1, <1>2, <1>3, <1>5 DEF RowMoved, AttemptOf, Held
<1>6. CASE CancelBeforeDispatch(h)
  <2>1. worker'[h].pc = "failing" /\ dispatched' = dispatched
    BY <1>1, <1>6 DEF CancelBeforeDispatch, WorkerRecord
  <2>2. \/ Done(reservation[Held(h)]) /\ reservation' = reservation
        \/ RowMoved(Held(h), "reserved", "released")
    BY <1>1, <1>2, <1>6, LedgerRow DEF CancelBeforeDispatch, budgetVars
  <2>3. \A n \in Attempts : reservation'[<<worker[h].step, n>>].state # "reserved"
    <3>1. CASE Done(reservation[Held(h)]) /\ reservation' = reservation
      BY <1>1, <1>3, <3>1 DEF AttemptOf, Done, Held
    <3> QED
      BY <1>5, <2>2, <3>1
  <2>4. AttemptOf(h)'
    BY <1>1, <2>1, <2>3 DEF AttemptOf, Fresh, Charged, At
  <2>5. \A i \in Calls, n \in Attempts : i # worker[h].step => reservation'[<<i, n>>] = reservation[<<i, n>>]
    BY <1>2, <1>4, <2>2 DEF Held
  <2> QED
    BY <1>1, <2>1, <2>4, <2>5, OthersKept
<1>7. CASE ReserveRetry(h)
  <2>1. /\ worker'[h].pc = "reserved" /\ worker'[h].attempt = worker[h].attempt
        /\ worker'[h].reserved = worker[h].attempt /\ dispatched' = dispatched
    BY <1>1, <1>7 DEF ReserveRetry, WorkerRecord
  <2>2. RowMoved(<<worker[h].step, worker[h].attempt>>, "none", "reserved")
    BY <1>1, <1>2, <1>7, LedgerRow DEF ReserveRetry
  <2>3. ~Charged(h)
    BY <1>2, <1>7 DEF ReserveRetry, Charged, Fresh, At, Attempts
  <2>4. \A n \in Attempts : reservation'[<<worker[h].step, n>>].state = "reserved" => n = worker[h].attempt
    BY <1>1, <1>2, <1>3, <2>2, <2>3, NothingReserved DEF RowMoved
  <2>5. AttemptOf(h)'
    BY <1>1, <2>1, <2>2, <2>4 DEF AttemptOf, Fresh, Charged, At, Held, RowMoved
  <2>6. \A i \in Calls, n \in Attempts : i # worker[h].step => reservation'[<<i, n>>] = reservation[<<i, n>>]
    BY <1>2, <1>4, <2>2
  <2> QED
    BY <1>1, <2>1, <2>5, <2>6, OthersKept
<1>8. CASE Dispatch(h)
  <2>1. /\ worker'[h].pc = "waiting" /\ worker'[h].attempt = worker[h].attempt
        /\ worker'[h].reserved = worker[h].reserved /\ reservation' = reservation
        /\ dispatched' = dispatched \cup {<<worker[h].step, worker[h].attempt>>}
    BY <1>1, <1>8 DEF Dispatch, Go, WorkerRecord, budgetVars
  <2>2. Charged(h)
    BY <1>8 DEF Dispatch, Charged, Fresh, At
  <2>3. AttemptOf(h)'
    BY <1>1, <1>3, <2>1, <2>2 DEF AttemptOf, Fresh, Charged, At
  <2> QED
    BY <1>1, <2>1, <2>3, OthersKept
<1>9. CASE ProviderReturns(h)
  <2>1. /\ worker[h].pc = "waiting" /\ worker'[h].pc \in {"answered", "error"}
        /\ worker'[h].attempt = worker[h].attempt /\ worker'[h].reserved = worker[h].reserved
        /\ reservation' = reservation /\ dispatched' = dispatched
    BY <1>1, <1>9 DEF ProviderReturns, Go, At, WorkerRecord, budgetVars
  <2>2. AttemptOf(h)'
    BY <1>1, <1>3, <2>1 DEF AttemptOf, Fresh, Charged, At
  <2> QED
    BY <1>1, <2>1, <2>2, OthersKept
<1>10. CASE SettleAttempt(h) \/ SettleFailed(h)
  <2>1. worker'[h].pc \in {"measured", "failing", "backoff"} /\ dispatched' = dispatched
    BY <1>1, <1>10 DEF SettleAttempt, SettleFailed, Go, WorkerRecord
  <2>2. RowMoved(Held(h), "reserved", "settled") \/ RowMoved(Held(h), "reserved", "unknown")
    BY <1>1, <1>2, <1>10, LedgerRow DEF SettleAttempt, SettleFailed
  <2>3. AttemptOf(h)'
    BY <1>1, <1>5, <2>1, <2>2 DEF AttemptOf, Fresh, Charged, At
  <2>4. \A i \in Calls, n \in Attempts : i # worker[h].step => reservation'[<<i, n>>] = reservation[<<i, n>>]
    BY <1>2, <1>4, <2>2 DEF Held
  <2> QED
    BY <1>1, <2>1, <2>3, <2>4, OthersKept
<1>11. CASE CancelDuringBackoff(h) \/ BumpAttempt(h) \/ FailCommand(h)
  <2>1. /\ \/ worker'[h].pc \in {"failing", "unstepped"}
           \/ worker'[h].pc = "ready" /\ worker'[h].attempt = worker[h].attempt + 1
        /\ dispatched' = dispatched /\ reservation' = reservation
    BY <1>1, <1>11 DEF CancelDuringBackoff, BumpAttempt, FailCommand, Go, WorkerRecord, budgetVars
  <2>2. ~Charged(h) /\ ~Charged(h)'
    BY <1>2, <1>11, <2>1 DEF CancelDuringBackoff, BumpAttempt, FailCommand, Charged, Fresh, At, Attempts
  <2>3. ~Fresh(h)' /\ worker'[h].pc # "reserved"
    BY <2>2 DEF Charged
  <2>4. AttemptOf(h)'
    BY <1>1, <2>1, <2>2, <2>3, NothingReserved DEF AttemptOf, At
  <2> QED
    BY <1>1, <2>1, <2>4, OthersKept
<1> QED
  BY <1>6, <1>7, <1>8, <1>9, <1>10, <1>11 DEF Quietly

(* What every call has reserved, through every step of the run.             *)
LEMMA AttemptStep ==
    ASSUME CallInv, OwnInv, AttemptInv, DispatchIsCharged, [StepNext]_stepVars
    PROVE  AttemptInv'
<1> USE StepAssumption
<1>1. /\ worker \in [Hosts -> WorkerRecord] /\ steps \in Seq(StepRecord) /\ Len(steps) \in Nat
      /\ BudgetTypeOK /\ CarriedInv /\ CountsInv
  BY DEF CallInv, RowsInv, BudgetInv
<1>2. \A i \in Calls, n \in Attempts : <<i, n>> \in Operations /\ <<i, n>> \notin Elsewhere
  BY DEF Calls, Attempts
<1>3. CASE UNCHANGED stepVars
  BY <1>3 DEF stepVars, budgetVars, runVars, AttemptInv, AttemptOf, Fresh, Charged, At, Held
<1>4. CASE Takeover
  <2>1. /\ \A g \in Hosts : worker'[g] = worker[g] \/ worker'[g].pc = "idle"
        /\ steps' = steps /\ reservation' = reservation /\ dispatched' = dispatched
    BY <1>1, <1>4 DEF Takeover, runVars, budgetVars, WorkerRecord
  <2> QED
    BY <2>1 DEF AttemptInv, AttemptOf, Fresh, Charged, At, Held, Stepped, Commanded
<1>5. ASSUME NEW o \in Elsewhere, OtherRun(o) PROVE AttemptInv'
  <2>1. \A p \in Operations : p # o => reservation'[p] = reservation[p]
    BY <1>1, <1>5, LedgerRow DEF OtherRun, RowMoved
  <2>2. \A i \in Calls, n \in Attempts : reservation'[<<i, n>>] = reservation[<<i, n>>]
    BY <1>2, <2>1
  <2>3. UNCHANGED <<steps, worker, dispatched>>
    BY <1>5 DEF OtherRun, runVars
  <2>4. \A g \in Hosts : worker[g].pc \in Stepped => worker[g].step \in Calls /\ worker[g].reserved \in Attempts
    BY <1>1, HeldIsOperation DEF CarriedInv
  <2> QED
    BY <2>2, <2>3, <2>4 DEF AttemptInv, AttemptOf, Fresh, Charged, At, Held
<1>6. ASSUME NEW h \in Hosts, ClaimRun(h) \/ CallStep(h) \/ EndTurn(h) PROVE AttemptInv'
  <2>1. CASE Quietly(h)
    BY <2>1, QuietAttempt
  <2>2. CASE Returns(h)
    <3>1. /\ \A g \in Hosts : worker'[g] = worker[g] \/ worker'[g].pc \notin Commanded
          /\ steps' = steps /\ reservation' = reservation /\ dispatched' = dispatched
      BY <2>2, ReturnMoves DEF budgetVars
    <3> QED
      BY <3>1 DEF AttemptInv, AttemptOf, Fresh, Charged, At, Held, Stepped
  <2>3. CASE EnqueueCommand(h)
    <3>1. /\ \A g \in Hosts : worker'[g] = worker[g] \/ worker'[g].pc = "enqueued"
          /\ steps' = steps /\ reservation' = reservation /\ dispatched' = dispatched
      BY <1>1, <2>3 DEF EnqueueCommand, WorkerRecord, budgetVars
    <3> QED
      BY <3>1 DEF AttemptInv, AttemptOf, Fresh, Charged, At, Held, Stepped, Commanded
  <2>4. CASE FreezeStep(h)
    <3> DEFINE i == Len(steps) + 1
    <3>1. /\ \A g \in Hosts : g # h => worker'[g] = worker[g]
          /\ worker'[h].pc = "ready" /\ worker'[h].step = i /\ worker'[h].attempt = 1 /\ worker'[h].reserved = 1
          /\ Len(steps') = i /\ dispatched' = dispatched /\ Reserve(<<i, 1>>, RunBudget, Bound)
      BY <1>1, <2>4 DEF FreezeStep, WorkerRecord
    <3>2. i \in Calls /\ 1 \in Attempts
      BY <1>1, <2>4 DEF FreezeStep, Fenced, CountsInv, Calls, Attempts
    <3>3. RowMoved(<<i, 1>>, "none", "reserved")
      BY <1>1, <1>2, <3>1, <3>2, LedgerRow
    <3>4. \A j \in Calls, n \in Attempts : <<j, n>> # <<i, 1>> => reservation'[<<j, n>>] = reservation[<<j, n>>]
      BY <1>2, <3>3 DEF RowMoved
    <3>5. \A n \in Attempts : n # 1 => reservation'[<<i, n>>].state = "none"
      BY <1>1, <3>2, <3>4 DEF AttemptInv
    <3>6. \A j \in Calls, n \in Attempts : j > i => reservation'[<<j, n>>].state = "none"
      BY <1>1, <3>4 DEF AttemptInv, Calls
    <3>7. <<i, 1>> \notin dispatched
      BY <1>1 DEF DispatchIsCharged
    <3>8. AttemptOf(h)'
      BY <3>1, <3>3, <3>5, <3>7 DEF AttemptOf, Fresh, Charged, At, Held, RowMoved
    <3>9. ASSUME NEW g \in Hosts, g # h PROVE AttemptOf(g)'
      <4>1. AttemptOf(g) /\ worker'[g] = worker[g]
        BY <3>1, <3>9 DEF AttemptInv
      <4>2. worker[g].pc \in Stepped => worker[g].step \in Calls /\ worker[g].step \in 1..Len(steps)
        BY HeldIsOperation
      <4>3. worker[g].pc \in Stepped => worker[g].step # i /\ worker[g].reserved \in Attempts
        BY <1>1, <4>2 DEF CarriedInv
      <4> HIDE DEF i
      <4> QED
        BY <3>1, <3>4, <4>1, <4>2, <4>3 DEF AttemptOf, Fresh, Charged, At, Held
    <3> QED
      BY <3>1, <3>6, <3>8, <3>9 DEF AttemptInv
  <2>5. CASE CompleteStep(h) \/ FailStep(h)
    <3>1. /\ \A g \in Hosts : g # h => worker'[g] = worker[g]
          /\ worker[h].pc \in {"measured", "unstepped"} /\ worker'[h].pc \in {"idle", "unfinished"}
          /\ worker'[h].step = worker[h].step
          /\ reservation' = reservation /\ dispatched' = dispatched
      BY <1>1, <2>5 DEF CompleteStep, FailStep, Go, At, WorkerRecord, budgetVars
    <3>2. Len(steps') = Len(steps)
      BY <1>1, <2>5, StepRowWritten DEF CompleteStep, FailStep, Failure
    <3>3. worker[h].pc \in Stepped /\ ~Charged(h)
      BY <3>1 DEF Stepped, Commanded, Charged, Fresh, At
    <3>4. AttemptOf(h)'
      BY <3>1, <3>3, NothingReserved DEF AttemptOf, Fresh, Charged, At
    <3> QED
      BY <3>1, <3>2, <3>3, <3>4, OthersKept
  <2> QED
    BY <1>6, <2>1, <2>2, <2>3, <2>4, <2>5 DEF CallStep, Quietly, Returns
<1> QED
  BY <1>3, <1>4, <1>5, <1>6 DEF StepNext

-----------------------------------------------------------------------------
(* A row that was reserved and sent is not given back: the only release of  *)
(* a call is of a reservation it holds and has not sent.                    *)
LEMMA ChargedStep ==
    ASSUME CallInv, OwnInv, AttemptInv, DispatchIsCharged, [StepNext]_stepVars
    PROVE  DispatchIsCharged'
<1> USE StepAssumption
<1> DEFINE OnTheBooks == {"reserved", "settled", "unknown"}
<1>1. /\ worker \in [Hosts -> WorkerRecord] /\ steps \in Seq(StepRecord) /\ Len(steps) \in Nat
      /\ BudgetTypeOK /\ CarriedInv /\ CountsInv /\ dispatched \in SUBSET Operations
      /\ DOMAIN steps = 1..Len(steps)
  BY DEF CallInv, RowsInv, BudgetInv
<1>2. DOMAIN steps \subseteq DOMAIN steps'
  <2>1. ASSUME NEW h \in Hosts, FreezeStep(h) PROVE DOMAIN steps \subseteq DOMAIN steps'
    <3>1. steps' = Append(steps, [state |-> "frozen", command |-> worker[h].command])
      BY <2>1 DEF FreezeStep
    <3> QED
      BY <1>1, <3>1
  <2>2. ASSUME NEW h \in Hosts, CallStep(h) \/ ClaimRun(h) \/ EndTurn(h), ~FreezeStep(h)
        PROVE  DOMAIN steps' = DOMAIN steps
    <3>1. \/ steps' = steps
          \/ \E v : steps' = [steps EXCEPT ![worker[h].step].state = v]
      BY <2>2, QuietMoves, ReturnMoves
         DEF CallStep, Quietly, Returns, EnqueueCommand, CompleteStep, FailStep
    <3> QED
      BY <1>1, <3>1
  <2>3. CASE Takeover \/ UNCHANGED stepVars \/ \E o \in Elsewhere : OtherRun(o)
    BY <2>3 DEF Takeover, OtherRun, stepVars, runVars
  <2> QED
    BY <2>1, <2>2, <2>3 DEF StepNext
<1>3. ASSUME NEW o \in Operations, NEW from, NEW to \in OnTheBooks, RowMoved(o, from, to)
      PROVE  \A p \in dispatched : reservation'[p].state \in OnTheBooks
  BY <1>1, <1>3 DEF RowMoved, DispatchIsCharged
<1>4. ASSUME reservation' = reservation
      PROVE  \A p \in dispatched : reservation'[p].state \in OnTheBooks
  BY <1>4 DEF DispatchIsCharged
<1>5. ASSUME dispatched' = dispatched, \A p \in dispatched : reservation'[p].state \in OnTheBooks
      PROVE  DispatchIsCharged'
  BY <1>2, <1>5 DEF DispatchIsCharged
<1>6. CASE Takeover \/ UNCHANGED stepVars
  <2>1. dispatched' = dispatched /\ reservation' = reservation
    BY <1>6 DEF Takeover, stepVars, budgetVars
  <2> QED
    BY <1>4, <1>5, <2>1
<1>7. ASSUME NEW o \in Elsewhere, OtherRun(o) PROVE DispatchIsCharged'
  <2>1. o \in Operations /\ dispatched' = dispatched
    BY <1>7 DEF OtherRun
  <2>2. RowMoved(o, "none", "reserved") \/ RowMoved(o, "reserved", "settled")
    BY <1>1, <1>7, <2>1, LedgerRow DEF OtherRun
  <2> QED
    BY <1>3, <1>5, <2>1, <2>2
<1>8. ASSUME NEW h \in Hosts, ClaimRun(h) \/ CallStep(h) \/ EndTurn(h) PROVE DispatchIsCharged'
  <2>1. CASE Dispatch(h)
    <3>1. worker[h].pc \in Stepped /\ Charged(h) /\ (Fresh(h) \/ At(h, "reserved"))
      BY <2>1 DEF Dispatch, Charged, Fresh, At, Stepped, Commanded
    <3>2. reservation[Held(h)].state = "reserved" /\ worker[h].reserved = worker[h].attempt
      BY <3>1 DEF AttemptInv, AttemptOf
    <3>3. dispatched' = dispatched \cup {Held(h)} /\ reservation' = reservation
      BY <2>1, <3>2 DEF Dispatch, budgetVars, Held
    <3>4. Held(h)[1] \in DOMAIN steps
      BY <1>1, <3>1, HeldIsOperation DEF Held
    <3> QED
      BY <1>2, <3>2, <3>3, <3>4 DEF DispatchIsCharged
  <2>2. CASE CancelBeforeDispatch(h)
    <3>1. worker[h].pc \in Stepped /\ Held(h) \in Operations /\ dispatched' = dispatched
      BY <2>2, HeldIsOperation DEF CancelBeforeDispatch, At, Stepped, Commanded
    <3>2. CASE RowMoved(Held(h), "reserved", "released")
      <4>1. Charged(h)
        <5>1. worker[h].reserved \in Attempts
          BY <1>1, <3>1 DEF CarriedInv
        <5> QED
          BY <3>1, <3>2, <5>1 DEF AttemptInv, AttemptOf, RowMoved, Held
      <4>2. Fresh(h)
        BY <2>2, <4>1 DEF CancelBeforeDispatch, Charged, At
      <4>3. Held(h) \notin dispatched
        BY <3>1, <4>2 DEF AttemptInv, AttemptOf
      <4>4. \A p \in dispatched : reservation'[p] = reservation[p]
        BY <1>1, <3>2, <4>3 DEF RowMoved
      <4> QED
        BY <1>5, <3>1, <4>4 DEF DispatchIsCharged
    <3>3. reservation' = reservation \/ RowMoved(Held(h), "reserved", "released")
      BY <1>1, <2>2, <3>1, LedgerRow DEF CancelBeforeDispatch, budgetVars
    <3> QED
      BY <1>4, <1>5, <3>1, <3>2, <3>3
  <2>3. CASE FreezeStep(h)
    <3>1. dispatched' = dispatched /\ Reserve(<<Len(steps) + 1, 1>>, RunBudget, Bound)
      BY <2>3 DEF FreezeStep
    <3>2. <<Len(steps) + 1, 1>> \in Operations
      BY <1>1, <2>3 DEF FreezeStep, Fenced, CountsInv
    <3>3. RowMoved(<<Len(steps) + 1, 1>>, "none", "reserved")
      BY <1>1, <3>1, <3>2, LedgerRow
    <3> QED
      BY <1>3, <1>5, <3>1, <3>2, <3>3
  <2>4. CASE ReserveRetry(h) \/ SettleAttempt(h) \/ SettleFailed(h)
    <3>1. /\ worker[h].pc \in Stepped /\ dispatched' = dispatched
      BY <2>4 DEF ReserveRetry, SettleAttempt, SettleFailed, At, Stepped, Commanded
    <3>2. Held(h) \in Operations /\ <<worker[h].step, worker[h].attempt>> \in Operations
      BY <3>1, HeldIsOperation
    <3>3. \/ RowMoved(<<worker[h].step, worker[h].attempt>>, "none", "reserved")
          \/ RowMoved(Held(h), "reserved", "settled") \/ RowMoved(Held(h), "reserved", "unknown")
      BY <1>1, <2>4, <3>2, LedgerRow DEF ReserveRetry, SettleAttempt, SettleFailed
    <3> QED
      BY <1>3, <1>5, <3>1, <3>2, <3>3
  <2>5. CASE \/ Returns(h) \/ EnqueueCommand(h) \/ ProviderReturns(h) \/ CancelDuringBackoff(h) \/ BumpAttempt(h)
             \/ CompleteStep(h) \/ FailCommand(h) \/ FailStep(h)
    <3>1. dispatched' = dispatched /\ reservation' = reservation
      BY <2>5, ReturnMoves DEF EnqueueCommand, ProviderReturns, CancelDuringBackoff, BumpAttempt, CompleteStep,
         FailCommand, FailStep, budgetVars
    <3> QED
      BY <1>4, <1>5, <3>1
  <2> QED
    BY <1>8, <2>1, <2>2, <2>3, <2>4, <2>5 DEF CallStep, Returns
<1> QED
  BY <1>6, <1>7, <1>8 DEF StepNext

(* Nothing is reserved for a step that has its outcome: a reservation is    *)
(* made for a step that is new or of a call at work, and a call records the *)
(* outcome of its step when its last attempt is over.                       *)
LEMMA SettledStep ==
    ASSUME CallInv, OwnInv, AttemptInv, RecordedStepIsSettled, [StepNext]_stepVars
    PROVE  RecordedStepIsSettled'
<1> USE StepAssumption
<1>1. /\ worker \in [Hosts -> WorkerRecord] /\ steps \in Seq(StepRecord) /\ Len(steps) \in Nat
      /\ BudgetTypeOK /\ CarriedInv /\ CountsInv /\ DOMAIN steps = 1..Len(steps)
      /\ \A i \in 1..Len(steps) : i \in Calls
  BY DEF CallInv, RowsInv, BudgetInv, CountsInv, Calls
<1>2. \A i \in Calls, n \in Attempts : <<i, n>> \in Operations /\ <<i, n>> \notin Elsewhere
  BY DEF Calls, Attempts
<1>3. ASSUME DOMAIN steps' = DOMAIN steps, \A i \in DOMAIN steps : steps'[i].state = steps[i].state,
             \A i \in DOMAIN steps, n \in Attempts :
                steps[i].state # "frozen" /\ reservation'[<<i, n>>].state = "reserved" =>
                   reservation[<<i, n>>].state = "reserved"
      PROVE  RecordedStepIsSettled'
  BY <1>3 DEF RecordedStepIsSettled, Attempts
<1>4. CASE Takeover \/ UNCHANGED stepVars
  <2>1. steps' = steps /\ reservation' = reservation
    BY <1>4 DEF Takeover, stepVars, runVars, budgetVars
  <2> QED
    BY <1>3, <2>1
<1>5. ASSUME NEW o \in Elsewhere, OtherRun(o) PROVE RecordedStepIsSettled'
  <2>1. \A p \in Operations : p # o => reservation'[p] = reservation[p]
    BY <1>1, <1>5, LedgerRow DEF OtherRun, RowMoved
  <2>2. \A i \in DOMAIN steps, n \in Attempts : reservation'[<<i, n>>] = reservation[<<i, n>>]
    BY <1>1, <1>2, <2>1
  <2>3. steps' = steps
    BY <1>5 DEF OtherRun, runVars
  <2> QED
    BY <1>3, <2>2, <2>3
<1>6. ASSUME NEW h \in Hosts, ClaimRun(h) \/ CallStep(h) \/ EndTurn(h) PROVE RecordedStepIsSettled'
  <2>1. CASE Quietly(h)
    <3>1. worker[h].pc \in Stepped \ {"unfinished"} /\ steps' = steps
      BY <2>1, QuietMoves
    <3>2. steps[worker[h].step].state = "frozen"
      BY <3>1 DEF OwnInv, At
    <3>3. /\ Held(h) \in Operations /\ <<worker[h].step, worker[h].attempt>> \in Operations
      BY <3>1, HeldIsOperation
    <3>4. \/ reservation' = reservation
          \/ \E o \in {Held(h), <<worker[h].step, worker[h].attempt>>} : \E from, to : RowMoved(o, from, to)
      BY <1>1, <2>1, <3>3, LedgerRow
         DEF Quietly, CancelBeforeDispatch, ReserveRetry, Dispatch, ProviderReturns, SettleAttempt, SettleFailed,
             CancelDuringBackoff, BumpAttempt, FailCommand, budgetVars
    <3>5. \A i \in DOMAIN steps, n \in Attempts :
             i # worker[h].step => reservation'[<<i, n>>] = reservation[<<i, n>>]
      BY <1>1, <1>2, <3>4 DEF RowMoved, Held
    <3> QED
      BY <1>3, <3>1, <3>2, <3>5
  <2>2. CASE Returns(h) \/ EnqueueCommand(h)
    <3>1. steps' = steps /\ reservation' = reservation
      BY <2>2, ReturnMoves DEF EnqueueCommand, budgetVars
    <3> QED
      BY <1>3, <3>1
  <2>3. CASE FreezeStep(h)
    <3> DEFINE s == [state |-> "frozen", command |-> worker[h].command]
    <3>1. steps' = Append(steps, s) /\ Reserve(<<Len(steps) + 1, 1>>, RunBudget, Bound)
      BY <2>3 DEF FreezeStep
    <3>2. /\ DOMAIN steps' = 1..(Len(steps) + 1) /\ steps'[Len(steps) + 1] = s
          /\ \A i \in 1..Len(steps) : steps'[i] = steps[i]
      BY <1>1, <3>1
    <3>3. <<Len(steps) + 1, 1>> \in Operations
      BY <1>1, <2>3 DEF FreezeStep, Fenced, CountsInv
    <3>4. RowMoved(<<Len(steps) + 1, 1>>, "none", "reserved")
      BY <1>1, <3>1, <3>3, LedgerRow
    <3>5. \A i \in 1..Len(steps), n \in Attempts : reservation'[<<i, n>>] = reservation[<<i, n>>]
      <4>1. \A i \in 1..Len(steps) : i \in Calls /\ i # Len(steps) + 1
        BY <1>1
      <4>2. \A i \in Calls, n \in Attempts :
               i # Len(steps) + 1 => reservation'[<<i, n>>] = reservation[<<i, n>>]
        BY <1>2, <3>4 DEF RowMoved
      <4> QED
        BY <4>1, <4>2
    <3>6. s.state = "frozen"
      OBVIOUS
    <3> HIDE DEF s
    <3>7. ASSUME NEW i \in DOMAIN steps', steps'[i].state # "frozen", NEW n \in Attempts
          PROVE  reservation'[<<i, n>>].state # "reserved"
      <4>1. i \in 1..Len(steps) /\ steps'[i] = steps[i]
        BY <1>1, <3>2, <3>6, <3>7
      <4> QED
        BY <1>1, <3>5, <3>7, <4>1 DEF RecordedStepIsSettled, Attempts
    <3> QED
      BY <3>7 DEF RecordedStepIsSettled, Attempts
  <2>4. CASE CompleteStep(h) \/ FailStep(h)
    <3>1. worker[h].pc \in {"measured", "unstepped"} /\ reservation' = reservation
      BY <2>4 DEF CompleteStep, FailStep, At, budgetVars
    <3>2. worker[h].pc \in Stepped /\ ~Charged(h)
      BY <3>1 DEF Stepped, Commanded, Charged, Fresh, At
    <3>3. \A n \in Attempts : reservation[<<worker[h].step, n>>].state # "reserved"
      BY <3>2, NothingReserved
    <3>4. /\ DOMAIN steps' = DOMAIN steps
          /\ \A i \in DOMAIN steps : i # worker[h].step => steps'[i] = steps[i]
      BY <1>1, <2>4 DEF CompleteStep, FailStep
    <3> QED
      BY <3>1, <3>3, <3>4 DEF RecordedStepIsSettled, Attempts
  <2> QED
    BY <1>6, <2>1, <2>2, <2>3, <2>4 DEF CallStep, Quietly, Returns
<1> QED
  BY <1>4, <1>5, <1>6 DEF StepNext

(* A command and its step change together: the command of a call is its     *)
(* own, its step is the only one of that command, and it is frozen until    *)
(* the call records its outcome.                                            *)
LEMMA AgreeStep ==
    ASSUME CallInv, OwnInv, CommandAndStepAgree, [StepNext]_stepVars
    PROVE  CommandAndStepAgree'
<1> USE StepAssumption
<1>1. /\ worker \in [Hosts -> WorkerRecord] /\ steps \in Seq(StepRecord) /\ commands \in Seq(CommandRecord)
      /\ Len(steps) \in Nat /\ Len(commands) \in Nat /\ CarriedInv
      /\ DOMAIN steps = 1..Len(steps) /\ DOMAIN commands = 1..Len(commands)
  BY DEF CallInv, RowsInv
<1>2. CASE steps' = steps /\ commands' = commands
  BY <1>2 DEF CommandAndStepAgree
<1>3. ASSUME NEW h \in Hosts, EnqueueCommand(h) PROVE CommandAndStepAgree'
  <2> DEFINE c == [state |-> "claimed", owner |-> h, attempts |-> 1]
  <2>1. steps' = steps /\ commands' = Append(commands, c)
    BY <1>3 DEF EnqueueCommand
  <2>2. /\ DOMAIN commands' = 1..(Len(commands) + 1) /\ commands'[Len(commands) + 1] = c
        /\ \A i \in 1..Len(commands) : commands'[i] = commands[i]
    BY <1>1, <2>1
  <2>3. c.state = "claimed"
    OBVIOUS
  <2> HIDE DEF c
  <2>4. \A i \in DOMAIN steps : steps[i].command # Len(commands) + 1
    BY <1>1 DEF OwnInv
  <2>5. \A i \in DOMAIN commands' : i \in DOMAIN commands \/ i = Len(commands) + 1
    BY <1>1, <2>2
  <2> QED
    BY <1>1, <2>1, <2>2, <2>3, <2>4, <2>5 DEF CommandAndStepAgree
<1>4. ASSUME NEW h \in Hosts, FreezeStep(h) PROVE CommandAndStepAgree'
  <2> DEFINE s == [state |-> "frozen", command |-> worker[h].command]
  <2>1. commands' = commands /\ steps' = Append(steps, s)
    BY <1>4 DEF FreezeStep
  <2>2. /\ DOMAIN steps' = 1..(Len(steps) + 1) /\ steps'[Len(steps) + 1] = s
        /\ \A i \in 1..Len(steps) : steps'[i] = steps[i]
    BY <1>1, <2>1
  <2>3. s.state = "frozen"
    OBVIOUS
  <2> HIDE DEF s
  <2>4. \A i \in DOMAIN steps' : (i \in DOMAIN steps /\ steps'[i] = steps[i]) \/ steps'[i].state = "frozen"
    BY <1>1, <2>2, <2>3
  <2>5. \A i \in DOMAIN steps : i \in DOMAIN steps' /\ steps'[i] = steps[i]
    BY <1>1, <2>2
  <2> QED
    BY <2>1, <2>4, <2>5 DEF CommandAndStepAgree
<1>5. ASSUME NEW h \in Hosts, worker[h].pc \in Stepped \ {"unfinished"}
      PROVE  /\ worker[h].step \in DOMAIN steps /\ worker[h].command \in DOMAIN commands
             /\ steps[worker[h].step].command = worker[h].command
             /\ steps[worker[h].step].state = "frozen"
             /\ \A i \in DOMAIN steps : steps[i].command = worker[h].command => i = worker[h].step
  <2>1. worker[h].pc \in Commanded /\ worker[h].pc \in Stepped /\ ~At(h, "unfinished")
    BY <1>5 DEF Stepped, At
  <2>2. worker[h].step \in DOMAIN steps /\ worker[h].command \in DOMAIN commands
    BY <1>1, <2>1 DEF CarriedInv
  <2>3. steps[worker[h].step].command = worker[h].command /\ steps[worker[h].step].state = "frozen"
    BY <2>1 DEF OwnInv
  <2> QED
    BY <1>1, <2>2, <2>3 DEF OwnInv
<1>6. ASSUME NEW h \in Hosts, BumpAttempt(h) \/ FailCommand(h) PROVE CommandAndStepAgree'
  <2>1. worker[h].pc \in Stepped \ {"unfinished"} /\ steps' = steps
    BY <1>6 DEF BumpAttempt, FailCommand, At, Stepped, Commanded
  <2>2. ASSUME commands' # commands
        PROVE  /\ DOMAIN commands' = DOMAIN commands
               /\ commands'[worker[h].command].state # "completed"
               /\ \A c \in DOMAIN commands : c # worker[h].command => commands'[c] = commands[c]
    <3>1. worker[h].command \in DOMAIN commands /\ commands[worker[h].command] \in CommandRecord
      BY <1>1, <1>5, <2>1
    <3> DEFINE c == worker[h].command
    <3>2. PICK r : commands' = [commands EXCEPT ![c] = r] /\ r.state # "completed"
      <4>1. CASE BumpAttempt(h)
        <5> DEFINE r == [commands[c] EXCEPT !.attempts = @ + 1, !.state = "claimed"]
        <5>1. r.state = "claimed"
          BY ONLY <3>1 DEF CommandRecord
        <5>2. commands' = [commands EXCEPT ![c] = r]
          BY <1>1, <3>1, <4>1 DEF BumpAttempt
        <5> QED
          BY <5>1, <5>2
      <4>2. CASE FailCommand(h)
        <5>1. PICK v \in {"canceled", "pending"} : commands' = [commands EXCEPT ![c].state = v]
          BY <2>2, <4>2 DEF FailCommand
        <5>2. [commands[c] EXCEPT !.state = v].state = v
          BY ONLY <3>1 DEF CommandRecord
        <5> QED
          BY <5>1, <5>2
      <4> QED
        BY <1>6, <4>1, <4>2
    <3> QED
      BY <1>1, <3>1, <3>2
  <2>3. CASE commands' = commands
    BY <1>2, <2>1, <2>3
  <2> QED
    BY <1>5, <2>1, <2>2, <2>3 DEF CommandAndStepAgree
<1>7. ASSUME NEW h \in Hosts, CompleteStep(h) \/ FailStep(h) PROVE CommandAndStepAgree'
  <2>1. worker[h].pc \in Stepped \ {"unfinished"}
    BY <1>7 DEF CompleteStep, FailStep, At, Stepped, Commanded
  <2>2. CASE steps' = steps /\ commands' = commands
    BY <1>2, <2>2
  <2>3. CASE CompleteStep(h)
    <3>1. /\ commands' = [commands EXCEPT ![worker[h].command].state = "completed"]
          /\ steps' = [steps EXCEPT ![worker[h].step].state = "streamed"]
      BY <2>3 DEF CompleteStep
    <3>2. /\ DOMAIN steps' = DOMAIN steps
          /\ \A i \in DOMAIN steps : steps'[i].command = steps[i].command
          /\ steps'[worker[h].step].state = "streamed"
          /\ \A i \in DOMAIN steps : i # worker[h].step => steps'[i].state = steps[i].state
      <4>1. steps[worker[h].step] \in StepRecord
        BY <1>1, <1>5, <2>1
      <4> QED
        BY <1>1, <1>5, <2>1, <3>1, StepRowWritten
    <3>3. /\ DOMAIN commands' = DOMAIN commands
          /\ commands'[worker[h].command].state = "completed"
          /\ \A c \in DOMAIN commands : c # worker[h].command => commands'[c].state = commands[c].state
      <4>1. 1 \in Attempts
        BY DEF Attempts
      <4>2. /\ Len(commands') = Len(commands) /\ commands' \in Seq(CommandRecord)
            /\ \A c \in 1..Len(commands) :
                  commands'[c].state = IF c = worker[h].command THEN "completed" ELSE commands[c].state
        BY ONLY <1>1, <3>1, <4>1, CommandRowWritten
      <4>3. DOMAIN commands' = DOMAIN commands /\ worker[h].command \in DOMAIN commands
        BY <1>1, <1>5, <2>1, <4>2
      <4> QED
        BY <1>1, <4>2, <4>3
    <3>4. ASSUME NEW c \in DOMAIN commands
          PROVE  commands'[c].state = "completed" <=>
                    \E i \in DOMAIN steps : steps'[i].command = c /\ steps'[i].state = "streamed"
      <4>1. CASE c = worker[h].command
        BY <1>5, <2>1, <3>2, <3>3, <4>1
      <4>2. CASE c # worker[h].command
        <5>1. \A i \in DOMAIN steps : steps[i].command = c => i # worker[h].step
          BY <1>5, <2>1, <4>2
        <5> QED
          BY <3>2, <3>3, <4>2, <5>1 DEF CommandAndStepAgree
      <4> QED
        BY <4>1, <4>2
    <3> QED
      BY <3>2, <3>3, <3>4 DEF CommandAndStepAgree
  <2>4. CASE FailStep(h)
    <3>1. commands' = commands
      BY <2>4 DEF FailStep
    <3>2. ASSUME NEW v \in {"failed", "canceled"}, steps' = [steps EXCEPT ![worker[h].step].state = v]
          PROVE  CommandAndStepAgree'
      <4>1. /\ DOMAIN steps' = DOMAIN steps
            /\ \A i \in DOMAIN steps : steps'[i].command = steps[i].command
            /\ \A i \in DOMAIN steps : steps'[i].state = "streamed" <=> steps[i].state = "streamed"
        BY <1>1, <1>5, <2>1, <3>2, StepRowWritten
      <4> QED
        BY <3>1, <4>1 DEF CommandAndStepAgree
    <3> QED
      BY <2>2, <2>4, <3>1, <3>2 DEF FailStep, Failure
  <2> QED
    BY <1>7, <2>3, <2>4
<1>8. CASE UNCHANGED stepVars \/ Takeover \/ \E o \in Elsewhere : OtherRun(o)
  BY <1>2, <1>8 DEF stepVars, runVars, Takeover, OtherRun
<1>9. ASSUME NEW h \in Hosts, ClaimRun(h) \/ CallStep(h) \/ EndTurn(h) PROVE CommandAndStepAgree'
  <2>1. CASE Returns(h)
    BY <1>2, <2>1, ReturnMoves
  <2>2. CASE \/ CancelBeforeDispatch(h) \/ ReserveRetry(h) \/ Dispatch(h) \/ ProviderReturns(h) \/ SettleAttempt(h)
             \/ SettleFailed(h) \/ CancelDuringBackoff(h)
    BY <1>2, <2>2 DEF CancelBeforeDispatch, ReserveRetry, Dispatch, ProviderReturns, SettleAttempt, SettleFailed,
       CancelDuringBackoff, runVars
  <2> QED
    BY <1>3, <1>4, <1>6, <1>7, <1>9, <2>1, <2>2 DEF CallStep, Returns
<1> QED
  BY <1>8, <1>9 DEF StepNext

-----------------------------------------------------------------------------
LEMMA FullInvStep == ASSUME FullInv, [StepNext]_stepVars PROVE FullInv'
BY CallInvStep, OwnStep, AttemptStep, ChargedStep, SettledStep, AgreeStep DEF FullInv, RecordsInv

LEMMA FullInvHolds == StepSpec => []FullInv
<1>1. FullInv /\ [StepNext]_stepVars => FullInv'
  BY FullInvStep
<1> QED
  BY <1>1, FullInvInit, PTL DEF StepSpec

(* Whatever is retried, cancelled, refused or taken over between any two    *)
(* transactions of run_inner: a request that was sent is charged, a step    *)
(* with an outcome holds nothing back, and a command is completed exactly   *)
(* when its step is streamed.                                               *)
THEOREM CallsKeepTheirRecord == StepSpec => []StepInv
<1>1. FullInv => StepInv
  BY DEF FullInv, CallInv, BudgetInv, RowsInv, RecordsInv, StepInv, StepTypeOK, StepRecord, CommandRecord, Calls,
     Attempts
<1> QED
  BY <1>1, FullInvHolds, PTL

-----------------------------------------------------------------------------
(* Once the run is finished, the host that owns the store is in no call     *)
(* with a step and has no result to end the turn with: the one that could   *)
(* still finish it is the one that did, and a host that comes later starts  *)
(* anew.                                                                    *)
FinishedInv ==
    /\ \A g \in Hosts : g > generation => At(g, "off") /\ ~worker[g].result
    /\ run.state \in Terminal => worker[generation].pc \notin Stepped /\ ~worker[generation].result

LEMMA FinishedInvInit == StepInit => FinishedInv
<1> SUFFICES ASSUME StepInit PROVE FinishedInv
  OBVIOUS
<1>1. /\ generation = 1 /\ run.state = "none"
      /\ worker = [h \in Hosts |-> IF h = 1 THEN [NoWorker EXCEPT !.pc = "idle"] ELSE NoWorker]
  BY DEF StepInit, RunInit
<1>2. \A g \in Hosts : g # 1 => worker[g] = NoWorker
  BY <1>1
<1> QED
  BY <1>1, <1>2 DEF FinishedInv, Terminal, At, NoWorker

(* Only the host that owns the store changes the run, and a finished run    *)
(* not even it.                                                             *)
LEMMA FinishedStep ==
    ASSUME CallInv, FinishedInv, [StepNext]_stepVars
    PROVE  /\ FinishedInv'
           /\ run.state \in Terminal => run'.state = run.state /\ Len(steps') = Len(steps)
<1> DEFINE Stays == run.state \in Terminal => run'.state = run.state /\ Len(steps') = Len(steps)
<1>1. /\ worker \in [Hosts -> WorkerRecord] /\ steps \in Seq(StepRecord) /\ generation \in Hosts
      /\ run \in [state: {"none", "running", "paused"} \cup Terminal, owner: 0..MaxHosts, revision: Nat]
      /\ Hosts \subseteq Nat
  BY DEF CallInv, RowsInv, Hosts
<1>2. CASE UNCHANGED stepVars
  BY <1>2 DEF stepVars, runVars, FinishedInv, At
<1>3. CASE Takeover
  <2>1. generation' = generation + 1 /\ generation + 1 \in Hosts /\ UNCHANGED <<run, steps>>
    BY <1>1, <1>3, StepAssumption DEF Takeover, runVars, Hosts
  <2>2. worker' = [worker EXCEPT ![generation + 1] = [worker[generation + 1] EXCEPT !.pc = "idle"]]
    BY <1>3 DEF Takeover
  <2>3. /\ [worker[generation + 1] EXCEPT !.pc = "idle"].pc = "idle"
        /\ [worker[generation + 1] EXCEPT !.pc = "idle"].result = worker[generation + 1].result
    <3>1. worker[generation + 1] \in WorkerRecord
      BY <1>1, <2>1
    <3> QED
      BY ONLY <3>1 DEF WorkerRecord
  <2>4. /\ worker'[generation + 1].pc = "idle" /\ ~worker'[generation + 1].result
        /\ \A g \in Hosts : g # generation + 1 => worker'[g] = worker[g]
    BY <1>1, <2>1, <2>2, <2>3 DEF FinishedInv
  <2>5. \A g \in Hosts : g > generation' => At(g, "off")' /\ ~worker'[g].result
    BY <1>1, <2>1, <2>4 DEF FinishedInv, At
  <2> QED
    BY <2>1, <2>4, <2>5 DEF FinishedInv, Stepped, Commanded
<1>4. ASSUME NEW o \in Elsewhere, OtherRun(o) PROVE FinishedInv' /\ Stays
  BY <1>4 DEF OtherRun, runVars, FinishedInv, At
<1>5. ASSUME NEW h \in Hosts, ClaimRun(h) \/ CallStep(h) \/ EndTurn(h) PROVE FinishedInv' /\ Stays
  <2>1. ~At(h, "off")
    BY <1>5, QuietMoves
       DEF CallStep, Quietly, ClaimRun, EndTurn, EnqueueCommand, FreezeStep, CompleteStep, FailStep, FailRun,
           CallAborts, At, Stepped, Commanded, CancelBeforeDispatch, ReserveRetry, Dispatch, ProviderReturns,
           SettleAttempt, SettleFailed, CancelDuringBackoff, BumpAttempt, FailCommand
  <2>2. ~(h > generation)
    BY <2>1 DEF FinishedInv
  <2>3. ASSUME generation' = generation, \A g \in Hosts : g # h => worker'[g] = worker[g],
               run'.state = run.state, Len(steps') = Len(steps),
               worker'[h].pc \in Stepped => worker[h].pc \in Stepped,
               worker'[h].result => worker[h].result \/ worker[h].pc \in Stepped
        PROVE  FinishedInv' /\ Stays
    BY <1>1, <2>2, <2>3 DEF FinishedInv, At
  <2>4. CASE Quietly(h)
    <3>1. generation' = generation /\ run' = run /\ worker[h].pc \in Stepped /\ steps' = steps
      BY <2>4, QuietMoves
         DEF Quietly, CancelBeforeDispatch, ReserveRetry, Dispatch, ProviderReturns, SettleAttempt, SettleFailed,
             CancelDuringBackoff, BumpAttempt, FailCommand, runVars
    <3> QED
      BY <2>3, <2>4, <3>1, QuietMoves
  <2>5. CASE EnqueueCommand(h)
    <3>1. /\ generation' = generation /\ run' = run /\ steps' = steps
          /\ worker' = [worker EXCEPT ![h] = [worker[h] EXCEPT !.pc = "enqueued", !.command = Len(commands) + 1]]
      BY <2>5 DEF EnqueueCommand
    <3>2. worker'[h].pc = "enqueued" /\ worker'[h].result = worker[h].result
      BY <1>1, <3>1 DEF WorkerRecord
    <3> QED
      BY <1>1, <2>3, <3>1, <3>2 DEF Stepped, Commanded
  <2>6. CASE CompleteStep(h) \/ FailStep(h)
    <3>1. /\ generation' = generation /\ run' = run /\ worker[h].pc \in Stepped
          /\ \A g \in Hosts : g # h => worker'[g] = worker[g]
      BY <1>1, <2>6 DEF CompleteStep, FailStep, Go, At, Stepped, Commanded
    <3>2. Len(steps') = Len(steps)
      BY <1>1, <2>6, StepRowWritten DEF CompleteStep, FailStep, Failure
    <3> QED
      BY <2>3, <3>1, <3>2
  <2>7. CASE FreezeStep(h)
    <3>1. /\ run.state = "running" /\ run' = [run EXCEPT !.revision = @ + 1] /\ generation' = generation
          /\ \A g \in Hosts : g # h => worker'[g] = worker[g]
      BY <1>1, <2>7 DEF FreezeStep
    <3>2. run'.state = "running"
      BY <1>1, <3>1
    <3> QED
      BY <1>1, <2>2, <3>1, <3>2 DEF FinishedInv, At, Terminal
  <2>8. CASE Returns(h)
    <3>1. /\ \A g \in Hosts : g # h => worker'[g] = worker[g]
          /\ worker'[h].pc \notin Commanded /\ steps' = steps /\ generation' = generation
      BY <2>8, ReturnMoves DEF Returns, ClaimRun, FailRun, EndTurn, CallAborts
    <3>2. ~worker'[h].result
      <4>1. PICK w : worker' = [worker EXCEPT ![h] = w] /\ ~w.result
        <5>1. CASE ClaimRun(h)
          <6>1. ~[NoWorker EXCEPT !.pc = "claimed", !.revision = run'.revision].result
            BY DEF NoWorker
          <6> QED
            BY <5>1, <6>1 DEF ClaimRun
        <5>2. CASE EndTurn(h)
          <6>1. ~[worker[h] EXCEPT !.result = FALSE].result
            BY <1>1 DEF WorkerRecord
          <6> QED
            BY <5>2, <6>1 DEF EndTurn
        <5>3. CASE FailRun(h) \/ CallAborts(h)
          <6>1. ~[NoWorker EXCEPT !.pc = "idle"].result /\ ~[NoWorker EXCEPT !.pc = "gone"].result
            BY DEF NoWorker
          <6>2. \/ worker' = [worker EXCEPT ![h] = [NoWorker EXCEPT !.pc = "idle"]]
                \/ worker' = [worker EXCEPT ![h] = [NoWorker EXCEPT !.pc = "gone"]]
            BY <5>3 DEF FailRun, CallAborts
          <6> QED
            BY <6>1, <6>2
        <5> QED
          BY <2>8, <5>1, <5>2, <5>3 DEF Returns
      <4> QED
        BY <1>1, <4>1
    <3>3. run'.state = run.state \/ h = generation
      BY <1>1, <2>8 DEF Returns, ClaimRun, FailRun, EndTurn, CallAborts, FinishRun, Fenced, runVars
    <3>4. FinishedInv'
      BY <1>1, <2>2, <3>1, <3>2, <3>3 DEF FinishedInv, At, Stepped
    <3>5. Stays
      <4>1. SUFFICES ASSUME run.state \in Terminal PROVE run'.state = run.state
        BY <3>1
      <4>2. CASE ClaimRun(h)
        BY <4>1, <4>2 DEF ClaimRun, Terminal
      <4>3. CASE CallAborts(h)
        BY <4>3 DEF CallAborts, runVars
      <4>4. CASE EndTurn(h)
        BY <4>1, <4>4 DEF EndTurn, FinishRun, Fenced, FinishedInv
      <4>5. CASE FailRun(h)
        BY <4>1, <4>5 DEF FailRun, FinishRun, Fenced, FinishedInv, At, Stepped, Commanded
      <4> QED
        BY <2>8, <4>2, <4>3, <4>4, <4>5 DEF Returns
    <3> QED
      BY <3>4, <3>5
  <2> QED
    BY <1>5, <2>4, <2>5, <2>6, <2>7, <2>8 DEF CallStep, Quietly, Returns
<1> QED
  BY <1>2, <1>3, <1>4, <1>5 DEF StepNext

(* A finished run is finished, by whatever host and in whatever order: its  *)
(* state stays, and it gets no further step (finish_run, freeze_run_step).  *)
THEOREM FinishedRunsStay == StepSpec => FinishedRunStays
<1>1. CallInv /\ FinishedInv /\ [StepNext]_stepVars => FinishedInv'
  BY FinishedStep
<1>2. CallInv /\ FinishedInv /\ [StepNext]_stepVars =>
         [run.state \in Terminal => run'.state = run.state /\ Len(steps') = Len(steps)]_stepVars
  BY FinishedStep
<1> QED
  BY <1>1, <1>2, FinishedInvInit, FullInvHolds, PTL DEF StepSpec, FullInv, FinishedRunStays

(* No run, by however many hosts, takes an account past its limit            *)
(* (freeze_run_step, reserve_budget).                                        *)
THEOREM RunsStayWithinLimits == StepSpec => []WithinLimit
<1>1. CallInv => WithinLimit
  BY DEF CallInv, BudgetInv
<1> QED
  BY <1>1, FullInvHolds, PTL DEF FullInv

(* Nor do they lose a token: what the account of a run shows as spent is    *)
(* what its calls and the other operations on it cost together, whatever is *)
(* retried, settled late or taken over (freeze_run_step,                    *)
(* settle_reservation_in_tx).                                               *)
THEOREM RunsKeepTheBooks == StepSpec => []LedgerBalanced
<1>1. StepInit => MadeOnOpenAccounts /\ BooksBalance
  <2> SUFFICES ASSUME StepInit PROVE MadeOnOpenAccounts /\ BooksBalance
    OBVIOUS
  <2>1. MadeOnOpenAccounts
    BY DEF StepInit, AccountOpened, MadeOnOpenAccounts, NoReservation
  <2>2. \A a \in Accounts : SpentOnBehalfOf(a) = {} /\ spent[a] = 0
    BY DEF StepInit, AccountOpened, SpentOnBehalfOf, NoReservation
  <2> QED BY <2>1, <2>2, FS_EmptySet DEF BooksBalance
<1>2. CallInv /\ MadeOnOpenAccounts /\ BooksBalance /\ [StepNext]_stepVars => (MadeOnOpenAccounts /\ BooksBalance)'
  BY LedgerStep, BooksInvStep DEF BooksInv, CallInv
<1>3. MadeOnOpenAccounts /\ BooksBalance => LedgerBalanced
  BY DEF BooksBalance, LedgerBalanced
<1> QED
  BY <1>1, <1>2, <1>3, FullInvHolds, PTL DEF StepSpec, FullInv
=============================================================================
