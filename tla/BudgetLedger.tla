---------------------------- MODULE BudgetLedger ----------------------------
(***************************************************************************)
(* The durable budget ledger of the runtime: a forest of token accounts,   *)
(* each with a limit, and one reservation per operation.  Every operation  *)
(* below is one SQLite transaction of harness-store-sqlite                 *)
(* (store/run.rs), reached through harness-runtime (control/budget.rs);    *)
(* an operation that returns an error rolls its transaction back and is a  *)
(* stuttering step here.                                                   *)
(*                                                                         *)
(* The revision columns of the two tables are compared and advanced inside *)
(* the transaction that read them, so they cannot fail and are left out.   *)
(***************************************************************************)
EXTENDS Integers, FiniteSets

CONSTANTS
    Accounts,       \* budget ids
    Operations,     \* operation ids: the idempotency key of a reservation
    Tokens,         \* the token amounts a caller may name
    NoAccount       \* the parent of a root account

ASSUME BudgetAssumption ==
    /\ Tokens \subseteq Nat
    /\ NoAccount \notin Accounts

VARIABLES
    open,           \* the accounts that have a row in budget_accounts
    parent,         \* parent_budget_id of each open account
    limit,          \* limit_tokens
    spent,          \* spent_tokens
    reservation     \* the budget_reservations row of each operation

budgetVars == <<open, parent, limit, spent, reservation>>

(* A reservation row.  "none" is an operation without a row.  The state     *)
(* "expired" is parsed and never written by the code.                       *)
ReservationState == {"none", "reserved", "settled", "unknown", "released"}

NoReservation == [state |-> "none", budget |-> NoAccount, bound |-> 0, used |-> 0]

Reservation ==
    [state: ReservationState, budget: Accounts \cup {NoAccount}, bound: Nat, used: Nat]

Done(r) == r.state \in {"settled", "unknown", "released"}

(* What a reservation currently costs every account of its chain.           *)
Charge(r) ==
    CASE r.state \in {"reserved", "unknown"} -> r.bound
      [] r.state = "settled" -> r.used
      [] OTHER -> 0

(* An account and all of its ancestors: the least set that holds the        *)
(* account and is closed under parent, which is what the loop of            *)
(* charge_chain visits.                                                     *)
Chain(b) ==
    {a \in Accounts :
        \A S \in SUBSET Accounts :
            (/\ b \in S
             /\ \A x \in S : parent[x] # NoAccount => parent[x] \in S) => a \in S}

BudgetTypeOK ==
    /\ open \in SUBSET Accounts
    /\ parent \in [Accounts -> Accounts \cup {NoAccount}]
    /\ limit \in [Accounts -> Nat]
    /\ spent \in [Accounts -> Nat]
    /\ reservation \in [Operations -> Reservation]

BudgetInit ==
    /\ open = {}
    /\ parent = [a \in Accounts |-> NoAccount]
    /\ limit = [a \in Accounts |-> 0]
    /\ spent = [a \in Accounts |-> 0]
    /\ reservation = [o \in Operations |-> NoReservation]

-----------------------------------------------------------------------------
(* charge_chain: an increase is refused when any account of the chain would *)
(* pass its limit; a decrease when it would release more than was charged.  *)
(* An account that does not exist refuses the charge.                       *)
CanCharge(b, delta) ==
    /\ Chain(b) \subseteq open
    /\ \A a \in Chain(b) : /\ spent[a] + delta >= 0
                           /\ delta > 0 => spent[a] + delta <= limit[a]

(* A mutant: the limit is checked on the account itself and not on its       *)
(* ancestors.                                                               *)
ChargeLeafChecked(b, delta) ==
    /\ Chain(b) \subseteq open
    /\ spent[b] + delta >= 0
    /\ delta > 0 => spent[b] + delta <= limit[b]
    /\ spent' = [a \in Accounts |-> IF a \in Chain(b) THEN spent[a] + delta ELSE spent[a]]

ChargeChain(b, delta) ==
    /\ CanCharge(b, delta)
    /\ spent' = [a \in Accounts |-> IF a \in Chain(b) THEN spent[a] + delta ELSE spent[a]]

(* ensure_budget_account: the parent must exist, and so must all of its     *)
(* ancestors, none of which may be the new account.  An account that        *)
(* already exists keeps its row, whatever the caller asks for.              *)
EnsureAccount(a, p, max) ==
    /\ max > 0
    /\ a \notin open
    /\ p # NoAccount => p \in open /\ a \notin Chain(p)
    /\ open' = open \cup {a}
    /\ parent' = [parent EXCEPT ![a] = p]
    /\ limit' = [limit EXCEPT ![a] = max]
    /\ UNCHANGED <<spent, reservation>>

(* reserve_budget, and the reservation half of freeze_run_step: the row and *)
(* the charge of the whole chain commit together.  An operation that        *)
(* already has a row is not charged again.                                  *)
Reserve(o, b, bound) ==
    /\ bound > 0
    /\ reservation[o].state = "none"
    /\ ChargeChain(b, bound)
    /\ reservation' = [reservation EXCEPT ![o] =
                          [state |-> "reserved", budget |-> b, bound |-> bound, used |-> 0]]
    /\ UNCHANGED <<open, parent, limit>>

(* A mutant: the usage is settled on the account and not on its ancestors.   *)
SettleMeasuredLeafOnly(o, used) ==
    /\ reservation[o].state = "reserved"
    /\ CanCharge(reservation[o].budget, used - reservation[o].bound)
    /\ spent' = [spent EXCEPT ![reservation[o].budget] = @ + used - reservation[o].bound]
    /\ reservation' = [reservation EXCEPT ![o].state = "settled", ![o].used = used]
    /\ UNCHANGED <<open, parent, limit>>

(* settle_reservation_in_tx with a measured usage: the bound is replaced by *)
(* what was used.  A usage above the bound that no longer fits the chain is *)
(* refused and leaves the reservation standing.                             *)
SettleMeasured(o, used) ==
    /\ reservation[o].state = "reserved"
    /\ IF used = reservation[o].bound
         THEN UNCHANGED spent
         ELSE ChargeChain(reservation[o].budget, used - reservation[o].bound)
    /\ reservation' = [reservation EXCEPT ![o].state = "settled", ![o].used = used]
    /\ UNCHANGED <<open, parent, limit>>

(* settle_reservation_in_tx without a measured usage: the conservative      *)
(* bound stays charged.                                                     *)
SettleUnknown(o) ==
    /\ reservation[o].state = "reserved"
    /\ reservation' = [reservation EXCEPT ![o].state = "unknown"]
    /\ UNCHANGED <<open, parent, limit, spent>>

(* release_budget_reservation: an operation that never dispatched gives its *)
(* bound back; a reservation that is already done is returned as it is.     *)
Release(o) ==
    /\ reservation[o].state = "reserved"
    /\ ChargeChain(reservation[o].budget, -reservation[o].bound)
    /\ reservation' = [reservation EXCEPT ![o].state = "released"]
    /\ UNCHANGED <<open, parent, limit>>

BudgetNext ==
    \/ \E a \in Accounts, p \in Accounts \cup {NoAccount}, max \in Tokens : EnsureAccount(a, p, max)
    \/ \E o \in Operations, b \in Accounts, bound \in Tokens : Reserve(o, b, bound)
    \/ \E o \in Operations, used \in Tokens : SettleMeasured(o, used)
    \/ \E o \in Operations : SettleUnknown(o)
    \/ \E o \in Operations : Release(o)

BudgetSpec == BudgetInit /\ [][BudgetNext]_budgetVars

-----------------------------------------------------------------------------
(* No account, root or child, is ever charged past its limit: checking the  *)
(* chain and charging it is one transaction, so two reservations cannot     *)
(* over-admit an account together (charge_chain).                           *)
WithinLimit == \A a \in open : spent[a] <= limit[a]

(* The inductive invariant behind WithinLimit: an account without a row was *)
(* never charged, so it starts within its limit when it is opened, and a    *)
(* standing reservation names an account whose chain the settlement can     *)
(* still charge or release.                                                 *)
UnopenedIsUncharged == \A a \in Accounts \ open : spent[a] = 0

ReservedOnAccount ==
    \A o \in Operations : reservation[o].state = "reserved" => reservation[o].budget \in open

BudgetInv == BudgetTypeOK /\ WithinLimit /\ UnopenedIsUncharged /\ ReservedOnAccount

(* The books balance: what an account shows as spent is exactly what the    *)
(* reservations made on it and on its descendants cost together, through    *)
(* every order of reserve, settle and release (charge_chain,                *)
(* settle_reservation_in_tx, release_budget_reservation).  The sum is       *)
(* counted token by token: a reservation that costs n stands for n tokens.  *)
TokensOf(o) == {o} \X (1 .. Charge(reservation[o]))

SpentOnBehalfOf(a) ==
    UNION {TokensOf(o) : o \in {x \in Operations : reservation[x].state # "none" /\ a \in Chain(reservation[x].budget)}}

LedgerBalanced == \A a \in Accounts : spent[a] = Cardinality(SpentOnBehalfOf(a))

(* A reservation that was settled, released or left unknown never moves     *)
(* again: settling it a second time with other numbers is refused rather    *)
(* than charged twice (settle_reservation_in_tx, the already_done branch).  *)
DoneIsFinal ==
    [][\A o \in Operations : Done(reservation[o]) => reservation'[o] = reservation[o]]_budgetVars
=============================================================================
