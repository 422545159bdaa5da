--------------------------- MODULE ScopedRegistry ---------------------------
(***************************************************************************)
(* The scoped service registry of the kernel (harness-kernel lib.rs):      *)
(* scopes form trees, a scope registers a service once, a lookup walks to  *)
(* the nearest ancestor that has it, and a token undoes the registration   *)
(* it was given for, however late it comes.                                *)
(***************************************************************************)
EXTENDS Naturals, FiniteSets

CONSTANTS
    Scopes, Services,
    Instances,      \* plugin instances, each in a generation
    MaxId,          \* bound: registrations
    Nothing

Tokens == [registration : 1 .. MaxId, instance : Instances, scope : Scopes, service : Services]

ASSUME RegistryAssumption == MaxId \in Nat /\ IsFiniteSet(Scopes) /\ Nothing \notin Scopes \cup Tokens

VARIABLES
    parents,        \* the scopes that exist, with their parent or Nothing
    registrations,  \* the token registered for a scope and a service
    nextId,         \* next_registration_id
    tokens,         \* the tokens that were given out
    undone          \* the tokens undo was called with

registryVars == <<parents, registrations, nextId, tokens, undone>>

Put(f, k, v) == [x \in DOMAIN f \cup {k} |-> IF x = k THEN v ELSE f[x]]
Without(f, k) == [x \in DOMAIN f \ {k} |-> f[x]]

RegistryInit ==
    parents = [s \in {} |-> Nothing] /\ registrations = [k \in {} |-> Nothing] /\ nextId = 0 /\ tokens = {} /\ undone = {}

(* add_root and add_scope: the parent exists, the scope does not yet.       *)
AddScope(s, parent) ==
    /\ parent \in DOMAIN parents \cup {Nothing} /\ s \notin DOMAIN parents
    /\ parents' = Put(parents, s, parent) /\ UNCHANGED <<registrations, nextId, tokens, undone>>

Token(s, service, instance) ==
    [registration |-> nextId + 1, instance |-> instance, scope |-> s, service |-> service]

Register(s, service, instance) ==
    /\ nextId < MaxId /\ s \in DOMAIN parents /\ <<s, service>> \notin DOMAIN registrations
    /\ registrations' = Put(registrations, <<s, service>>, Token(s, service, instance))
    /\ nextId' = nextId + 1 /\ tokens' = tokens \cup {Token(s, service, instance)}
    /\ UNCHANGED <<parents, undone>>

(* A mutant: whose registration it is decides, not which one.               *)
OwnsByInstance(t) ==
    /\ <<t.scope, t.service>> \in DOMAIN registrations
    /\ registrations[<<t.scope, t.service>>].instance = t.instance

(* The token is the one that is registered.                                 *)
Owns(t) ==
    /\ <<t.scope, t.service>> \in DOMAIN registrations
    /\ registrations[<<t.scope, t.service>>] = t

(* undo, of a token that may have been undone before.                       *)
Undo(t) ==
    /\ t \in tokens /\ undone' = undone \cup {t}
    /\ registrations' = IF Owns(t) THEN Without(registrations, <<t.scope, t.service>>) ELSE registrations
    /\ UNCHANGED <<parents, nextId, tokens>>

(* lookup: the walk of the parents that stops at the first registration;    *)
(* one step of its loop, and all of them: at most one for each scope.       *)
LookUpwards(w, service) ==
    LET key == <<w.at, service>>
    IN IF w.found # Nothing \/ w.at = Nothing THEN w
       ELSE IF key \in DOMAIN registrations THEN [w EXCEPT !.found = registrations[key]]
       ELSE [w EXCEPT !.at = IF w.at \in DOMAIN parents THEN parents[w.at] ELSE Nothing]

Lookup(s, service) ==
    LET walk[n \in 0 .. Cardinality(Scopes)] ==
            IF n = 0 THEN [at |-> s, found |-> Nothing] ELSE LookUpwards(walk[n - 1], service)
    IN walk[Cardinality(Scopes)].found

RegistryNext ==
    \/ \E s \in Scopes, parent \in Scopes \cup {Nothing} : AddScope(s, parent)
    \/ \E s \in Scopes, v \in Services, i \in Instances : Register(s, v, i)
    \/ \E t \in tokens : Undo(t)

RegistrySpec == RegistryInit /\ [][RegistryNext]_registryVars

-----------------------------------------------------------------------------
RegistryTypeOK ==
    /\ DOMAIN parents \subseteq Scopes /\ \A s \in DOMAIN parents : parents[s] \in DOMAIN parents \cup {Nothing}
    /\ nextId \in 0 .. MaxId /\ tokens \subseteq Tokens /\ undone \subseteq tokens
    /\ \A k \in DOMAIN registrations :
          registrations[k] \in tokens /\ k = <<registrations[k].scope, registrations[k].service>> /\ k[1] \in DOMAIN parents

(* A scope and who is above it: the least set that holds it and the parents *)
(* of its members.                                                          *)
Upwards(S) == \A x \in S : x \in DOMAIN parents /\ parents[x] # Nothing => parents[x] \in S

Ancestors(s) == {a \in Scopes : \A S \in SUBSET Scopes : s \in S /\ Upwards(S) => a \in S}

(* The parent chain of every scope ends ("after which lookup walked the     *)
(* parent chain forever"): no scope is an ancestor of another that is its   *)
(* ancestor.                                                                *)
ScopesAreTrees == \A s \in DOMAIN parents : parents[s] # Nothing => s \notin Ancestors(parents[s])

(* A lookup gives the registration of the nearest ancestor that has one,    *)
(* and none when no ancestor has one: no sibling and no child is visible.   *)
LookupIsNearest ==
    \A s \in Scopes, v \in Services :
        LET with == {a \in Ancestors(s) : <<a, v>> \in DOMAIN registrations}
        IN IF with = {} THEN Lookup(s, v) = Nothing
           ELSE \E a \in with : /\ Lookup(s, v) = registrations[<<a, v>>]
                                /\ \A b \in with : b \in Ancestors(a)

(* "Late cleanup ... cannot remove a replacement with the same name": a     *)
(* registration whose token nobody has undone is there, whatever other      *)
(* tokens of the same name were undone meanwhile, and however often.        *)
KeptUntilUndone == \A t \in tokens \ undone : Owns(t)

(* No token is given out twice: one that was undone is never the token of a *)
(* later registration of the same name.                                     *)
EachTokenOnce == Cardinality(tokens) = nextId

(* The registry's scopes are trees, a lookup finds the nearest, and a late  *)
(* undo removes nothing that is not its own (ScopedRegistry).               *)
RegistryInv == RegistryTypeOK /\ ScopesAreTrees /\ LookupIsNearest /\ KeptUntilUndone /\ EachTokenOnce
=============================================================================
