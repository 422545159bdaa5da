---------------------------- MODULE ExtensionHost ---------------------------
(***************************************************************************)
(* The host's record of one extension (harness-extensions host.rs): loads, *)
(* unloads with and without a drain, and reloads, over a slot, a registry  *)
(* and the remembered generation that each have a lock of their own, and   *)
(* the leases on the process.  Transports are seen as alive or dead.       *)
(***************************************************************************)
EXTENDS Naturals, FiniteSets

CONSTANTS
    Workers,        \* operations on the extension
    Kinds,          \* what they may be: "load", "reload", "unload", "drain"
    Holders,        \* consumers with leases
    Capabilities,
    NoProcess

ASSUME HostAssumption ==
    /\ Kinds \subseteq {"load", "reload", "unload", "drain"} /\ IsFiniteSet(Holders) /\ Capabilities # {} /\ NoProcess \notin Nat

VARIABLES
    slot,           \* the extension's slot, or NoSlot
    registry,       \* the process whose token a capability is registered under
    source,         \* the remembered generation, 0 when there is none
    processes,      \* how many were started
    alive,          \* the transports that are not dead
    op,             \* each operation
    holder,         \* each consumer
    activated,      \* the greatest generation of a load that was active
    overlapped,     \* whether two operations were under way together
    replaced        \* whether an extension that was active was loaded

hostVars == <<slot, registry, source, processes, alive, op, holder, activated, overlapped, replaced>>

NoSlot == [gen |-> 0, proc |-> NoProcess, listed |-> FALSE]
NoOp == [pc |-> "none", kind |-> NoProcess, gen |-> 0, proc |-> NoProcess, was |-> 0]
NoLease == [pc |-> "none", gen |-> 0, proc |-> NoProcess]

HostInit ==
    /\ slot = NoSlot /\ registry = [c \in Capabilities |-> NoProcess] /\ source = 0 /\ processes = 0 /\ alive = {}
    /\ op = [w \in Workers |-> NoOp] /\ holder = [h \in Holders |-> NoLease] /\ activated = 0
    /\ overlapped = FALSE /\ replaced = FALSE

MaxOf(a, b) == IF a >= b THEN a ELSE b
Under(w) == op[w].pc \notin {"none", "active", "inactive", "done"}

(* A process nobody refers to is killed with its handle.                    *)
Referred(p) == \E h \in Holders : holder[h].proc = p
Dropped(p) == IF Referred(p) THEN alive ELSE alive \ {p}

-----------------------------------------------------------------------------
Begin(w, kind) ==
    /\ op[w].pc = "none" /\ (kind = "reload" => slot.listed \/ source > 0)
    /\ op' = [op EXCEPT ![w] = [NoOp EXCEPT !.pc = IF kind = "load" THEN "load" ELSE "take", !.kind = kind,
                                            !.was = IF slot.listed THEN slot.gen ELSE source]]
    /\ overlapped' = (overlapped \/ \E v \in Workers : Under(v))
    /\ replaced' = (replaced \/ (kind = "load" /\ slot.proc # NoProcess))
    /\ UNCHANGED <<slot, registry, source, processes, alive, holder, activated>>

(* remember_inactive: the slot is overwritten, what it had is dropped, and  *)
(* its registrations are nobody's; or nothing, when somebody has the lock.  *)
RememberInactive ==
    \/ slot' = [gen |-> IF slot.listed THEN slot.gen ELSE 1, proc |-> NoProcess, listed |-> TRUE]
    \/ UNCHANGED slot

Refused(w, procs) ==
    /\ RememberInactive /\ op' = [op EXCEPT ![w].pc = "inactive", ![w].proc = NoProcess]
    /\ alive' = IF slot' # slot /\ slot.proc # NoProcess THEN Dropped(slot.proc) \ procs ELSE alive \ procs

(* load without a grant that covers the manifest.                           *)
LoadUntrusted(w) ==
    /\ op[w].pc = "load" /\ Refused(w, {})
    /\ UNCHANGED <<registry, source, processes, holder, activated, overlapped, replaced>>

(* next_generation.                                                         *)
NextGeneration == MaxOf(slot.gen, source) + 1

LoadTrusted(w) ==
    /\ op[w].pc = "load" /\ op' = [op EXCEPT ![w].pc = "connect", ![w].gen = NextGeneration]
    /\ UNCHANGED <<slot, registry, source, processes, alive, holder, activated, overlapped, replaced>>

Connect(w) ==
    /\ op[w].pc = "connect" /\ processes' = processes + 1 /\ alive' = alive \cup {processes + 1}
    /\ op' = [op EXCEPT ![w].pc = "register", ![w].proc = processes + 1]
    /\ UNCHANGED <<slot, registry, source, holder, activated, overlapped, replaced>>

(* The handshake is refused, or the process never starts.                   *)
ConnectFails(w) ==
    /\ op[w].pc = "connect" /\ Refused(w, {})
    /\ UNCHANGED <<registry, source, processes, holder, activated, overlapped, replaced>>

(* All capabilities or, when one is taken, none.                            *)
RegisterAll(w) ==
    /\ op[w].pc = "register"
    /\ IF \A c \in Capabilities : registry[c] = NoProcess
       THEN /\ registry' = [c \in Capabilities |-> op[w].proc] /\ op' = [op EXCEPT ![w].pc = "insert"]
            /\ UNCHANGED <<slot, alive>>
       ELSE Refused(w, {op[w].proc}) /\ UNCHANGED registry
    /\ UNCHANGED <<source, processes, holder, activated, overlapped, replaced>>

(* The slot is published, and with it the process a lease can reach; the    *)
(* one it replaces is retired after that.                                   *)
Insert(w) ==
    /\ op[w].pc = "insert" /\ slot' = [gen |-> op[w].gen, proc |-> op[w].proc, listed |-> TRUE]
    /\ op' = [op EXCEPT ![w].pc = "retire", ![w].proc = slot.proc] /\ activated' = MaxOf(activated, op[w].gen)
    /\ UNCHANGED <<registry, source, processes, alive, holder, overlapped, replaced>>

Retire(w) ==
    /\ op[w].pc = "retire" /\ alive' = alive \ {op[w].proc} /\ op' = [op EXCEPT ![w].pc = "remember", ![w].proc = NoProcess]
    /\ UNCHANGED <<slot, registry, source, processes, holder, activated, overlapped, replaced>>

(* The source is remembered; a reload that is not newer is called inactive. *)
Remember(w) ==
    /\ op[w].pc = "remember" /\ source' = op[w].gen
    /\ op' = [op EXCEPT ![w].pc = IF op[w].kind = "reload" /\ op[w].was > 0 /\ op[w].gen <= op[w].was THEN "inactive" ELSE "active"]
    /\ UNCHANGED <<slot, registry, processes, alive, holder, activated, overlapped, replaced>>

-----------------------------------------------------------------------------
(* unload, unload_draining, and the first half of reload.                   *)

TakeSlot(w) ==
    /\ op[w].pc = "take" /\ slot' = NoSlot
    /\ op' = [op EXCEPT ![w].pc = IF slot.listed THEN "undo" ELSE IF op[w].kind = "reload" THEN "load" ELSE "done",
                        ![w].proc = slot.proc, ![w].gen = slot.gen]
    /\ UNCHANGED <<registry, source, processes, alive, holder, activated, overlapped, replaced>>

(* A mutant: the registrations stay.                                        *)
UndoNone(w) ==
    /\ op[w].pc = "undo" /\ op' = [op EXCEPT ![w].pc = IF op[w].kind = "drain" THEN "wait" ELSE "stop"]
    /\ UNCHANGED <<slot, registry, source, processes, alive, holder, activated, overlapped, replaced>>

UndoTokens(w) ==
    /\ op[w].pc = "undo" /\ op' = [op EXCEPT ![w].pc = IF op[w].kind = "drain" THEN "wait" ELSE "stop"]
    /\ registry' = [c \in Capabilities |-> IF registry[c] = op[w].proc THEN NoProcess ELSE registry[c]]
    /\ UNCHANGED <<slot, source, processes, alive, holder, activated, overlapped, replaced>>

OnIt(p) == {h \in Holders : holder[h].pc = "calling" /\ holder[h].proc = p}

(* The drain ends: every call has, or its time is over.                     *)
DrainOver(w) ==
    /\ op[w].pc = "wait" /\ op' = [op EXCEPT ![w].pc = "stop"]
    /\ UNCHANGED <<slot, registry, source, processes, alive, holder, activated, overlapped, replaced>>

(* The process is terminated and the calls on it are uncertain.             *)
Stop(w) ==
    /\ op[w].pc = "stop" /\ alive' = alive \ {op[w].proc}
    /\ op' = [op EXCEPT ![w].pc = IF op[w].kind = "reload" THEN "load" ELSE "done"]
    /\ holder' = [h \in Holders |-> IF h \in OnIt(op[w].proc) THEN [holder[h] EXCEPT !.pc = "cut"] ELSE holder[h]]
    /\ UNCHANGED <<slot, registry, source, processes, activated, overlapped, replaced>>

-----------------------------------------------------------------------------
(* The consumers.                                                           *)

Lease(h) ==
    /\ holder[h].pc = "none" /\ slot.proc # NoProcess
    /\ holder' = [holder EXCEPT ![h] = [pc |-> "held", gen |-> slot.gen, proc |-> slot.proc]]
    /\ UNCHANGED <<slot, registry, source, processes, alive, op, activated, overlapped, replaced>>

(* is_valid.                                                                *)
IsValid(h) == holder[h].proc \in alive /\ slot.proc # NoProcess /\ slot.gen = holder[h].gen

LeaseCheck(h) ==
    /\ holder[h].pc = "held" /\ holder' = [holder EXCEPT ![h].pc = IF IsValid(h) THEN "valid" ELSE "stale"]
    /\ UNCHANGED <<slot, registry, source, processes, alive, op, activated, overlapped, replaced>>

(* The call, after the check.                                               *)
LeaseCall(h) ==
    /\ holder[h].pc = "valid" /\ holder' = [holder EXCEPT ![h].pc = IF holder[h].proc \in alive THEN "calling" ELSE "stale"]
    /\ UNCHANGED <<slot, registry, source, processes, alive, op, activated, overlapped, replaced>>

CallSettles(h) ==
    /\ holder[h].pc = "calling" /\ holder' = [holder EXCEPT ![h].pc = "held"]
    /\ UNCHANGED <<slot, registry, source, processes, alive, op, activated, overlapped, replaced>>

(* The process dies by itself; the slot keeps it.                           *)
ProcessDies(p) ==
    /\ p \in alive /\ alive' = alive \ {p}
    /\ holder' = [h \in Holders |-> IF h \in OnIt(p) THEN [holder[h] EXCEPT !.pc = "held"] ELSE holder[h]]
    /\ UNCHANGED <<slot, registry, source, processes, op, activated, overlapped, replaced>>

HostNext ==
    \/ \E w \in Workers :
          \/ \E kind \in Kinds : Begin(w, kind)
          \/ LoadUntrusted(w) \/ LoadTrusted(w) \/ Connect(w) \/ ConnectFails(w) \/ RegisterAll(w) \/ Insert(w)
          \/ Retire(w) \/ Remember(w) \/ TakeSlot(w) \/ UndoTokens(w) \/ DrainOver(w) \/ Stop(w)
    \/ \E h \in Holders : Lease(h) \/ LeaseCheck(h) \/ LeaseCall(h) \/ CallSettles(h)
    \/ \E p \in alive : ProcessDies(p)

HostSpec == HostInit /\ [][HostNext]_hostVars

-----------------------------------------------------------------------------
Procs == 1 .. processes

HostTypeOK ==
    /\ slot \in [gen : Nat, proc : Procs \cup {NoProcess}, listed : BOOLEAN] /\ alive \subseteq Procs
    /\ processes \in Nat
    /\ registry \in [Capabilities -> Procs \cup {NoProcess}] /\ source \in Nat /\ activated \in Nat
    /\ overlapped \in BOOLEAN /\ replaced \in BOOLEAN
    /\ op \in [Workers -> [pc : {"none", "load", "connect", "register", "insert", "retire", "remember", "take", "undo",
                                 "wait", "stop", "active", "inactive", "done"},
                           kind : Kinds \cup {NoProcess}, gen : Nat, proc : Procs \cup {NoProcess}, was : Nat]]
    /\ holder \in [Holders -> [pc : {"none", "held", "valid", "calling", "stale", "cut"}, gen : Nat, proc : Procs \cup {NoProcess}]]

(* "Activation is all or nothing": whoever is registered is the process of  *)
(* the slot, or of an operation that will publish or undo it, for else it   *)
(* "would refuse every later load of the same plugin".  It holds while      *)
(* operations do not overlap and what is active is not loaded again.        *)
RegisteredIsOwned ==
    ~overlapped /\ ~replaced =>
      \A c \in Capabilities : registry[c] # NoProcess =>
        \/ slot.proc = registry[c]
        \/ \E w \in Workers : op[w].proc = registry[c] /\ op[w].pc \in {"insert", "undo"}

(* And an extension that is published has all its capabilities.             *)
PublishedIsRegistered ==
    \A c \in Capabilities : slot.proc # NoProcess => registry[c] = slot.proc

(* A lease that is valid leads to the process that is published: "a stale   *)
(* handle cannot reach a replacement", nor what was replaced.  Overlapping  *)
(* operations can give two processes one generation, and then it may.       *)
ValidIsPublished ==
    ~overlapped => \A h \in Holders : holder[h].proc # NoProcess /\ IsValid(h) => holder[h].proc = slot.proc

(* "Reloading creates a new generation", strictly newer than any before,    *)
(* while operations do not overlap.                                         *)
GenerationsGrow == [][\A w \in Workers : Insert(w) /\ ~overlapped => op[w].gen > activated]_hostVars

(* What is registered, what is published and what a lease leads to are one  *)
(* process, of an ever newer generation (load, unload, reload).             *)
HostSafe ==
    /\ [](HostTypeOK /\ RegisteredIsOwned /\ PublishedIsRegistered /\ ValidIsPublished)
    /\ GenerationsGrow
=============================================================================
