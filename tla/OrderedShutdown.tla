--------------------------- MODULE OrderedShutdown --------------------------
(***************************************************************************)
(* The shutdown coordinator of the kernel (harness-kernel lib.rs): it      *)
(* closes consumers, then providers, then stores, each in the reverse of   *)
(* the order they were given in.  Several callers may ask for the shutdown *)
(* and one that waits may be dropped (a timeout).                          *)
(***************************************************************************)
EXTENDS Naturals, Sequences

CONSTANTS
    N,              \* the items are 1..N, in the order they were given
    Callers,        \* calls of shutdown
    DroppedCallers, \* the calls that may be dropped while they wait
    Nobody

ASSUME ShutdownAssumption ==
    N \in Nat \ {0} /\ DroppedCallers \subseteq Callers /\ Nobody \notin Callers \cup {"set"} /\ "set" \notin Callers

VARIABLES
    phase,          \* of each item
    shutDown, joined,
    progress,       \* the report so far: steps that returned, with their outcome
    cell,           \* completion: nobody, the caller that initialises it, or "set"
    completion,     \* what the cell holds
    caller,         \* what each caller does
    told,           \* the report each caller was given
    tries           \* how often the shutdown of each item was begun

shutdownVars == <<phase, shutDown, joined, progress, cell, completion, caller, told, tries>>

Items == 1 .. N
Consumer == 1
Provider == 2
Store == 3
Phases == {Consumer, Provider, Store}

ShutdownInit ==
    /\ phase \in [Items -> Phases] /\ shutDown = {} /\ joined = {} /\ progress = <<>>
    /\ cell = Nobody /\ completion = <<>> /\ caller = [c \in Callers |-> "none"]
    /\ told = [c \in Callers |-> <<>>] /\ tries = [i \in Items |-> 0]

(* A mutant: the phases are not told apart.                                 *)
LaterFirst(i, j) == i >= j

(* The order of the loops: by phase, and backwards in each.                 *)
ClosesBefore(i, j) == phase[i] < phase[j] \/ (phase[i] = phase[j] /\ i >= j)

(* The items the loops do not pass over, and the one they come to first.    *)
Todo == Items \ (shutDown \cap joined)
Current == CHOOSE i \in Todo : \A j \in Todo : ClosesBefore(i, j)

Call(c) ==
    /\ caller[c] = "none" /\ caller' = [caller EXCEPT ![c] = "cell"]
    /\ UNCHANGED <<phase, shutDown, joined, progress, cell, completion, told, tries>>

(* completion.get_or_init: one caller initialises, the others wait.         *)
Enter(c) ==
    /\ caller[c] = "cell" /\ cell = Nobody /\ cell' = c /\ caller' = [caller EXCEPT ![c] = "loop"]
    /\ UNCHANGED <<phase, shutDown, joined, progress, completion, told, tries>>

ReadCell(c) ==
    /\ caller[c] = "cell" /\ cell = "set" /\ told' = [told EXCEPT ![c] = completion]
    /\ caller' = [caller EXCEPT ![c] = "done"]
    /\ UNCHANGED <<phase, shutDown, joined, progress, cell, completion, tries>>

(* The next item: its shutdown is called, or its join when an earlier       *)
(* caller was dropped between the two.                                      *)
BeginItem(c) ==
    /\ caller[c] = "loop" /\ Todo # {}
    /\ IF Current \in shutDown
       THEN caller' = [caller EXCEPT ![c] = "joining"] /\ UNCHANGED tries
       ELSE caller' = [caller EXCEPT ![c] = "shutting"] /\ tries' = [tries EXCEPT ![Current] = @ + 1]
    /\ UNCHANGED <<phase, shutDown, joined, progress, cell, completion, told>>

Step(step, i, ok) == [step |-> step, item |-> i, ok |-> ok]

(* The shutdown of an item returns, in order or with an error: it is        *)
(* recorded, the item is marked and its join is called.                     *)
ShutdownReturns(c) ==
    /\ caller[c] = "shutting" /\ \E ok \in BOOLEAN : progress' = Append(progress, Step("shutdown", Current, ok))
    /\ shutDown' = shutDown \cup {Current} /\ caller' = [caller EXCEPT ![c] = "joining"]
    /\ UNCHANGED <<phase, joined, cell, completion, told, tries>>

JoinReturns(c) ==
    /\ caller[c] = "joining" /\ \E ok \in BOOLEAN : progress' = Append(progress, Step("join", Current, ok))
    /\ joined' = joined \cup {Current} /\ caller' = [caller EXCEPT ![c] = "loop"]
    /\ UNCHANGED <<phase, shutDown, cell, completion, told, tries>>

(* The loops are through: the cell is set to the progress.                  *)
Complete(c) ==
    /\ caller[c] = "loop" /\ Todo = {} /\ cell' = "set" /\ completion' = progress
    /\ told' = [told EXCEPT ![c] = progress] /\ caller' = [caller EXCEPT ![c] = "done"]
    /\ UNCHANGED <<phase, shutDown, joined, progress, tries>>

(* A caller is dropped where it awaits; what it did not record is lost, and *)
(* the cell is free for the next.                                           *)
DropCaller(c) ==
    /\ c \in DroppedCallers /\ caller[c] \in {"cell", "shutting", "joining"}
    /\ caller' = [caller EXCEPT ![c] = "dropped"] /\ cell' = IF cell = c THEN Nobody ELSE cell
    /\ UNCHANGED <<phase, shutDown, joined, progress, completion, told, tries>>

CallerStep(c) ==
    \/ Enter(c) \/ ReadCell(c) \/ BeginItem(c) \/ ShutdownReturns(c) \/ JoinReturns(c) \/ Complete(c)

ShutdownNext == \E c \in Callers : Call(c) \/ CallerStep(c) \/ DropCaller(c)

(* The shutdown and the join of a resource return, and a caller is polled   *)
(* when it can go on.                                                       *)
ShutdownSpec ==
    ShutdownInit /\ [][ShutdownNext]_shutdownVars /\ \A c \in Callers : WF_shutdownVars(CallerStep(c))

-----------------------------------------------------------------------------
ShutdownTypeOK ==
    /\ phase \in [Items -> Phases] /\ shutDown \subseteq Items /\ joined \subseteq shutDown
    /\ progress \in Seq([step : {"shutdown", "join"}, item : Items, ok : BOOLEAN])
    /\ completion \in Seq([step : {"shutdown", "join"}, item : Items, ok : BOOLEAN])
    /\ cell \in Callers \cup {Nobody, "set"} /\ tries \in [Items -> Nat]
    /\ caller \in [Callers -> {"none", "cell", "loop", "shutting", "joining", "done", "dropped"}]
    /\ told \in [Callers -> {<<>>, completion}]

(* Consumers drain before providers and storage is final ("Consumers must   *)
(* drain before providers; storage is always final"), through whatever      *)
(* callers were dropped on the way: when the shutdown of an item is called  *)
(* every item of an earlier phase has been joined, and every later one of   *)
(* its own phase.                                                           *)
StoreIsFinal ==
    \A c \in Callers : caller[c] = "shutting" =>
        \A i \in Items : \/ phase[i] < phase[Current]
                         \/ phase[i] = phase[Current] /\ i > Current
                         => i \in joined

(* "A resource that already finished closing is not closed again, and the   *)
(* report it produced is kept": every step has one line in the report, of   *)
(* the items that took it, whoever took it.                                 *)
EachStepOnce ==
    /\ \A p, q \in DOMAIN progress :
          progress[p].step = progress[q].step /\ progress[p].item = progress[q].item => p = q
    /\ shutDown = {progress[p].item : p \in {q \in DOMAIN progress : progress[q].step = "shutdown"}}
    /\ joined = {progress[p].item : p \in {q \in DOMAIN progress : progress[q].step = "join"}}

(* The shutdown of an item that returned is not called again.               *)
NotClosedAgain == [][\A i \in shutDown : tries'[i] = tries[i]]_shutdownVars

(* Every caller that is told is told of the shutdown and the join of every  *)
(* item.                                                                    *)
ToldOfAll ==
    \A c \in Callers : caller[c] = "done" =>
        Len(told[c]) = 2 * N /\ told[c] = completion

(* Every caller that is not dropped is told, through the drop of the one    *)
(* that was closing.                                                        *)
EveryCallerIsTold == \A c \in Callers : caller[c] = "cell" ~> caller[c] \in {"done", "dropped"}

(* A shutdown keeps its order, does every step once and tells a caller of   *)
(* all, whichever callers are dropped on the way (ShutdownCoordinator).     *)
ShutdownIsOrdered ==
    /\ [](ShutdownTypeOK /\ StoreIsFinal /\ EachStepOnce /\ ToldOfAll)
    /\ NotClosedAgain
=============================================================================
