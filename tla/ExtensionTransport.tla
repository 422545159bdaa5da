------------------------- MODULE ExtensionTransport -------------------------
(***************************************************************************)
(* The host's side of one extension process (harness-extensions            *)
(* transport.rs): calls routed by identifier over a pipe, the task that    *)
(* reads the answers, deadlines, cancels with a grace window, dropped      *)
(* calls, and the end of the process.  The plugin answers what it was      *)
(* asked, in any order, late, twice or never, calls back, crashes, and may *)
(* stop reading its input: then a write waits for room with no deadline,   *)
(* and it waits with the lock that every other write needs.                *)
(***************************************************************************)
EXTENDS Naturals, Sequences, FiniteSets

CONSTANTS
    Calls,          \* calls, each under an identifier of its own
    LeaseCalls,     \* the calls of ExtensionLease::call, which makes its identifier up
    Large,          \* the calls whose frame is larger than a pipe holds
    Cancelers,      \* calls of cancel_call
    MaxInflight,    \* MAX_INFLIGHT_CALLS
    Faults,         \* what happens: "deadline", "drop", "crash", "shutdown", "grace"
    PipeFrames,     \* bound: frames a pipe holds
    MaxMessages,    \* bound: calls the plugin makes to the host, and answers it repeats
    None

ASSUME TransportAssumption ==
    /\ LeaseCalls \cup Large \subseteq Calls /\ MaxInflight \in Nat /\ PipeFrames \in Nat \ {0} /\ MaxMessages \in Nat
    /\ Faults \subseteq {"deadline", "drop", "crash", "shutdown", "grace"}
    /\ IsFiniteSet(Calls) /\ None \notin Calls \cup Nat /\ Calls \cap Nat = {}

VARIABLES
    call,           \* each call: where it is, its identifier, what its channel holds, how it ended
    pending,        \* the call whose channel an identifier leads to
    inflight, dead,
    writer,         \* who holds the lock of the plugin's input
    stdin, stdout,
    process,        \* "up" or "gone"
    asked,          \* the calls the plugin has not answered
    messages,       \* how often the plugin called the host or repeated an answer
    reader,         \* the task that reads the output
    cancel,         \* each cancel_call
    closer,         \* shutdown
    drained,        \* whether somebody has settled all that was pending
    faulted         \* whether anything went wrong

transportVars ==
    <<call, pending, inflight, dead, writer, stdin, stdout, process, asked, messages, reader, cancel, closer, drained, faulted>>
pluginVars == <<asked, messages>>
pipeVars == <<stdin, stdout>>

(* What the channel of a call holds.                                        *)
Open == [kind |-> "open", of |-> None]
Closed == [kind |-> "closed", of |-> None]
Uncertain == [kind |-> "uncertain", of |-> None]
Reply == [what |-> "reply", of |-> None]

TransportInit ==
    /\ call = [c \in Calls |-> [pc |-> "none", id |-> None, got |-> Open, outcome |-> "none"]]
    /\ pending = [i \in {} |-> None] /\ inflight = 0 /\ dead = FALSE /\ writer = None
    /\ stdin = <<>> /\ stdout = <<>> /\ process = "up" /\ asked = {} /\ messages = 0 /\ reader = "read"
    /\ cancel = [k \in Cancelers |-> [pc |-> "none", of |-> None]] /\ closer = "none" /\ drained = FALSE /\ faulted = FALSE

Without(i) == [x \in DOMAIN pending \ {i} |-> pending[x]]
Nothing == [x \in {} |-> None]
IsPending(i) == i \in DOMAIN pending

(* Every call that is pending, but that of the identifier i, gets what is   *)
(* known of it; the channel of i is dropped.                                *)
Drained(f, i) ==
    [c \in Calls |->
        IF \E x \in DOMAIN pending : pending[x] = c
        THEN [f[c] EXCEPT !.got = IF pending[f[c].id] = c /\ f[c].id = i THEN Closed ELSE Uncertain]
        ELSE f[c]]

Unlocked(w) == IF writer = w THEN None ELSE writer

-----------------------------------------------------------------------------
(* A call.                                                                  *)

(* The identifier is made before the call is counted.                       *)
Choose(c) ==
    /\ call[c].pc = "none"
    /\ call' = [call EXCEPT ![c].pc = "chosen", ![c].id = IF c \in LeaseCalls THEN inflight ELSE c]
    /\ UNCHANGED <<pending, inflight, dead, writer, pipeVars, process, pluginVars, reader, cancel, closer, drained, faulted>>

Admit(c) ==
    /\ call[c].pc = "chosen"
    /\ IF inflight >= MaxInflight \/ dead
       THEN call' = [call EXCEPT ![c].pc = "refused"] /\ UNCHANGED inflight
       ELSE call' = [call EXCEPT ![c].pc = "register"] /\ inflight' = inflight + 1
    /\ UNCHANGED <<pending, dead, writer, pipeVars, process, pluginVars, reader, cancel, closer, drained, faulted>>

(* A mutant: whether the process lives is not looked at again.              *)
RegisterUnchecked(c) == ~IsPending(call[c].id)

(* Under the lock of what is pending.                                       *)
MayRegister(c) == ~dead /\ ~IsPending(call[c].id)

Register(c) ==
    /\ call[c].pc = "register"
    /\ IF MayRegister(c)
       THEN /\ call' = [call EXCEPT ![c].pc = "lock"] /\ UNCHANGED inflight
            /\ pending' = [x \in DOMAIN pending \cup {call[c].id} |-> IF x = call[c].id THEN c ELSE pending[x]]
       ELSE call' = [call EXCEPT ![c].pc = "refused"] /\ inflight' = inflight - 1 /\ UNCHANGED pending
    /\ UNCHANGED <<dead, writer, pipeVars, process, pluginVars, reader, cancel, closer, drained, faulted>>

LockWriter(c) ==
    /\ call[c].pc = "lock" /\ writer = None /\ writer' = c /\ call' = [call EXCEPT ![c].pc = "write"]
    /\ UNCHANGED <<pending, inflight, dead, pipeVars, process, pluginVars, reader, cancel, closer, drained, faulted>>

CanWrite == process = "up" /\ Len(stdin) < PipeFrames

(* What fits of a large frame.                                              *)
WritePart(c) ==
    /\ c \in Large /\ call[c].pc = "write" /\ CanWrite /\ stdin' = Append(stdin, [what |-> "part", of |-> c])
    /\ call' = [call EXCEPT ![c].pc = "writing"]
    /\ UNCHANGED <<pending, inflight, dead, writer, stdout, process, pluginVars, reader, cancel, closer, drained, faulted>>

(* The deadline of the call begins here.                                    *)
WriteFrame(c) ==
    /\ call[c].pc = IF c \in Large THEN "writing" ELSE "write"
    /\ CanWrite /\ stdin' = Append(stdin, [what |-> "call", of |-> c])
    /\ writer' = None /\ call' = [call EXCEPT ![c].pc = "wait"]
    /\ UNCHANGED <<pending, inflight, dead, stdout, process, pluginVars, reader, cancel, closer, drained, faulted>>

(* A mutant: the lock of the input stays with the call.                     *)
WriteFailsLocked(c) ==
    /\ call[c].pc \in {"write", "writing"} /\ process = "gone" /\ pending' = Without(call[c].id)
    /\ call' = [call EXCEPT ![c].pc = "done", ![c].outcome = "uncertain"] /\ inflight' = inflight - 1
    /\ UNCHANGED <<dead, writer, pipeVars, process, pluginVars, reader, cancel, closer, drained, faulted>>

WriteFails(c) ==
    /\ call[c].pc \in {"write", "writing"} /\ process = "gone" /\ writer' = None /\ pending' = Without(call[c].id)
    /\ call' = [call EXCEPT ![c].pc = "done", ![c].outcome = "uncertain"] /\ inflight' = inflight - 1
    /\ UNCHANGED <<dead, pipeVars, process, pluginVars, reader, cancel, closer, drained, faulted>>

Outcome(got) == IF got.kind = "closed" THEN "uncertain" ELSE got.kind

(* PendingCallGuard: an identifier that is still pending when the call goes *)
(* is of a call nobody waits for, and the process goes with it.             *)
Guard(c, f) ==
    IF IsPending(call[c].id)
    THEN /\ dead' = TRUE /\ process' = "gone" /\ drained' = TRUE /\ pending' = Nothing
         /\ call' = [Drained(f, call[c].id) EXCEPT ![c] = f[c]]
    ELSE call' = f /\ UNCHANGED <<dead, process, drained, pending>>

(* The call has its outcome and its guard goes.                             *)
Settle(c) ==
    /\ call[c].pc = "wait" /\ call[c].got # Open /\ inflight' = inflight - 1
    /\ Guard(c, [call EXCEPT ![c].pc = "done", ![c].outcome = Outcome(call[c].got)])
    /\ UNCHANGED <<writer, pipeVars, pluginVars, reader, cancel, closer, faulted>>

(* The call is forgotten before the process is ended.                       *)
Deadline(c) ==
    /\ "deadline" \in Faults /\ call[c].pc = "wait" /\ call[c].got = Open /\ faulted' = TRUE
    /\ pending' = Without(call[c].id) /\ call' = [call EXCEPT ![c].pc = "terminate"]
    /\ UNCHANGED <<inflight, dead, writer, pipeVars, process, pluginVars, reader, cancel, closer, drained>>

(* The future of the call is dropped where it awaits: the lock, the pipe,   *)
(* its answer, or the end of the process it has killed.                     *)
DropCall(c) ==
    /\ "drop" \in Faults /\ call[c].pc \in {"lock", "write", "writing", "wait", "drain"} /\ faulted' = TRUE
    /\ writer' = Unlocked(c) /\ inflight' = inflight - 1 /\ Guard(c, [call EXCEPT ![c].pc = "dropped"])
    /\ UNCHANGED <<pipeVars, pluginVars, reader, cancel, closer>>

-----------------------------------------------------------------------------
(* cancel_call.                                                             *)

CancelStart(k, c) ==
    /\ cancel[k].pc = "none" /\ call[c].pc \in {"register", "lock", "write", "writing", "wait"} /\ ~dead
    /\ cancel' = [cancel EXCEPT ![k] = [pc |-> "lock", of |-> c]]
    /\ UNCHANGED <<call, pending, inflight, dead, writer, pipeVars, process, pluginVars, reader, closer, drained, faulted>>

CancelLock(k) ==
    /\ cancel[k].pc = "lock" /\ writer = None /\ writer' = k /\ cancel' = [cancel EXCEPT ![k].pc = "write"]
    /\ UNCHANGED <<call, pending, inflight, dead, pipeVars, process, pluginVars, reader, closer, drained, faulted>>

CancelWrite(k) ==
    /\ cancel[k].pc = "write" /\ writer' = None
    /\ \/ CanWrite /\ stdin' = Append(stdin, [what |-> "cancel", of |-> cancel[k].of]) /\ cancel' = [cancel EXCEPT ![k].pc = "poll"]
       \/ process = "gone" /\ cancel' = [cancel EXCEPT ![k].pc = "terminate"] /\ UNCHANGED stdin
    /\ UNCHANGED <<call, pending, inflight, dead, stdout, process, pluginVars, reader, closer, drained, faulted>>

(* The call is no longer pending.                                           *)
CancelSeen(k) ==
    /\ cancel[k].pc = "poll" /\ ~IsPending(call[cancel[k].of].id) /\ cancel' = [cancel EXCEPT ![k].pc = "acknowledged"]
    /\ UNCHANGED <<call, pending, inflight, dead, writer, pipeVars, process, pluginVars, reader, closer, drained, faulted>>

GraceOver(k) ==
    /\ "grace" \in Faults /\ cancel[k].pc = "poll" /\ IsPending(call[cancel[k].of].id) /\ faulted' = TRUE
    /\ cancel' = [cancel EXCEPT ![k].pc = "terminate"]
    /\ UNCHANGED <<call, pending, inflight, dead, writer, pipeVars, process, pluginVars, reader, closer, drained>>

-----------------------------------------------------------------------------
(* terminate_process_tree, of a call past its deadline, a cancel that was   *)
(* ignored, or the shutdown: the process first, then what is pending.       *)

Shutdown ==
    /\ "shutdown" \in Faults /\ closer = "none" /\ closer' = "terminate" /\ faulted' = TRUE
    /\ UNCHANGED <<call, pending, inflight, dead, writer, pipeVars, process, pluginVars, reader, cancel, drained>>

(* Whoever terminates goes from one step to the next.                       *)
Moves(from, to, f) ==
    \/ /\ \E c \in Calls : /\ call[c].pc = from
                           /\ call' = [f EXCEPT ![c].pc = to, ![c].outcome = IF to = "done" THEN "uncertain" ELSE @]
       /\ inflight' = IF to = "done" THEN inflight - 1 ELSE inflight
       /\ UNCHANGED <<cancel, closer>>
    \/ /\ \E k \in Cancelers : cancel[k].pc = from /\ cancel' = [cancel EXCEPT ![k].pc = IF to = "done" THEN "ignored" ELSE to]
       /\ call' = f /\ UNCHANGED <<closer, inflight>>
    \/ closer = from /\ closer' = to /\ call' = f /\ UNCHANGED <<cancel, inflight>>

(* The process is dead to every holder of the handle, and is killed.        *)
Kill ==
    /\ Moves("terminate", "drain", call) /\ dead' = TRUE /\ process' = "gone"
    /\ UNCHANGED <<pending, writer, pipeVars, pluginVars, reader, drained, faulted>>

DrainAll ==
    /\ Moves("drain", "done", Drained(call, None)) /\ pending' = Nothing /\ drained' = TRUE
    /\ UNCHANGED <<dead, writer, pipeVars, process, pluginVars, reader, faulted>>

-----------------------------------------------------------------------------
(* The task that reads the plugin's output.                                 *)

(* The call an answer is for: an unknown or a second one is for none.       *)
Addressed(f) == {c \in Calls : IsPending(f.id) /\ pending[f.id] = c}

ReadFrame ==
    /\ reader = "read" /\ stdout # <<>> /\ stdout' = Tail(stdout)
    /\ LET f == Head(stdout)
       IN IF f.kind = "message" THEN reader' = "lock" /\ UNCHANGED <<call, pending>>
          ELSE IF Addressed(f) = {} THEN UNCHANGED <<call, pending, reader>>
          ELSE /\ \E c \in Addressed(f) : /\ call' = [call EXCEPT ![c].got = [kind |-> f.kind, of |-> f.of]]
                                          /\ pending' = Without(call[c].id)
               /\ UNCHANGED reader
    /\ UNCHANGED <<inflight, dead, writer, stdin, process, pluginVars, cancel, closer, drained, faulted>>

(* The answer to a call of the plugin waits for the lock of its input; the  *)
(* output is not read meanwhile.                                            *)
ReplyLock ==
    /\ reader = "lock" /\ writer = None /\ writer' = "reader" /\ reader' = "write"
    /\ UNCHANGED <<call, pending, inflight, dead, pipeVars, process, pluginVars, cancel, closer, drained, faulted>>

ReplyWrite ==
    /\ reader = "write" /\ writer' = None /\ reader' = "read"
    /\ \/ CanWrite /\ stdin' = Append(stdin, Reply)
       \/ process = "gone" /\ UNCHANGED stdin
    /\ UNCHANGED <<call, pending, inflight, dead, stdout, process, pluginVars, cancel, closer, drained, faulted>>

(* The output has ended: the handle is dead, and what is pending is told.   *)
ReadEnd ==
    /\ reader = "read" /\ stdout = <<>> /\ process = "gone" /\ dead' = TRUE /\ reader' = "drain"
    /\ UNCHANGED <<call, pending, inflight, writer, pipeVars, process, pluginVars, cancel, closer, drained, faulted>>

ReaderDrain ==
    /\ reader = "drain" /\ reader' = "done" /\ call' = Drained(call, None) /\ pending' = Nothing /\ drained' = TRUE
    /\ UNCHANGED <<inflight, dead, writer, pipeVars, process, pluginVars, cancel, closer, faulted>>

-----------------------------------------------------------------------------
(* The plugin.                                                              *)

PluginReads ==
    /\ process = "up" /\ stdin # <<>> /\ stdin' = Tail(stdin)
    /\ asked' = IF Head(stdin).what = "call" THEN asked \cup {Head(stdin).of} ELSE asked
    /\ UNCHANGED <<call, pending, inflight, dead, writer, stdout, process, messages, reader, cancel, closer, drained, faulted>>

(* It may answer a call a second time.                                      *)
PluginAnswers(c) ==
    /\ process = "up" /\ c \in asked /\ Len(stdout) < PipeFrames
    /\ \/ asked' = asked \ {c} /\ UNCHANGED messages
       \/ messages < MaxMessages /\ messages' = messages + 1 /\ UNCHANGED asked
    /\ \E kind \in {"answered", "canceled"} : stdout' = Append(stdout, [kind |-> kind, id |-> call[c].id, of |-> c])
    /\ UNCHANGED <<call, pending, inflight, dead, writer, stdin, process, reader, cancel, closer, drained, faulted>>

PluginCallsHost ==
    /\ process = "up" /\ messages < MaxMessages /\ Len(stdout) < PipeFrames /\ messages' = messages + 1
    /\ stdout' = Append(stdout, [kind |-> "message", id |-> None, of |-> None])
    /\ UNCHANGED <<call, pending, inflight, dead, writer, stdin, process, asked, reader, cancel, closer, drained, faulted>>

Crash ==
    /\ "crash" \in Faults /\ process = "up" /\ process' = "gone" /\ faulted' = TRUE
    /\ UNCHANGED <<call, pending, inflight, dead, writer, pipeVars, pluginVars, reader, cancel, closer, drained>>

CallStep(c) ==
    \/ Choose(c) \/ Admit(c) \/ Register(c) \/ LockWriter(c) \/ WritePart(c) \/ WriteFrame(c) \/ WriteFails(c) \/ Settle(c)
    \/ Deadline(c)
CancelStep(k) == CancelLock(k) \/ CancelWrite(k) \/ CancelSeen(k) \/ GraceOver(k)
ReaderStep == ReadFrame \/ ReplyLock \/ ReplyWrite \/ ReadEnd \/ ReaderDrain

TransportNext ==
    \/ \E c \in Calls : CallStep(c) \/ DropCall(c) \/ PluginAnswers(c)
    \/ \E k \in Cancelers : CancelStep(k) \/ \E c \in Calls : CancelStart(k, c)
    \/ Shutdown \/ Kill \/ DrainAll \/ ReaderStep \/ PluginReads \/ PluginCallsHost \/ Crash

(* The host's tasks are polled and its timers fire; the lock of the input   *)
(* is fair (tokio's mutex serves in order).  The plugin owes nothing: it    *)
(* need not read, answer or exit.                                           *)
TransportSpec ==
    /\ TransportInit /\ [][TransportNext]_transportVars
    /\ \A c \in Calls : WF_transportVars(CallStep(c)) /\ SF_transportVars(LockWriter(c))
    /\ \A k \in Cancelers : WF_transportVars(CancelStep(k)) /\ SF_transportVars(CancelLock(k))
    /\ WF_transportVars(Kill \/ DrainAll) /\ WF_transportVars(ReaderStep) /\ SF_transportVars(ReplyLock)

-----------------------------------------------------------------------------
InCall == {c \in Calls : call[c].pc \in {"register", "lock", "write", "writing", "wait", "terminate", "drain"}}
Identifiers == Calls \cup 0 .. MaxInflight

TransportTypeOK ==
    /\ call \in [Calls -> [pc : {"none", "chosen", "register", "lock", "write", "writing", "wait", "terminate", "drain", "done", "refused", "dropped"},
                           id : Identifiers \cup {None},
                           got : [kind : {"open", "closed", "uncertain", "answered", "canceled"}, of : Calls \cup {None}],
                           outcome : {"none", "uncertain", "answered", "canceled"}]]
    /\ DOMAIN pending \subseteq Identifiers /\ \A i \in DOMAIN pending : pending[i] \in InCall /\ call[pending[i]].id = i
    /\ inflight = Cardinality(InCall) /\ dead \in BOOLEAN /\ writer \in Calls \cup Cancelers \cup {"reader", None}
    /\ process \in {"up", "gone"} /\ asked \subseteq Calls /\ messages \in 0 .. MaxMessages
    /\ reader \in {"read", "lock", "write", "drain", "done"}
    /\ closer \in {"none", "terminate", "drain", "done"} /\ drained \in BOOLEAN /\ faulted \in BOOLEAN

(* "Every failure mode is bounded": no more than MAX_INFLIGHT_CALLS calls    *)
(* are with the plugin.                                                     *)
InflightIsBounded == Cardinality(InCall) <= MaxInflight

(* A lease makes an identifier up from the number of calls under way, so    *)
(* that two of its calls may have the same.                                 *)
SharedIdentifier == \E c, d \in LeaseCalls : c # d /\ call[c].id # None /\ call[c].id = call[d].id

(* "Never settle a call with a forged identifier": what a call is told is   *)
(* the answer to that call, also when answers are late or come twice,       *)
(* unless calls share an identifier.                                        *)
AnswerIsOwn == SharedIdentifier \/ \A c \in Calls : call[c].got.of \in {None, c}

(* Once what was pending has been told that the process is gone, nothing    *)
(* becomes pending, for nobody would settle it before its deadline.         *)
NoneAfterDrain == drained => pending = Nothing

(* A call is uncertain only when something happened: a crash, a deadline, a *)
(* cancel that was ignored, a call that was dropped, or the shutdown; or    *)
(* when calls share an identifier.                                          *)
UncertainHasCause == (\E c \in Calls : call[c].outcome = "uncertain") => faulted \/ SharedIdentifier

(* A call whose frame was written ends, whatever the plugin does: its       *)
(* deadline kills the process, which takes no lock (call_inner).            *)
SentCallEnds == \A c \in Calls : call[c].pc = "wait" ~> call[c].pc \in {"done", "dropped"}

(* A call that is admitted ends, and so does a cancel.                      *)
CallEnds == \A c \in Calls : call[c].pc = "register" ~> call[c].pc \in {"done", "refused", "dropped"}
CancelEnds == \A k \in Cancelers : cancel[k].pc = "lock" ~> cancel[k].pc \in {"acknowledged", "ignored"}

(* Somebody is in the middle of a write, and the pipe of a living plugin    *)
(* has no room.                                                             *)
WriteBlocked == process = "up" /\ writer # None /\ Len(stdin) >= PipeFrames

(* The calls of a plugin are bounded, settled by their own answers or with  *)
(* a cause, and none is left pending when the process is gone.              *)
TransportInv == TransportTypeOK /\ InflightIsBounded /\ AnswerIsOwn /\ NoneAfterDrain /\ UncertainHasCause

(* What was sent comes back.  What was not, call or cancel, comes back      *)
(* unless a write is blocked for ever behind a plugin that does not read:   *)
(* the write has no deadline of its own, so it is only then that "an        *)
(* ignored cancel" does "become a hung host" (call_inner, cancel_call).     *)
CallsEnd == SentCallEnds /\ (<>[]WriteBlocked \/ (CallEnds /\ CancelEnds))
=============================================================================
