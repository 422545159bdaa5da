--------------------------- MODULE ExtensionProofs ---------------------------
(***************************************************************************)
(* Proofs about ExtensionTransport, for any calls, cancels and faults, and *)
(* pipes of any size, with a plugin that answers as it likes; and about    *)
(* ExtensionHost, for any operations, however they overlap, and consumers. *)
(***************************************************************************)
EXTENDS ExtensionTransport, ExtensionHost, FiniteSetTheorems, SequenceTheorems, TLAPS

UnderWay == {"register", "lock", "write", "writing", "wait", "terminate", "drain"}
Registered == {"lock", "write", "writing", "wait"}
Guarded == Registered \cup {"drain"}
Places == {"none", "chosen", "done", "refused", "dropped"} \cup UnderWay
Gots == [kind : {"open", "closed", "uncertain", "answered", "canceled"}, of : Calls \cup {None}]

(* Something went wrong, or two calls of a lease share an identifier.       *)
Cause == faulted \/ SharedIdentifier

Outcomes == {"none", "uncertain", "answered", "canceled"}
CallRecord == [pc : Places, id : Identifiers \cup {None}, got : Gots, outcome : Outcomes]

(* The record r of the call c, where calls share an identifier (shared),    *)
(* something went wrong (cause), and the handle is dead (gone).             *)
CallIsSound(c, r, shared, cause, gone) ==
    /\ r.pc = "none" <=> r.id = None
    /\ r.id # None => IF c \in LeaseCalls THEN r.id \in Nat ELSE r.id = c
    /\ r.got.kind = "open" => r.got.of = None
    /\ r.pc \in {"none", "chosen", "register"} => r.got = Open
    /\ shared \/ r.got.of \in {None, c}
    /\ r.got.kind \in {"closed", "uncertain"} \/ r.outcome = "uncertain" \/ r.pc \in {"terminate", "drain"} => cause
    /\ r.pc = "drain" => gone

CallsAreSound == \A c \in Calls : CallIsSound(c, call[c], SharedIdentifier, Cause, dead)

(* An identifier leads to a call that is registered and not yet answered.   *)
PendingIsOpen ==
    /\ DOMAIN pending \subseteq Identifiers
    /\ \A i \in DOMAIN pending : /\ pending[i] \in Calls /\ call[pending[i]].pc \in Registered
                                 /\ call[pending[i]].id = i /\ call[pending[i]].got = Open

Inputs == [what : {"part", "call", "cancel", "reply"}, of : Calls \cup {None}]
Frames == [kind : {"message", "answered", "canceled"}, id : Identifiers \cup {None}, of : Calls \cup {None}]

(* What the plugin was asked and what it answers is of calls that have an   *)
(* identifier, and an answer has that of its call.                          *)
InputIsOfCalls ==
    /\ stdin \in Seq(Inputs)
    /\ \A n \in DOMAIN stdin : stdin[n].what = "call" => stdin[n].of \in Calls /\ call[stdin[n].of].id # None

OutputIsOfCalls ==
    /\ stdout \in Seq(Frames)
    /\ \A n \in DOMAIN stdout : stdout[n].kind # "message" =>
         stdout[n].of \in Calls /\ stdout[n].id = call[stdout[n].of].id /\ stdout[n].id # None

AnswersAreOfCalls == InputIsOfCalls /\ OutputIsOfCalls /\ asked \subseteq Calls /\ \A c \in asked : call[c].id # None

(* Who ends the process, and what is known of it then.                      *)
EndHasCause ==
    /\ dead \/ process = "gone" => Cause
    /\ cancel \in [Cancelers -> [pc : {"none", "lock", "write", "poll", "terminate", "drain", "acknowledged", "ignored"}, of : Calls \cup {None}]]
    /\ \A k \in Cancelers : /\ cancel[k].pc = "terminate" => Cause
                            /\ cancel[k].pc = "drain" => dead
                            /\ cancel[k].pc \in {"lock", "write", "poll"} => cancel[k].of \in Calls
    /\ closer = "terminate" => Cause
    /\ closer = "drain" \/ reader = "drain" \/ drained => dead
    /\ drained => pending = Nothing

RestTypes ==
    /\ call \in [Calls -> CallRecord]
    /\ dead \in BOOLEAN /\ writer \in Calls \cup Cancelers \cup {"reader", None}
    /\ process \in {"up", "gone"} /\ messages \in 0 .. MaxMessages
    /\ reader \in {"read", "lock", "write", "drain", "done"}
    /\ closer \in {"none", "terminate", "drain", "done"} /\ drained \in BOOLEAN /\ faulted \in BOOLEAN

CountIsOfCalls == inflight = Cardinality(InCall) /\ inflight <= MaxInflight

TransportIInv ==
    /\ CallsAreSound /\ PendingIsOpen /\ AnswersAreOfCalls /\ EndHasCause /\ RestTypes /\ CountIsOfCalls

-----------------------------------------------------------------------------
(* What a pipe holds after a frame is written or read.                      *)
LEMMA PipeIs ==
    ASSUME NEW S, NEW s \in Seq(S)
    PROVE  /\ \A e \in S : /\ Append(s, e) \in Seq(S)
                          /\ \A n \in DOMAIN Append(s, e) : Append(s, e)[n] = e \/ (n \in DOMAIN s /\ Append(s, e)[n] = s[n])
           /\ s # <<>> => /\ 1 \in DOMAIN s /\ Head(s) = s[1] /\ Head(s) \in S /\ Tail(s) \in Seq(S)
                          /\ \A n \in DOMAIN Tail(s) : n + 1 \in DOMAIN s /\ Tail(s)[n] = s[n + 1]
  OBVIOUS

-----------------------------------------------------------------------------
(* How the record of a call moves.                                          *)

(* The call c goes to the place p with the outcome o, and no other moves.   *)
Goes(f, g, c, p, o) ==
    /\ g \in [Calls -> CallRecord] /\ \A d \in Calls : d # c => g[d] = f[d]
    /\ g[c].pc = p /\ g[c].outcome = o /\ g[c].id = f[c].id /\ g[c].got = f[c].got

LEMMA ExceptGoes ==
    ASSUME NEW f \in [Calls -> CallRecord], NEW c \in Calls, NEW p \in Places, NEW o \in Outcomes
    PROVE  /\ Goes(f, [f EXCEPT ![c].pc = p], c, p, f[c].outcome)
           /\ Goes(f, [f EXCEPT ![c].pc = p, ![c].outcome = o], c, p, o)
<1>1. f[c] \in CallRecord
  OBVIOUS
<1>2. [f[c] EXCEPT !.pc = p] \in CallRecord /\ [f[c] EXCEPT !.pc = p, !.outcome = o] \in CallRecord
  BY <1>1 DEF CallRecord
<1>3. [f EXCEPT ![c].pc = p] = [f EXCEPT ![c] = [f[c] EXCEPT !.pc = p]]
  OBVIOUS
<1>4. [f EXCEPT ![c].pc = p, ![c].outcome = o] = [f EXCEPT ![c] = [f[c] EXCEPT !.pc = p, !.outcome = o]]
  OBVIOUS
<1>5. Goes(f, [f EXCEPT ![c].pc = p], c, p, f[c].outcome)
  BY <1>1, <1>2, <1>3 DEF Goes, CallRecord
<1>6. Goes(f, [f EXCEPT ![c].pc = p, ![c].outcome = o], c, p, o)
  BY <1>1, <1>2, <1>4 DEF Goes, CallRecord
<1> QED BY <1>5, <1>6

(* Whatever was true of a call stays true when something goes wrong.        *)
LEMMA SoundStays ==
    ASSUME NEW c \in Calls, NEW r, NEW s1, NEW s2, NEW a1, NEW a2, NEW g1, NEW g2,
           CallIsSound(c, r, s1, a1, g1), s1 => s2, a1 => a2, g1 => g2
    PROVE  CallIsSound(c, r, s2, a2, g2)
  BY DEF CallIsSound

(* An identifier is for good.                                               *)
IdsStay == \A c \in Calls : call[c].id # None => call'[c].id = call[c].id

LEMMA CauseStays ==
    ASSUME IdsStay, faulted => faulted'
    PROVE  (SharedIdentifier => SharedIdentifier') /\ (Cause => Cause')
<1>1. ASSUME SharedIdentifier
      PROVE  SharedIdentifier'
  <2>1. PICK c \in LeaseCalls, d \in LeaseCalls : c # d /\ call[c].id # None /\ call[c].id = call[d].id
    BY <1>1 DEF SharedIdentifier
  <2>2. call'[c].id = call[c].id /\ call'[d].id = call[d].id
    BY <2>1, TransportAssumption DEF IdsStay
  <2> QED BY <2>1, <2>2 DEF SharedIdentifier
<1> QED BY <1>1 DEF Cause

(* One call moves.                                                          *)
LEMMA GoesIsSound ==
    ASSUME RestTypes, CallsAreSound, NEW c \in Calls, NEW p, NEW o, Goes(call, call', c, p, o),
           call[c].pc # "none", p # "none", p \in {"chosen", "register"} => call[c].got = Open,
           faulted => faulted', dead => dead',
           p \in {"terminate", "drain"} \/ (o = "uncertain" /\ call[c].outcome # "uncertain") => Cause \/ faulted',
           p = "drain" => dead'
    PROVE  CallsAreSound' /\ IdsStay /\ (Cause => Cause') /\ (SharedIdentifier => SharedIdentifier')
<1>1. IdsStay
  BY DEF IdsStay, Goes
<1>2. (SharedIdentifier => SharedIdentifier') /\ (Cause => Cause') /\ (faulted' => Cause')
  BY <1>1, CauseStays DEF Cause
<1>3. ASSUME NEW d \in Calls
      PROVE  CallIsSound(d, call'[d], SharedIdentifier', Cause', dead')
  <2>1. CallIsSound(d, call[d], SharedIdentifier, Cause, dead)
    BY DEF CallsAreSound
  <2>2. CASE d # c
    <3>1. call'[d] = call[d]
      BY <2>2 DEF Goes
    <3>2. CallIsSound(d, call[d], SharedIdentifier', Cause', dead')
      BY <1>2, <2>1, SoundStays
    <3> QED BY <3>1, <3>2
  <2>3. CASE d = c
    BY <1>2, <2>1, <2>3 DEF Goes, CallIsSound
  <2> QED BY <2>2, <2>3
<1>4. CallsAreSound'
  BY <1>3 DEF CallsAreSound
<1> QED BY <1>1, <1>2, <1>4

(* Nothing is known of a call anew.                                         *)
LEMMA SameCallsAreSound ==
    ASSUME RestTypes, CallsAreSound, UNCHANGED call, faulted => faulted', dead => dead'
    PROVE  CallsAreSound' /\ IdsStay /\ (Cause => Cause') /\ (SharedIdentifier => SharedIdentifier')
<1>1. IdsStay
  BY DEF IdsStay
<1>2. (SharedIdentifier => SharedIdentifier') /\ (Cause => Cause')
  BY <1>1, CauseStays
<1>3. ASSUME NEW d \in Calls
      PROVE  CallIsSound(d, call'[d], SharedIdentifier', Cause', dead')
  <2>1. CallIsSound(d, call[d], SharedIdentifier, Cause, dead)
    BY DEF CallsAreSound
  <2>2. CallIsSound(d, call[d], SharedIdentifier', Cause', dead')
    BY <1>2, <2>1 DEF CallIsSound
  <2> QED BY <2>2
<1>4. CallsAreSound'
  BY <1>3 DEF CallsAreSound
<1> QED BY <1>1, <1>2, <1>4

(* What a drain tells.                                                      *)
LEMMA DrainedIs ==
    ASSUME PendingIsOpen, RestTypes, NEW f \in [Calls -> CallRecord], NEW i
    PROVE  /\ Drained(f, i) \in [Calls -> CallRecord]
           /\ \A c \in Calls : \/ Drained(f, i)[c] = f[c]
                               \/ /\ call[c].pc \in Registered /\ Drained(f, i)[c].got \in {Closed, Uncertain}
                                  /\ Drained(f, i)[c].pc = f[c].pc /\ Drained(f, i)[c].id = f[c].id
                                  /\ Drained(f, i)[c].outcome = f[c].outcome
<1>1. Closed \in Gots /\ Uncertain \in Gots
  BY DEF Closed, Uncertain, Gots
<1>2. ASSUME NEW c \in Calls
      PROVE  /\ Drained(f, i)[c] \in CallRecord
             /\ \/ Drained(f, i)[c] = f[c]
                \/ /\ call[c].pc \in Registered /\ Drained(f, i)[c].got \in {Closed, Uncertain}
                   /\ Drained(f, i)[c].pc = f[c].pc /\ Drained(f, i)[c].id = f[c].id
                   /\ Drained(f, i)[c].outcome = f[c].outcome
  <2>0. f[c] \in CallRecord
    OBVIOUS
  <2>1. CASE \E x \in DOMAIN pending : pending[x] = c
    <3>1. PICK t \in {Closed, Uncertain} : Drained(f, i)[c] = [f[c] EXCEPT !.got = t]
      <4>1. Drained(f, i)[c] = [f[c] EXCEPT !.got = IF pending[f[c].id] = c /\ f[c].id = i THEN Closed ELSE Uncertain]
        BY <2>1 DEF Drained
      <4> QED BY <4>1
    <3>2. call[c].pc \in Registered
      BY <2>1 DEF PendingIsOpen
    <3>3. [f[c] EXCEPT !.got = t] \in CallRecord
      BY <1>1, <2>0 DEF CallRecord
    <3> QED BY <2>0, <3>1, <3>2, <3>3 DEF CallRecord
  <2>2. CASE ~\E x \in DOMAIN pending : pending[x] = c
    BY <2>0, <2>2 DEF Drained
  <2> QED BY <2>1, <2>2
<1>3. DOMAIN Drained(f, i) = Calls /\ Drained(f, i) = [c \in Calls |-> Drained(f, i)[c]]
  BY DEF Drained
<1> QED BY <1>2, <1>3

(* A drain, while the call c goes to p with o, or none does (c is None).    *)
Drains(c, p, o) ==
    /\ call' \in [Calls -> CallRecord]
    /\ \A d \in Calls : d # c =>
         \/ call'[d] = call[d]
         \/ /\ call[d].pc \in Registered /\ call'[d].got \in {Closed, Uncertain}
            /\ call'[d].pc = call[d].pc /\ call'[d].id = call[d].id /\ call'[d].outcome = call[d].outcome
    /\ c \in Calls => /\ call'[c].pc = p /\ call'[c].outcome = o /\ call'[c].id = call[c].id
                      /\ call'[c].got \in {call[c].got, Closed, Uncertain}

LEMMA DrainsIsSound ==
    ASSUME RestTypes, CallsAreSound, NEW c, NEW p, NEW o, Drains(c, p, o), p \in {"done", "dropped"}, faulted => faulted', dead',
           c \in Calls => call[c].pc \notin {"none", "chosen", "register"},
           Cause \/ faulted'
    PROVE  CallsAreSound' /\ IdsStay /\ Cause' /\ (SharedIdentifier => SharedIdentifier')
<1>1. IdsStay
  BY DEF IdsStay, Drains
<1>2. (SharedIdentifier => SharedIdentifier') /\ (Cause => Cause') /\ Cause'
  BY <1>1, CauseStays DEF Cause
<1>3. ASSUME NEW d \in Calls
      PROVE  CallIsSound(d, call'[d], SharedIdentifier', Cause', dead')
  <2>1. CallIsSound(d, call[d], SharedIdentifier, Cause, dead)
    BY DEF CallsAreSound
  <2>1a. CallIsSound(d, call[d], SharedIdentifier', Cause', dead')
    BY <1>2, <2>1 DEF CallIsSound
  <2>2. CASE call'[d] = call[d]
    BY <2>1a, <2>2
  <2>3. CASE d # c /\ call'[d] # call[d]
    BY <1>2, <2>1a, <2>3 DEF Drains, CallIsSound, Registered, Closed, Uncertain
  <2>4. CASE d = c
    BY <1>2, <2>1a, <2>4 DEF Drains, CallIsSound, Closed, Uncertain
  <2> QED BY <2>2, <2>3, <2>4
<1>4. CallsAreSound'
  BY <1>3 DEF CallsAreSound
<1> QED BY <1>1, <1>2, <1>4

-----------------------------------------------------------------------------
(* What a step does to the calls.                                           *)
Moved ==
    /\ CallsAreSound' /\ IdsStay /\ (Cause => Cause') /\ (SharedIdentifier => SharedIdentifier')
    /\ call' \in [Calls -> CallRecord]

(* Another call that has the identifier of c is, with c, of a lease.        *)
LEMMA SameIdIsShared ==
    ASSUME CallsAreSound, NEW c \in Calls, NEW d \in Calls, c # d, call[c].id # None, call[d].id = call[c].id
    PROVE  SharedIdentifier
<1>1. /\ IF c \in LeaseCalls THEN call[c].id \in Nat ELSE call[c].id = c
      /\ IF d \in LeaseCalls THEN call[d].id \in Nat ELSE call[d].id = d
  BY DEF CallsAreSound, CallIsSound
<1>2. Calls \cap Nat = {}
  BY TransportAssumption
<1>3. c \in LeaseCalls /\ d \in LeaseCalls
  BY <1>1, <1>2
<1> QED BY <1>3 DEF SharedIdentifier

(* A call that goes on or ends by itself.                                   *)
LEMMA StepsMove ==
    ASSUME TransportIInv, NEW c \in Calls,
           Admit(c) \/ Register(c) \/ LockWriter(c) \/ WritePart(c) \/ WriteFrame(c) \/ WriteFails(c) \/ Deadline(c)
    PROVE  Moved
<1> USE DEF TransportIInv
<1>0. call \in [Calls -> CallRecord] /\ call[c] \in CallRecord
  BY DEF RestTypes
<1>1. call[c].outcome \in Outcomes
  BY <1>0 DEF CallRecord
<1>2. CallIsSound(c, call[c], SharedIdentifier, Cause, dead)
  BY DEF CallsAreSound
<1>3. \A p \in Places, o \in Outcomes : /\ Goes(call, [call EXCEPT ![c].pc = p], c, p, call[c].outcome)
                                        /\ Goes(call, [call EXCEPT ![c].pc = p, ![c].outcome = o], c, p, o)
  BY <1>0, ExceptGoes
<1>4. CASE Admit(c)
  <2>1. PICK p \in {"refused", "register"} : call' = [call EXCEPT ![c].pc = p]
    BY <1>4 DEF Admit
  <2>2. Goes(call, call', c, p, call[c].outcome)
    BY <1>1, <1>3, <2>1 DEF Places, UnderWay
  <2>3. call[c].pc = "chosen" /\ call[c].got = Open /\ faulted' = faulted /\ dead' = dead
    BY <1>2, <1>4 DEF Admit, CallIsSound
  <2> QED BY <2>2, <2>3, GoesIsSound DEF Moved, Goes
<1>5. CASE Register(c)
  <2>1. PICK p \in {"refused", "lock"} : call' = [call EXCEPT ![c].pc = p]
    BY <1>5 DEF Register
  <2>2. Goes(call, call', c, p, call[c].outcome)
    BY <1>1, <1>3, <2>1 DEF Places, UnderWay
  <2>3. call[c].pc = "register" /\ faulted' = faulted /\ dead' = dead
    BY <1>5 DEF Register
  <2> QED BY <2>2, <2>3, GoesIsSound DEF Moved, Goes
<1>6. CASE LockWriter(c)
  <2>2. Goes(call, call', c, "write", call[c].outcome)
    BY <1>1, <1>3, <1>6 DEF Places, UnderWay, LockWriter
  <2>3. call[c].pc = "lock" /\ faulted' = faulted /\ dead' = dead
    BY <1>6 DEF LockWriter
  <2> QED BY <2>2, <2>3, GoesIsSound DEF Moved, Goes
<1>7. CASE WritePart(c)
  <2>2. Goes(call, call', c, "writing", call[c].outcome)
    BY <1>1, <1>3, <1>7 DEF Places, UnderWay, WritePart
  <2>3. call[c].pc = "write" /\ faulted' = faulted /\ dead' = dead
    BY <1>7 DEF WritePart
  <2> QED BY <2>2, <2>3, GoesIsSound DEF Moved, Goes
<1>8. CASE WriteFrame(c)
  <2>2. Goes(call, call', c, "wait", call[c].outcome)
    BY <1>1, <1>3, <1>8 DEF Places, UnderWay, WriteFrame
  <2>3. call[c].pc \in {"write", "writing"} /\ faulted' = faulted /\ dead' = dead
    BY <1>8 DEF WriteFrame
  <2> QED BY <2>2, <2>3, GoesIsSound DEF Moved, Goes
<1>9. CASE WriteFails(c)
  <2>2. Goes(call, call', c, "done", "uncertain")
    BY <1>3, <1>9 DEF Places, Outcomes, WriteFails
  <2>3. call[c].pc \in {"write", "writing"} /\ faulted' = faulted /\ dead' = dead /\ Cause
    BY <1>9 DEF WriteFails, EndHasCause
  <2> QED BY <2>2, <2>3, GoesIsSound DEF Moved, Goes
<1>10. CASE Deadline(c)
  <2>2. Goes(call, call', c, "terminate", call[c].outcome)
    BY <1>1, <1>3, <1>10 DEF Places, UnderWay, Deadline
  <2>3. call[c].pc = "wait" /\ faulted' /\ dead' = dead
    BY <1>10 DEF Deadline
  <2> QED BY <2>2, <2>3, GoesIsSound DEF Moved, Goes
<1> QED BY <1>4, <1>5, <1>6, <1>7, <1>8, <1>9, <1>10

(* A call chooses its identifier.                                           *)
LEMMA ChooseMoves ==
    ASSUME TransportIInv, NEW c \in Calls, Choose(c)
    PROVE  Moved
<1> USE DEF TransportIInv
<1> DEFINE i == IF c \in LeaseCalls THEN inflight ELSE c
<1>0. call \in [Calls -> CallRecord] /\ call[c] \in CallRecord
  BY DEF RestTypes
<1>1. call[c].pc = "none" /\ call' = [call EXCEPT ![c] = [call[c] EXCEPT !.pc = "chosen", !.id = i]] /\ UNCHANGED <<faulted, dead>>
  BY <1>0 DEF Choose
<1>2. CallIsSound(c, call[c], SharedIdentifier, Cause, dead) /\ call[c].id = None
  BY <1>1 DEF CallsAreSound, CallIsSound
<1>3. inflight \in 0 .. MaxInflight
  <2>1. IsFiniteSet(InCall)
    BY TransportAssumption, FS_Subset DEF InCall
  <2> QED BY <2>1, FS_CardinalityType, TransportAssumption DEF CountIsOfCalls
<1>4. i \in Identifiers /\ i # None /\ IF c \in LeaseCalls THEN i \in Nat ELSE i = c
  BY <1>3, TransportAssumption DEF Identifiers
<1>5. call' \in [Calls -> CallRecord]
  <2>1. [call[c] EXCEPT !.pc = "chosen", !.id = i] \in CallRecord
    BY <1>0, <1>4 DEF CallRecord, Places
  <2> QED BY <1>0, <1>1, <2>1
<1>6. \A d \in Calls : d # c => call'[d] = call[d]
  BY <1>0, <1>1
<1>7. call'[c].pc = "chosen" /\ call'[c].id = i /\ call'[c].got = call[c].got /\ call'[c].outcome = call[c].outcome
  BY <1>0, <1>1 DEF CallRecord
<1>8. IdsStay
  BY <1>2, <1>6 DEF IdsStay
<1>9. (SharedIdentifier => SharedIdentifier') /\ (Cause => Cause')
  BY <1>1, <1>8, CauseStays
<1>10. ASSUME NEW d \in Calls
       PROVE  CallIsSound(d, call'[d], SharedIdentifier', Cause', dead')
  <2>1. CallIsSound(d, call[d], SharedIdentifier, Cause, dead)
    BY DEF CallsAreSound
  <2>2. CallIsSound(d, call[d], SharedIdentifier', Cause', dead')
    BY <1>1, <1>9, <2>1 DEF CallIsSound
  <2>3. CASE d # c
    BY <1>6, <2>2, <2>3
  <2>4. CASE d = c
    BY <1>1, <1>4, <1>7, <2>2, <2>4 DEF CallIsSound
  <2> QED BY <2>3, <2>4
<1> QED BY <1>5, <1>8, <1>9, <1>10 DEF Moved, CallsAreSound

(* A call goes, and takes the process with it where its identifier is still *)
(* pending.                                                                 *)
LEMMA GuardMoves ==
    ASSUME TransportIInv, NEW c \in Calls, NEW p \in {"done", "dropped"}, NEW o \in Outcomes,
           Guard(c, [call EXCEPT ![c].pc = p, ![c].outcome = o]),
           call[c].pc \in Guarded, faulted => faulted',
           o = "uncertain" /\ call[c].outcome # "uncertain" => Cause \/ faulted',
           call[c].got # Open \/ faulted'
    PROVE  Moved /\ (IsPending(call[c].id) => Cause')
<1> USE DEF TransportIInv
<1> DEFINE f == [call EXCEPT ![c].pc = p, ![c].outcome = o]
<1>0. call \in [Calls -> CallRecord] /\ call[c] \in CallRecord
  BY DEF RestTypes
<1>1. Goes(call, f, c, p, o)
  BY <1>0, ExceptGoes DEF Places
<1>2. f \in [Calls -> CallRecord]
  BY <1>1 DEF Goes
<1>3. CASE IsPending(call[c].id)
  <2>1. dead' /\ call' = [Drained(f, call[c].id) EXCEPT ![c] = f[c]]
    BY <1>3 DEF Guard
  <2> HIDE DEF f
  <2> DEFINE g == Drained(f, call[c].id)
  <2>2. /\ g \in [Calls -> CallRecord]
        /\ \A d \in Calls : \/ g[d] = f[d]
                            \/ /\ call[d].pc \in Registered /\ g[d].got \in {Closed, Uncertain}
                               /\ g[d].pc = f[d].pc /\ g[d].id = f[d].id
                               /\ g[d].outcome = f[d].outcome
    BY <1>2, DrainedIs
  <2> HIDE DEF g
  <2>3. call' \in [Calls -> CallRecord] /\ call'[c] = f[c] /\ \A d \in Calls : d # c => call'[d] = g[d]
    BY <1>2, <2>1, <2>2 DEF g
  <2>4. Drains(c, p, o)
    BY <1>1, <2>2, <2>3 DEF Goes, Drains
  <2>5. Cause \/ faulted'
    <3>1. CASE call[c].got = Open
      BY <3>1
    <3>2. CASE call[c].got # Open
      <4>1. PICK d \in Calls : call[d].got = Open /\ call[d].id = call[c].id
        BY <1>3 DEF IsPending, PendingIsOpen
      <4>2. call[c].id # None
        BY DEF CallsAreSound, CallIsSound, Guarded, Registered
      <4> QED BY <3>2, <4>1, <4>2, SameIdIsShared DEF Cause
    <3> QED BY <3>1, <3>2
  <2>6. call[c].pc \notin {"none", "chosen", "register"}
    BY DEF Guarded, Registered
  <2> QED BY <2>1, <2>3, <2>4, <2>5, <2>6, DrainsIsSound DEF Moved
<1>4. CASE ~IsPending(call[c].id)
  <2>1. call' = f /\ dead' = dead
    BY <1>4 DEF Guard
  <2>2. Goes(call, call', c, p, o)
    BY <1>1, <2>1
  <2>3. call[c].pc # "none" /\ p # "none" /\ p \notin {"chosen", "register", "terminate", "drain"}
    BY DEF Guarded, Registered
  <2>4. CallsAreSound' /\ IdsStay /\ (Cause => Cause') /\ (SharedIdentifier => SharedIdentifier')
    BY <2>1, <2>2, <2>3, GoesIsSound
  <2> QED BY <1>4, <2>2, <2>4 DEF Moved, Goes
<1> QED BY <1>3, <1>4

LEMMA SettleMoves ==
    ASSUME TransportIInv, NEW c \in Calls, Settle(c) \/ DropCall(c)
    PROVE  Moved /\ (IsPending(call[c].id) => Cause')
<1>0. call \in [Calls -> CallRecord] /\ call[c] \in CallRecord
  BY DEF RestTypes, TransportIInv
<1>1. CASE Settle(c)
  <2>1. Outcome(call[c].got) \in Outcomes
    <3>1. call[c].got \in Gots /\ (call[c].got.kind = "open" => call[c].got = Open)
      BY <1>0 DEF CallRecord, TransportIInv, CallsAreSound, CallIsSound, Gots, Open
    <3> QED BY <1>1, <3>1 DEF Outcome, Outcomes, Gots, Settle
  <2>2. Outcome(call[c].got) = "uncertain" => Cause
    BY DEF TransportIInv, CallsAreSound, CallIsSound, Outcome
  <2> QED BY <1>1, <2>1, <2>2, GuardMoves DEF Settle, Guarded, Registered
<1>2. CASE DropCall(c)
  <2>1. call[c].outcome \in Outcomes
    BY <1>0 DEF CallRecord
  <2>2. [call EXCEPT ![c].pc = "dropped"] = [call EXCEPT ![c].pc = "dropped", ![c].outcome = call[c].outcome]
    BY <1>0 DEF CallRecord
  <2> QED BY <1>2, <2>1, <2>2, GuardMoves DEF DropCall, Guarded, Registered
<1> QED BY <1>1, <1>2

(* The process is ended, by whoever has a cause.                            *)
LEMMA KillMoves ==
    ASSUME TransportIInv, Kill
    PROVE  Moved /\ Cause
<1> USE DEF TransportIInv
<1>0. call \in [Calls -> CallRecord] /\ dead' /\ faulted' = faulted
  BY DEF RestTypes, Kill
<1>1. CASE \E c \in Calls : /\ call[c].pc = "terminate"
                          /\ call' = [call EXCEPT ![c].pc = "drain", ![c].outcome = IF "drain" = "done" THEN "uncertain" ELSE @]
  <2>1. PICK c \in Calls : /\ call[c].pc = "terminate"
                          /\ call' = [call EXCEPT ![c].pc = "drain", ![c].outcome = IF "drain" = "done" THEN "uncertain" ELSE @]
    BY <1>1
  <2>2. call[c] \in CallRecord
    BY <1>0
  <2>3. call' = [call EXCEPT ![c].pc = "drain", ![c].outcome = call[c].outcome]
    BY <1>0, <2>1, <2>2 DEF CallRecord
  <2>4. Goes(call, call', c, "drain", call[c].outcome)
    BY <1>0, <2>2, <2>3, ExceptGoes DEF CallRecord, Places, UnderWay
  <2>5. Cause
    BY <2>1 DEF CallsAreSound, CallIsSound
  <2> QED BY <1>0, <2>1, <2>4, <2>5, GoesIsSound DEF Moved, Goes
<1>2. CASE call' = call /\ ((\E k \in Cancelers : cancel[k].pc = "terminate") \/ closer = "terminate")
  BY <1>0, <1>2, SameCallsAreSound DEF Moved, EndHasCause
<1> QED BY <1>1, <1>2 DEF Kill, Moves

LEMMA DrainMoves ==
    ASSUME TransportIInv, DrainAll
    PROVE  Moved /\ Cause /\ dead
<1> USE DEF TransportIInv
<1> DEFINE g == Drained(call, None)
<1>0. call \in [Calls -> CallRecord] /\ dead' = dead /\ faulted' = faulted /\ None \notin Calls
  BY TransportAssumption DEF RestTypes, DrainAll
<1>1. /\ g \in [Calls -> CallRecord]
      /\ \A d \in Calls : \/ g[d] = call[d]
                          \/ /\ call[d].pc \in Registered /\ g[d].got \in {Closed, Uncertain}
                             /\ g[d].pc = call[d].pc /\ g[d].id = call[d].id
                             /\ g[d].outcome = call[d].outcome
  BY <1>0, DrainedIs
<1>2. CASE \E c \in Calls : call[c].pc = "drain" /\ call' = [g EXCEPT ![c].pc = "done", ![c].outcome = IF "done" = "done" THEN "uncertain" ELSE @]
  <2>1. PICK c \in Calls : call[c].pc = "drain" /\ call' = [g EXCEPT ![c].pc = "done", ![c].outcome = "uncertain"]
    BY <1>2
  <2> HIDE DEF g
  <2>2. Goes(g, call', c, "done", "uncertain")
    BY <1>1, <2>1, ExceptGoes DEF Places, Outcomes
  <2>3. Drains(c, "done", "uncertain")
    BY <1>1, <2>2 DEF Goes, Drains
  <2>4. Cause /\ dead
    BY <2>1 DEF CallsAreSound, CallIsSound
  <2>5. CallsAreSound' /\ IdsStay /\ (Cause => Cause') /\ (SharedIdentifier => SharedIdentifier')
    BY <1>0, <2>1, <2>3, <2>4, DrainsIsSound
  <2> QED BY <2>3, <2>4, <2>5 DEF Moved, Drains
<1>3. CASE call' = g /\ ((\E k \in Cancelers : cancel[k].pc = "drain") \/ closer = "drain")
  <2> HIDE DEF g
  <2>1. dead /\ Cause
    BY <1>3 DEF EndHasCause
  <2>2. Drains(None, "done", "none")
    BY <1>0, <1>1, <1>3 DEF Drains
  <2>3. CallsAreSound' /\ IdsStay /\ (Cause => Cause') /\ (SharedIdentifier => SharedIdentifier')
    BY <1>0, <2>1, <2>2, DrainsIsSound
  <2> QED BY <2>1, <2>2, <2>3 DEF Moved, Drains
<1> QED BY <1>2, <1>3 DEF DrainAll, Moves

LEMMA ReaderDrainMoves ==
    ASSUME TransportIInv, ReaderDrain
    PROVE  Moved /\ Cause /\ dead
<1> USE DEF TransportIInv
<1> DEFINE g == Drained(call, None)
<1>0. call \in [Calls -> CallRecord] /\ dead' = dead /\ faulted' = faulted /\ None \notin Calls /\ call' = g /\ reader = "drain"
  BY TransportAssumption DEF RestTypes, ReaderDrain
<1>1. /\ g \in [Calls -> CallRecord]
      /\ \A d \in Calls : \/ g[d] = call[d]
                          \/ /\ call[d].pc \in Registered /\ g[d].got \in {Closed, Uncertain}
                             /\ g[d].pc = call[d].pc /\ g[d].id = call[d].id
                             /\ g[d].outcome = call[d].outcome
  BY <1>0, DrainedIs
<1> HIDE DEF g
<1>2. dead /\ Cause
  BY <1>0 DEF EndHasCause
<1>3. Drains(None, "done", "none")
  BY <1>0, <1>1 DEF Drains
<1>4. CallsAreSound' /\ IdsStay /\ (Cause => Cause') /\ (SharedIdentifier => SharedIdentifier')
  BY <1>0, <1>2, <1>3, DrainsIsSound
<1> QED BY <1>2, <1>3, <1>4 DEF Moved, Drains

(* An answer is told to the call its identifier leads to.                   *)
Answered(c) ==
    LET f == Head(stdout)
    IN /\ f.kind # "message" /\ IsPending(f.id) /\ pending[f.id] = c
       /\ call' = [call EXCEPT ![c].got = [kind |-> f.kind, of |-> f.of]] /\ pending' = Without(call[c].id)

LEMMA ReadMoves ==
    ASSUME TransportIInv, ReadFrame
    PROVE  Moved
<1> USE DEF TransportIInv
<1>0. call \in [Calls -> CallRecord] /\ UNCHANGED <<dead, faulted>> /\ stdout # <<>>
  BY DEF RestTypes, ReadFrame
<1>1. CASE call' = call
  BY <1>0, <1>1, SameCallsAreSound DEF Moved
<1>2. CASE \E c \in Calls : Answered(c)
  <2>1. PICK c \in Calls : Answered(c)
    BY <1>2
  <2> DEFINE f == Head(stdout)
             t == [kind |-> f.kind, of |-> f.of]
  <2>2. /\ f.kind \in {"answered", "canceled"} /\ f.of \in Calls /\ f.id # None
        /\ f.id = call[f.of].id /\ call[c].id = f.id /\ call[c].pc \in Registered
    <3>1. 1 \in DOMAIN stdout /\ f = stdout[1] /\ f \in Frames
      BY <1>0, PipeIs DEF AnswersAreOfCalls, OutputIsOfCalls
    <3> QED BY <2>1, <3>1 DEF Answered, AnswersAreOfCalls, OutputIsOfCalls, PendingIsOpen, IsPending, Frames
  <2> HIDE DEF f
  <2>3. t \in Gots /\ t.kind \in {"answered", "canceled"} /\ t.of = f.of
    BY <2>2 DEF Gots
  <2>4. f.of # c => SharedIdentifier
    BY <2>2, SameIdIsShared
  <2>5. call' = [call EXCEPT ![c] = [call[c] EXCEPT !.got = t]]
    BY <1>0, <2>1 DEF Answered, f
  <2> HIDE DEF t
  <2>6. [call[c] EXCEPT !.got = t] \in CallRecord
    BY <1>0, <2>3 DEF CallRecord
  <2>7. call' \in [Calls -> CallRecord] /\ \A d \in Calls : d # c => call'[d] = call[d]
    BY <1>0, <2>5, <2>6
  <2>8. call'[c].pc = call[c].pc /\ call'[c].id = call[c].id /\ call'[c].outcome = call[c].outcome /\ call'[c].got = t
    BY <1>0, <2>5 DEF CallRecord
  <2>9. IdsStay
    BY <2>7, <2>8 DEF IdsStay
  <2>10. (SharedIdentifier => SharedIdentifier') /\ (Cause => Cause')
    BY <1>0, <2>9, CauseStays
  <2>11. ASSUME NEW d \in Calls
         PROVE  CallIsSound(d, call'[d], SharedIdentifier', Cause', dead')
    <3>1. CallIsSound(d, call[d], SharedIdentifier, Cause, dead)
      BY DEF CallsAreSound
    <3>2. CallIsSound(d, call[d], SharedIdentifier', Cause', dead')
      BY <1>0, <2>10, <3>1 DEF CallIsSound
    <3>3. CASE d # c
      BY <2>7, <3>2, <3>3
    <3>4. CASE d = c
      BY <2>2, <2>3, <2>4, <2>8, <2>10, <3>2, <3>4 DEF CallIsSound, Registered
    <3> QED BY <3>3, <3>4
  <2> QED BY <2>7, <2>9, <2>10, <2>11 DEF Moved, CallsAreSound
<1> QED BY <1>1, <1>2 DEF ReadFrame, Addressed, Answered

(* The steps that leave the calls alone.                                    *)
Beside ==
    \/ \E c \in Calls : PluginAnswers(c)
    \/ \E k \in Cancelers : CancelStep(k) \/ \E c \in Calls : CancelStart(k, c)
    \/ Shutdown \/ ReplyLock \/ ReplyWrite \/ ReadEnd \/ PluginReads \/ PluginCallsHost \/ Crash

LEMMA BesideMoves ==
    ASSUME TransportIInv, Beside \/ UNCHANGED transportVars
    PROVE  Moved
<1>1. ASSUME Beside
      PROVE  UNCHANGED call /\ (faulted => faulted') /\ (dead => dead')
  <2>1. ASSUME NEW k \in Cancelers, CancelStep(k) \/ \E c \in Calls : CancelStart(k, c)
        PROVE  UNCHANGED <<call, dead>> /\ (faulted => faulted')
    BY <2>1 DEF CancelStep, CancelLock, CancelWrite, CancelSeen, GraceOver, CancelStart
  <2>2. ASSUME ReplyLock \/ ReplyWrite \/ PluginReads \/ PluginCallsHost
        PROVE  UNCHANGED <<call, dead, faulted>>
    BY <2>2 DEF ReplyLock, ReplyWrite, PluginReads, PluginCallsHost
  <2>3. ASSUME Shutdown \/ ReadEnd \/ Crash \/ \E c \in Calls : PluginAnswers(c)
        PROVE  UNCHANGED call /\ (faulted => faulted') /\ (dead => dead')
    <3>1. CASE \E c \in Calls : PluginAnswers(c)
      BY <3>1 DEF PluginAnswers
    <3>2. CASE Shutdown \/ Crash
      BY <3>2 DEF Shutdown, Crash
    <3>3. CASE ReadEnd
      BY <3>3 DEF ReadEnd
    <3> QED BY <2>3, <3>1, <3>2, <3>3
  <2> QED BY <1>1, <2>1, <2>2, <2>3 DEF Beside
<1>2. UNCHANGED transportVars => UNCHANGED <<call, dead, faulted>>
  BY DEF transportVars
<1> QED BY <1>1, <1>2, SameCallsAreSound DEF Moved, TransportIInv, RestTypes

(* The next-state relation, one case per step of a call or of the process.  *)
LEMMA NextIs ==
    ASSUME TransportNext
    PROVE  \/ \E c \in Calls : Choose(c) \/ Admit(c) \/ Register(c) \/ LockWriter(c) \/ WritePart(c) \/ WriteFrame(c)
                             \/ WriteFails(c) \/ Deadline(c) \/ Settle(c) \/ DropCall(c)
           \/ Kill \/ DrainAll \/ ReadFrame \/ ReaderDrain \/ Beside
<1>1. \A c \in Calls : CallStep(c) => \/ Choose(c) \/ Admit(c) \/ Register(c) \/ LockWriter(c) \/ WritePart(c)
                                     \/ WriteFrame(c) \/ WriteFails(c) \/ Deadline(c) \/ Settle(c)
  BY DEF CallStep
<1>2. ReaderStep => ReadFrame \/ ReaderDrain \/ Beside
  BY DEF ReaderStep, Beside
<1> QED BY <1>1, <1>2 DEF TransportNext, Beside

(* Every step moves the calls soundly.                                      *)
LEMMA AllMove ==
    ASSUME TransportIInv, TransportNext \/ UNCHANGED transportVars
    PROVE  Moved
<1>1. CASE UNCHANGED transportVars
  BY <1>1, BesideMoves
<1>2. CASE TransportNext
  <2>1. ASSUME NEW c \in Calls, Choose(c) \/ Settle(c) \/ DropCall(c)
        PROVE  Moved
    BY <2>1, ChooseMoves, SettleMoves
  <2>2. ASSUME NEW c \in Calls,
               Admit(c) \/ Register(c) \/ LockWriter(c) \/ WritePart(c) \/ WriteFrame(c) \/ WriteFails(c) \/ Deadline(c)
        PROVE  Moved
    BY <2>2, StepsMove
  <2>3. Kill \/ DrainAll \/ ReadFrame \/ ReaderDrain \/ Beside => Moved
    BY KillMoves, DrainMoves, ReadMoves, ReaderDrainMoves, BesideMoves
  <2> QED BY <1>2, <2>1, <2>2, <2>3, NextIs
<1> QED BY <1>1, <1>2

-----------------------------------------------------------------------------
(* What is pending.                                                         *)

(* What is still pending is of a call that is where it was, or where it may *)
(* be answered.                                                             *)
LEMMA PendingStays ==
    ASSUME PendingIsOpen, DOMAIN pending' \subseteq DOMAIN pending,
           \A i \in DOMAIN pending' : /\ pending'[i] = pending[i]
                                    /\ \/ call'[pending[i]] = call[pending[i]]
                                       \/ /\ call'[pending[i]].pc \in Registered /\ call'[pending[i]].id = call[pending[i]].id
                                          /\ call'[pending[i]].got = call[pending[i]].got
    PROVE  PendingIsOpen'
  BY DEF PendingIsOpen

LEMMA WithoutIs ==
    ASSUME NEW i
    PROVE  /\ DOMAIN Without(i) = DOMAIN pending \ {i} /\ \A x \in DOMAIN pending \ {i} : Without(i)[x] = pending[x]
           /\ pending = Nothing => Without(i) = Nothing
  BY DEF Without, Nothing

LEMMA PendingStep ==
    ASSUME TransportIInv, TransportNext \/ UNCHANGED transportVars
    PROVE  PendingIsOpen'
<1> USE DEF TransportIInv
<1>0. call \in [Calls -> CallRecord]
  BY DEF RestTypes
<1>1. pending' = Nothing => PendingIsOpen'
  BY DEF PendingIsOpen, Nothing
<1>2. ASSUME UNCHANGED <<call, pending>>
      PROVE  PendingIsOpen'
  BY <1>2 DEF PendingIsOpen
<1>3. ASSUME NEW c \in Calls, Choose(c) \/ Admit(c)
      PROVE  PendingIsOpen'
  <2>1. pending' = pending /\ \A d \in Calls : d # c => call'[d] = call[d]
    BY <1>0, <1>3 DEF Choose, Admit
  <2>2. call[c].pc \notin Registered
    BY <1>3 DEF Choose, Admit, Registered
  <2> QED BY <2>1, <2>2, PendingStays DEF PendingIsOpen
<1>4. ASSUME NEW c \in Calls, Register(c)
      PROVE  PendingIsOpen'
  <2>1. call[c].pc = "register" /\ call[c].got = Open /\ call[c].id # None /\ call[c] \in CallRecord
    BY <1>0, <1>4 DEF Register, CallsAreSound, CallIsSound
  <2>2. CASE MayRegister(c)
    <3>1. call' = [call EXCEPT ![c].pc = "lock"]
      BY <1>4, <2>2 DEF Register
    <3>2. call'[c].pc \in Registered /\ call'[c].got = Open /\ call'[c].id = call[c].id /\ \A d \in Calls : d # c => call'[d] = call[d]
      BY <1>0, <2>1, <3>1 DEF Registered, CallRecord
    <3>3. pending' = [x \in DOMAIN pending \cup {call[c].id} |-> IF x = call[c].id THEN c ELSE pending[x]]
      BY <1>4, <2>2 DEF Register
    <3>4. call[c].id \in Identifiers
      BY <2>1 DEF CallRecord
    <3>5. DOMAIN pending' \subseteq Identifiers
      BY <3>3, <3>4 DEF PendingIsOpen
    <3>6. ASSUME NEW x \in DOMAIN pending'
          PROVE  pending'[x] \in Calls /\ call'[pending'[x]].pc \in Registered /\ call'[pending'[x]].id = x /\ call'[pending'[x]].got = Open
      <4>1. CASE x = call[c].id
        BY <3>2, <3>3, <4>1
      <4>2. CASE x # call[c].id
        <5>1. x \in DOMAIN pending /\ pending'[x] = pending[x]
          BY <3>3, <4>2
        <5>2. pending[x] # c
          BY <4>2, <5>1 DEF PendingIsOpen
        <5> QED BY <3>2, <5>1, <5>2 DEF PendingIsOpen
      <4> QED BY <4>1, <4>2
    <3> QED BY <3>5, <3>6 DEF PendingIsOpen
  <2>3. CASE ~MayRegister(c)
    <3>1. pending' = pending /\ \A d \in Calls : d # c => call'[d] = call[d]
      BY <1>0, <1>4, <2>3 DEF Register
    <3>2. call[c].pc \notin Registered
      BY <2>1 DEF Registered
    <3> QED BY <3>1, <3>2, PendingStays DEF PendingIsOpen
  <2> QED BY <2>2, <2>3
<1>5. ASSUME NEW c \in Calls, LockWriter(c) \/ WritePart(c) \/ WriteFrame(c)
      PROVE  PendingIsOpen'
  <2>1. PICK p \in Registered : call' = [call EXCEPT ![c].pc = p]
    BY <1>5 DEF LockWriter, WritePart, WriteFrame, Registered
  <2>2. pending' = pending
    BY <1>5 DEF LockWriter, WritePart, WriteFrame
  <2>3. call'[c].pc \in Registered /\ call'[c].id = call[c].id /\ call'[c].got = call[c].got /\ \A d \in Calls : d # c => call'[d] = call[d]
    BY <1>0, <2>1 DEF CallRecord
  <2> QED BY <2>2, <2>3, PendingStays DEF PendingIsOpen
<1>6. ASSUME NEW c \in Calls, pending' = Without(call[c].id), \A d \in Calls : d # c => call'[d] = call[d]
      PROVE  PendingIsOpen'
  <2>1. \A x \in DOMAIN pending' : x \in DOMAIN pending /\ x # call[c].id /\ pending'[x] = pending[x]
    BY <1>6, WithoutIs
  <2>2. \A x \in DOMAIN pending' : pending[x] # c /\ pending[x] \in Calls
    BY <2>1 DEF PendingIsOpen
  <2> QED BY <1>6, <2>1, <2>2, PendingStays
<1>7. ASSUME NEW c \in Calls, WriteFails(c) \/ Deadline(c)
      PROVE  PendingIsOpen'
  <2>1. pending' = Without(call[c].id) /\ \A d \in Calls : d # c => call'[d] = call[d]
    BY <1>0, <1>7 DEF WriteFails, Deadline
  <2> QED BY <1>6, <2>1
<1>8. ASSUME NEW c \in Calls, Settle(c) \/ DropCall(c)
      PROVE  PendingIsOpen'
  <2>1. CASE IsPending(call[c].id)
    BY <1>1, <1>8, <2>1 DEF Settle, DropCall, Guard
  <2>2. CASE ~IsPending(call[c].id)
    <3>1. pending' = pending /\ \A d \in Calls : d # c => call'[d] = call[d]
      BY <1>0, <1>8, <2>2 DEF Settle, DropCall, Guard
    <3>2. \A x \in DOMAIN pending : pending[x] # c
      BY <2>2 DEF IsPending, PendingIsOpen
    <3> QED BY <3>1, <3>2, PendingStays DEF PendingIsOpen
  <2> QED BY <2>1, <2>2
<1>9. ASSUME Kill
      PROVE  PendingIsOpen'
  <2>1. CASE call' = call
    BY <1>2, <1>9, <2>1 DEF Kill
  <2>2. CASE \E c \in Calls : call[c].pc = "terminate" /\ \A d \in Calls : d # c => call'[d] = call[d]
    BY <1>9, <2>2, PendingStays DEF Kill, PendingIsOpen, Registered
  <2>3. \/ call' = call
        \/ \E c \in Calls : call[c].pc = "terminate" /\ \A d \in Calls : d # c => call'[d] = call[d]
    BY <1>0, <1>9 DEF Kill, Moves
  <2> QED BY <2>1, <2>2, <2>3
<1>10. ASSUME ReadFrame
       PROVE  PendingIsOpen'
  <2>1. CASE UNCHANGED <<call, pending>>
    BY <1>2, <2>1
  <2>2. CASE \E c \in Calls : Answered(c)
    <3>1. PICK c \in Calls : Answered(c)
      BY <2>2
    <3>2. pending' = Without(call[c].id) /\ \A d \in Calls : d # c => call'[d] = call[d]
      BY <1>0, <3>1 DEF Answered
    <3> QED BY <1>6, <3>2
  <2> QED BY <1>10, <2>1, <2>2 DEF ReadFrame, Addressed, Answered
<1>11. ASSUME Beside \/ UNCHANGED transportVars
       PROVE  PendingIsOpen'
  <2>1. UNCHANGED <<call, pending>>
    BY <1>11 DEF Beside, PluginAnswers, CancelStep, CancelLock, CancelWrite, CancelSeen, GraceOver, CancelStart, Shutdown,
                 ReplyLock, ReplyWrite, ReadEnd, PluginReads, PluginCallsHost, Crash, transportVars
  <2> QED BY <1>2, <2>1
<1>12. DrainAll \/ ReaderDrain => PendingIsOpen'
  BY <1>1 DEF DrainAll, ReaderDrain
<1> QED BY <1>3, <1>4, <1>5, <1>7, <1>8, <1>9, <1>10, <1>11, <1>12, NextIs

-----------------------------------------------------------------------------
(* What the plugin was asked and answers.                                   *)
LEMMA InputStays ==
    ASSUME InputIsOfCalls, IdsStay,
           \/ stdin' = stdin \/ (stdin # <<>> /\ stdin' = Tail(stdin))
           \/ \E e \in Inputs : stdin' = Append(stdin, e) /\ (e.what = "call" => e.of \in Calls /\ call'[e.of].id # None)
    PROVE  InputIsOfCalls'
<1>0. \A n \in DOMAIN stdin : stdin[n].what = "call" => stdin[n].of \in Calls /\ call'[stdin[n].of].id # None
  BY DEF InputIsOfCalls, IdsStay
<1>1. CASE stdin' = stdin
  BY <1>0, <1>1 DEF InputIsOfCalls
<1>2. CASE stdin # <<>> /\ stdin' = Tail(stdin)
  <2>1. stdin' \in Seq(Inputs) /\ \A n \in DOMAIN stdin' : n + 1 \in DOMAIN stdin /\ stdin'[n] = stdin[n + 1]
    BY <1>2, PipeIs DEF InputIsOfCalls
  <2> QED BY <1>0, <2>1 DEF InputIsOfCalls
<1>3. CASE \E e \in Inputs : stdin' = Append(stdin, e) /\ (e.what = "call" => e.of \in Calls /\ call'[e.of].id # None)
  <2>1. PICK e \in Inputs : stdin' = Append(stdin, e) /\ (e.what = "call" => e.of \in Calls /\ call'[e.of].id # None)
    BY <1>3
  <2>2. stdin' \in Seq(Inputs) /\ \A n \in DOMAIN stdin' : stdin'[n] = e \/ (n \in DOMAIN stdin /\ stdin'[n] = stdin[n])
    BY <2>1, PipeIs DEF InputIsOfCalls
  <2> QED BY <1>0, <2>1, <2>2 DEF InputIsOfCalls
<1> QED BY <1>1, <1>2, <1>3

LEMMA OutputStays ==
    ASSUME OutputIsOfCalls, IdsStay,
           \/ stdout' = stdout \/ (stdout # <<>> /\ stdout' = Tail(stdout))
           \/ \E e \in Frames : /\ stdout' = Append(stdout, e)
                                /\ e.kind # "message" => e.of \in Calls /\ e.id = call[e.of].id /\ e.id # None
    PROVE  OutputIsOfCalls'
<1>0. ASSUME NEW f, f.of \in Calls, f.id = call[f.of].id, f.id # None
      PROVE  f.id = call'[f.of].id
  BY <1>0 DEF IdsStay
<1>1. \A n \in DOMAIN stdout : stdout[n].kind # "message" =>
        stdout[n].of \in Calls /\ stdout[n].id = call'[stdout[n].of].id /\ stdout[n].id # None
  BY <1>0 DEF OutputIsOfCalls
<1>2. CASE stdout' = stdout
  BY <1>1, <1>2 DEF OutputIsOfCalls
<1>3. CASE stdout # <<>> /\ stdout' = Tail(stdout)
  <2>1. stdout' \in Seq(Frames) /\ \A n \in DOMAIN stdout' : n + 1 \in DOMAIN stdout /\ stdout'[n] = stdout[n + 1]
    BY <1>3, PipeIs DEF OutputIsOfCalls
  <2> QED BY <1>1, <2>1 DEF OutputIsOfCalls
<1>4. CASE \E e \in Frames : /\ stdout' = Append(stdout, e)
                             /\ e.kind # "message" => e.of \in Calls /\ e.id = call[e.of].id /\ e.id # None
  <2>1. PICK e \in Frames : /\ stdout' = Append(stdout, e)
                            /\ e.kind # "message" => e.of \in Calls /\ e.id = call[e.of].id /\ e.id # None
    BY <1>4
  <2>2. stdout' \in Seq(Frames) /\ \A n \in DOMAIN stdout' : stdout'[n] = e \/ (n \in DOMAIN stdout /\ stdout'[n] = stdout[n])
    <3>1. stdout \in Seq(Frames) /\ e \in Frames /\ stdout' = Append(stdout, e)
      BY <2>1 DEF OutputIsOfCalls
    <3> QED BY ONLY <3>1, PipeIs
  <2>3. e.kind # "message" => e.of \in Calls /\ e.id = call'[e.of].id /\ e.id # None
    BY <2>1 DEF IdsStay
  <2> QED BY <1>1, <2>2, <2>3 DEF OutputIsOfCalls
<1> QED BY <1>2, <1>3, <1>4

(* What a step does to the pipes.                                           *)
LEMMA PipeSteps ==
    ASSUME TransportNext, TransportIInv, IdsStay
    PROVE  /\ \/ stdin' = stdin \/ (stdin # <<>> /\ stdin' = Tail(stdin))
              \/ \E e \in Inputs : stdin' = Append(stdin, e) /\ (e.what = "call" => e.of \in Calls /\ call'[e.of].id # None)
           /\ \/ stdout' = stdout \/ (stdout # <<>> /\ stdout' = Tail(stdout))
              \/ \E e \in Frames : /\ stdout' = Append(stdout, e)
                                   /\ e.kind # "message" => e.of \in Calls /\ e.id = call[e.of].id /\ e.id # None
           /\ asked' \subseteq asked \cup {c \in Calls : call[c].id # None}
<1> USE DEF TransportIInv
<1>1. ASSUME NEW c \in Calls, WriteFrame(c)
      PROVE  UNCHANGED <<stdout, asked>> /\ \E e \in Inputs : stdin' = Append(stdin, e) /\ e.of \in Calls /\ call'[e.of].id # None
  <2>1. call[c].id # None
    BY <1>1 DEF WriteFrame, CallsAreSound, CallIsSound
  <2>2. [what |-> "call", of |-> c] \in Inputs /\ stdin' = Append(stdin, [what |-> "call", of |-> c]) /\ UNCHANGED <<stdout, asked>>
    BY <1>1 DEF WriteFrame, Inputs, pluginVars
  <2> QED BY <2>1, <2>2 DEF IdsStay
<1>2. ASSUME NEW c \in Calls, WritePart(c)
      PROVE  UNCHANGED <<stdout, asked>> /\ \E e \in Inputs : stdin' = Append(stdin, e) /\ e.what # "call"
  <2>1. [what |-> "part", of |-> c] \in Inputs /\ stdin' = Append(stdin, [what |-> "part", of |-> c]) /\ UNCHANGED <<stdout, asked>>
    BY <1>2 DEF WritePart, Inputs, pluginVars
  <2> QED BY <2>1
<1>3. ASSUME NEW k \in Cancelers, CancelStep(k) \/ \E c \in Calls : CancelStart(k, c)
      PROVE  UNCHANGED <<stdout, asked>> /\ (stdin' = stdin \/ \E e \in Inputs : stdin' = Append(stdin, e) /\ e.what # "call")
  <2>1. CASE CancelWrite(k)
    <3>1. [what |-> "cancel", of |-> cancel[k].of] \in Inputs
      BY <2>1 DEF CancelWrite, Inputs, EndHasCause
    <3>2. stdin' \in {stdin, Append(stdin, [what |-> "cancel", of |-> cancel[k].of])} /\ UNCHANGED <<stdout, asked>>
      BY <2>1 DEF CancelWrite, pluginVars
    <3> QED BY <3>1, <3>2
  <2>2. CASE ~CancelWrite(k)
    <3>1. UNCHANGED <<stdin, stdout, asked>>
      BY <1>3, <2>2 DEF CancelStep, CancelLock, CancelSeen, GraceOver, CancelStart, pluginVars, pipeVars
    <3> QED BY <3>1
  <2> QED BY <2>1, <2>2
<1>4. ASSUME ReplyWrite
      PROVE  UNCHANGED <<stdout, asked>> /\ (stdin' = stdin \/ \E e \in Inputs : stdin' = Append(stdin, e) /\ e.what # "call")
  <2>1. Reply \in Inputs /\ Reply.what # "call"
    BY DEF Reply, Inputs
  <2> QED BY <1>4, <2>1 DEF ReplyWrite, pluginVars
<1>5. ASSUME PluginReads
      PROVE  stdin # <<>> /\ stdin' = Tail(stdin) /\ stdout' = stdout /\ asked' \subseteq asked \cup {c \in Calls : call[c].id # None}
  <2>1. 1 \in DOMAIN stdin /\ Head(stdin) = stdin[1]
    BY <1>5, PipeIs DEF PluginReads, AnswersAreOfCalls, InputIsOfCalls
  <2>2. Head(stdin).what = "call" => Head(stdin).of \in Calls /\ call[Head(stdin).of].id # None
    BY <2>1 DEF AnswersAreOfCalls, InputIsOfCalls
  <2> QED BY <1>5, <2>2 DEF PluginReads
<1>6. ASSUME NEW c \in Calls, PluginAnswers(c)
      PROVE  /\ stdin' = stdin /\ asked' \subseteq asked
             /\ \E e \in Frames : stdout' = Append(stdout, e) /\ e.of \in Calls /\ e.id = call[e.of].id /\ e.id # None
  <2>1. PICK kind \in {"answered", "canceled"} : stdout' = Append(stdout, [kind |-> kind, id |-> call[c].id, of |-> c])
    BY <1>6 DEF PluginAnswers
  <2>2. call[c].id # None /\ call[c].id \in Identifiers
    <3>1. call[c] \in CallRecord /\ c \in asked
      BY <1>6 DEF PluginAnswers, RestTypes
    <3> QED BY <3>1 DEF CallRecord, AnswersAreOfCalls
  <2>3. [kind |-> kind, id |-> call[c].id, of |-> c] \in Frames
    BY <2>2 DEF Frames
  <2>4. stdin' = stdin /\ asked' \subseteq asked
    BY <1>6 DEF PluginAnswers
  <2> QED BY <2>1, <2>2, <2>3, <2>4
<1>7. ASSUME PluginCallsHost
      PROVE  UNCHANGED <<stdin, asked>> /\ \E e \in Frames : stdout' = Append(stdout, e) /\ e.kind = "message"
  <2>1. [kind |-> "message", id |-> None, of |-> None] \in Frames
    BY DEF Frames
  <2> QED BY <1>7, <2>1 DEF PluginCallsHost
<1>8. ASSUME ReadFrame
      PROVE  UNCHANGED <<stdin, asked>> /\ stdout # <<>> /\ stdout' = Tail(stdout)
  BY <1>8 DEF ReadFrame, pluginVars
<1>9. ASSUME NEW c \in Calls, \/ Choose(c) \/ Admit(c) \/ Register(c) \/ LockWriter(c) \/ WriteFails(c) \/ Deadline(c)
                             \/ Settle(c) \/ DropCall(c)
      PROVE  UNCHANGED <<stdin, stdout, asked>>
  BY <1>9 DEF Choose, Admit, Register, LockWriter, WriteFails, Deadline, Settle, DropCall, pluginVars, pipeVars
<1>10. ASSUME Kill \/ DrainAll \/ ReaderDrain \/ Shutdown \/ ReplyLock \/ ReadEnd \/ Crash
       PROVE  UNCHANGED <<stdin, stdout, asked>>
  BY <1>10 DEF Kill, DrainAll, ReaderDrain, Shutdown, ReplyLock, ReadEnd, Crash, pluginVars, pipeVars
<1> QED
  BY <1>1, <1>2, <1>3, <1>4, <1>5, <1>6, <1>7, <1>8, <1>9, <1>10, NextIs DEF Beside

LEMMA AnswersStep ==
    ASSUME TransportIInv, TransportNext \/ UNCHANGED transportVars
    PROVE  AnswersAreOfCalls'
<1>1. IdsStay
  BY AllMove DEF Moved
<1>2. CASE TransportNext
  <2>1. InputIsOfCalls'
    BY <1>1, <1>2, PipeSteps, InputStays DEF TransportIInv, AnswersAreOfCalls
  <2>2. OutputIsOfCalls'
    BY <1>1, <1>2, PipeSteps, OutputStays DEF TransportIInv, AnswersAreOfCalls
  <2>3. asked' \subseteq {c \in Calls : call[c].id # None}
    BY <1>1, <1>2, PipeSteps DEF TransportIInv, AnswersAreOfCalls
  <2> QED BY <1>1, <2>1, <2>2, <2>3 DEF AnswersAreOfCalls, IdsStay
<1>3. CASE UNCHANGED transportVars
  BY <1>3 DEF transportVars, TransportIInv, AnswersAreOfCalls, InputIsOfCalls, OutputIsOfCalls
<1> QED BY <1>2, <1>3

-----------------------------------------------------------------------------
(* How the process ends.                                                    *)
LEMMA EndStays ==
    ASSUME EndHasCause, Cause => Cause', UNCHANGED <<dead, process, cancel, closer, drained>>,
           reader' = "drain" => reader = "drain", drained => pending' = Nothing
    PROVE  EndHasCause'
  BY DEF EndHasCause

LEMMA EndStep ==
    ASSUME TransportIInv, TransportNext \/ UNCHANGED transportVars
    PROVE  EndHasCause'
<1> USE DEF TransportIInv
<1>0. Moved /\ (Cause => Cause')
  BY AllMove DEF Moved
<1>1. ASSUME NEW c \in Calls, Choose(c) \/ Admit(c) \/ LockWriter(c) \/ WritePart(c) \/ WriteFrame(c)
      PROVE  EndHasCause'
  <2>1. UNCHANGED <<dead, process, cancel, closer, drained, reader, pending>>
    BY <1>1 DEF Choose, Admit, LockWriter, WritePart, WriteFrame
  <2> QED BY <1>0, <2>1, EndStays DEF EndHasCause
<1>2. ASSUME NEW c \in Calls, Register(c)
      PROVE  EndHasCause'
  <2>1. UNCHANGED <<dead, process, cancel, closer, drained, reader>>
    BY <1>2 DEF Register
  <2>2. drained => pending' = pending
    BY <1>2 DEF Register, MayRegister, EndHasCause
  <2> QED BY <1>0, <2>1, <2>2, EndStays DEF EndHasCause
<1>3. ASSUME NEW c \in Calls, WriteFails(c) \/ Deadline(c)
      PROVE  EndHasCause'
  <2>1. UNCHANGED <<dead, process, cancel, closer, drained, reader>> /\ pending' = Without(call[c].id)
    BY <1>3 DEF WriteFails, Deadline
  <2>2. drained => pending' = Nothing
    BY <2>1, WithoutIs DEF EndHasCause
  <2> QED BY <1>0, <2>1, <2>2, EndStays
<1>4. ASSUME ReadFrame
      PROVE  EndHasCause'
  <2>1. UNCHANGED <<dead, process, cancel, closer, drained>> /\ (reader' = "drain" => reader = "drain")
    BY <1>4 DEF ReadFrame
  <2>2. pending' = pending \/ \E i : pending' = Without(i)
    BY <1>4 DEF ReadFrame
  <2>3. drained => pending' = Nothing
    BY <2>2, WithoutIs DEF EndHasCause
  <2> QED BY <1>0, <2>1, <2>3, EndStays
<1>5. ASSUME NEW c \in Calls, Settle(c) \/ DropCall(c)
      PROVE  EndHasCause'
  <2>1. UNCHANGED <<cancel, closer, reader>>
    BY <1>5 DEF Settle, DropCall
  <2>2. CASE IsPending(call[c].id)
    <3>1. dead' /\ process' = "gone" /\ drained' /\ pending' = Nothing
      BY <1>5, <2>2 DEF Settle, DropCall, Guard
    <3>2. Cause'
      BY <1>5, <2>2, SettleMoves
    <3> QED BY <2>1, <3>1, <3>2 DEF EndHasCause
  <2>3. CASE ~IsPending(call[c].id)
    <3>1. UNCHANGED <<dead, process, drained, pending>>
      BY <1>5, <2>3 DEF Settle, DropCall, Guard
    <3> QED BY <1>0, <2>1, <3>1, EndStays DEF EndHasCause
  <2> QED BY <2>2, <2>3
<1>6. ASSUME Kill
      PROVE  EndHasCause'
  <2>1. dead' /\ process' = "gone" /\ UNCHANGED <<pending, drained, reader>>
    BY <1>6 DEF Kill
  <2>2. Cause'
    BY <1>0, <1>6, KillMoves
  <2>3. closer' \in {closer, "drain"}
    BY <1>6 DEF Kill, Moves
  <2>4. cancel' = cancel \/ \E k \in Cancelers : cancel' = [cancel EXCEPT ![k].pc = "drain"]
    BY <1>6 DEF Kill, Moves
  <2>5. /\ cancel' \in [Cancelers -> [pc : {"none", "lock", "write", "poll", "terminate", "drain", "acknowledged", "ignored"}, of : Calls \cup {None}]]
        /\ \A k \in Cancelers : cancel'[k].pc \in {"lock", "write", "poll"} => cancel'[k].of \in Calls
    BY <2>4 DEF EndHasCause
  <2> QED BY <2>1, <2>2, <2>3, <2>5 DEF EndHasCause
<1>7. ASSUME DrainAll
      PROVE  EndHasCause'
  <2>1. drained' /\ pending' = Nothing /\ UNCHANGED <<dead, process, reader>>
    BY <1>7 DEF DrainAll
  <2>2. Cause' /\ dead'
    BY <1>0, <1>7, <2>1, DrainMoves
  <2>3. closer' \in {closer, "done"}
    BY <1>7 DEF DrainAll, Moves
  <2>4. cancel' = cancel \/ \E k \in Cancelers : cancel' = [cancel EXCEPT ![k].pc = "ignored"]
    BY <1>7 DEF DrainAll, Moves
  <2>5. /\ cancel' \in [Cancelers -> [pc : {"none", "lock", "write", "poll", "terminate", "drain", "acknowledged", "ignored"}, of : Calls \cup {None}]]
        /\ \A k \in Cancelers : cancel'[k].pc \in {"lock", "write", "poll"} => cancel'[k].of \in Calls
    BY <2>4 DEF EndHasCause
  <2> QED BY <2>1, <2>2, <2>3, <2>5 DEF EndHasCause
<1>8. ASSUME ReaderDrain
      PROVE  EndHasCause'
  <2>1. drained' /\ pending' = Nothing /\ reader' = "done" /\ UNCHANGED <<dead, process, cancel, closer>>
    BY <1>8 DEF ReaderDrain
  <2> QED BY <1>0, <1>8, <2>1, ReaderDrainMoves DEF EndHasCause
<1>9. ASSUME ReadEnd
      PROVE  EndHasCause'
  BY <1>0, <1>9 DEF ReadEnd, EndHasCause
<1>10. ASSUME Crash \/ Shutdown
       PROVE  EndHasCause'
  <2>1. Cause'
    BY <1>10 DEF Crash, Shutdown, Cause
  <2> QED BY <1>10, <2>1 DEF Crash, Shutdown, EndHasCause
<1>11. ASSUME ReplyLock \/ ReplyWrite \/ PluginReads \/ PluginCallsHost \/ (\E c \in Calls : PluginAnswers(c)) \/ UNCHANGED transportVars
       PROVE  EndHasCause'
  <2>1. UNCHANGED <<dead, process, cancel, closer, drained, pending>> /\ (reader' = "drain" => reader = "drain")
    <3>1. CASE ReplyLock \/ ReplyWrite
      BY <3>1 DEF ReplyLock, ReplyWrite
    <3>2. CASE PluginReads \/ PluginCallsHost \/ (\E c \in Calls : PluginAnswers(c))
      BY <3>2 DEF PluginReads, PluginCallsHost, PluginAnswers
    <3>3. CASE UNCHANGED transportVars
      BY <3>3 DEF transportVars
    <3> QED BY <1>11, <3>1, <3>2, <3>3
  <2> QED BY <1>0, <2>1, EndStays DEF EndHasCause
<1>12. ASSUME NEW k \in Cancelers, CancelStep(k) \/ \E c \in Calls : CancelStart(k, c)
       PROVE  EndHasCause'
  <2>1. UNCHANGED <<dead, process, closer, drained, pending, reader>>
    BY <1>12 DEF CancelStep, CancelLock, CancelWrite, CancelSeen, GraceOver, CancelStart
  <2>2. cancel[k] \in [pc : {"none", "lock", "write", "poll", "terminate", "drain", "acknowledged", "ignored"}, of : Calls \cup {None}]
    BY DEF EndHasCause
  <2>3. PICK p, d : /\ cancel' = [cancel EXCEPT ![k] = [pc |-> p, of |-> d]]
                    /\ p \in {"lock", "write", "poll", "terminate", "acknowledged"} /\ d \in Calls \cup {None}
                    /\ p \in {"lock", "write", "poll"} => d \in Calls
                    /\ p = "terminate" => Cause'
    <3>0. ASSUME NEW p
          PROVE  [cancel EXCEPT ![k].pc = p] = [cancel EXCEPT ![k] = [pc |-> p, of |-> cancel[k].of]]
      <4>1. [cancel[k] EXCEPT !.pc = p] = [pc |-> p, of |-> cancel[k].of]
        BY <2>2
      <4>2. [cancel EXCEPT ![k].pc = p] = [cancel EXCEPT ![k] = [cancel[k] EXCEPT !.pc = p]]
        BY DEF EndHasCause
      <4> QED BY <4>1, <4>2
    <3>1. CASE \E c \in Calls : CancelStart(k, c)
      <4>1. PICK c \in Calls : cancel' = [cancel EXCEPT ![k] = [pc |-> "lock", of |-> c]]
        BY <3>1 DEF CancelStart
      <4> WITNESS "lock", c
      <4> QED BY <4>1
    <3>2. CASE CancelLock(k)
      BY <3>0, <3>2, <2>2 DEF CancelLock, EndHasCause
    <3>3. CASE CancelWrite(k)
      <4>1. cancel[k].of \in Calls
        BY <3>3 DEF CancelWrite, EndHasCause
      <4>2. cancel' = [cancel EXCEPT ![k].pc = "poll"] \/ (process = "gone" /\ cancel' = [cancel EXCEPT ![k].pc = "terminate"])
        BY <3>3 DEF CancelWrite
      <4> QED BY <1>0, <3>0, <4>1, <4>2 DEF EndHasCause
    <3>4. CASE CancelSeen(k)
      BY <3>0, <3>4, <2>2 DEF CancelSeen
    <3>5. CASE GraceOver(k)
      BY <3>0, <3>5, <2>2 DEF GraceOver, Cause
    <3> QED BY <1>12, <3>1, <3>2, <3>3, <3>4, <3>5 DEF CancelStep
  <2>4. /\ cancel' \in [Cancelers -> [pc : {"none", "lock", "write", "poll", "terminate", "drain", "acknowledged", "ignored"}, of : Calls \cup {None}]]
        /\ cancel'[k].pc = p /\ cancel'[k].of = d /\ \A j \in Cancelers : j # k => cancel'[j] = cancel[j]
    BY <2>3 DEF EndHasCause
  <2> QED BY <1>0, <2>1, <2>3, <2>4 DEF EndHasCause
<1> QED
  BY <1>1, <1>2, <1>3, <1>4, <1>5, <1>6, <1>7, <1>8, <1>9, <1>10, <1>11, <1>12, NextIs DEF Beside

-----------------------------------------------------------------------------
(* The types, and how many calls are with the plugin.                       *)
LEMMA RestStep ==
    ASSUME TransportIInv, TransportNext \/ UNCHANGED transportVars
    PROVE  RestTypes'
<1> USE DEF TransportIInv
<1>0. call' \in [Calls -> CallRecord]
  BY AllMove DEF Moved
<1> HIDE DEF TransportIInv
<1>1. RestTypes
  BY DEF TransportIInv
<1>2. ASSUME NEW c \in Calls, \/ Choose(c) \/ Admit(c) \/ Register(c) \/ WritePart(c) \/ LockWriter(c) \/ WriteFrame(c)
                             \/ WriteFails(c) \/ Deadline(c) \/ PluginAnswers(c)
      PROVE  RestTypes'
  <2>1. writer' \in {writer, c, None} /\ faulted' \in {faulted, TRUE} /\ UNCHANGED <<dead, process, reader, closer, drained>>
    BY <1>2 DEF Choose, Admit, Register, WritePart, LockWriter, WriteFrame, WriteFails, Deadline, PluginAnswers, pluginVars
  <2>2. messages' \in 0 .. MaxMessages
    BY <1>1, <1>2, TransportAssumption DEF Choose, Admit, Register, WritePart, LockWriter, WriteFrame, WriteFails, Deadline, PluginAnswers,
                                        pluginVars, RestTypes
  <2> QED BY <1>0, <1>1, <2>1, <2>2 DEF RestTypes
<1>3. ASSUME NEW c \in Calls, Settle(c) \/ DropCall(c)
      PROVE  RestTypes'
  <2>1. writer' \in {writer, None} /\ faulted' \in {faulted, TRUE} /\ UNCHANGED <<messages, reader, closer>>
    BY <1>3 DEF Settle, DropCall, Unlocked, pluginVars
  <2>2. dead' \in {dead, TRUE} /\ process' \in {process, "gone"} /\ drained' \in {drained, TRUE}
    BY <1>3 DEF Settle, DropCall, Guard
  <2>3. dead' \in BOOLEAN /\ drained' \in BOOLEAN /\ faulted' \in BOOLEAN
    BY <1>1, <2>1, <2>2 DEF RestTypes
  <2>4. process' \in {"up", "gone"} /\ writer' \in Calls \cup Cancelers \cup {"reader", None}
    BY <1>1, <2>1, <2>2 DEF RestTypes
  <2> QED BY <1>0, <1>1, <2>1, <2>3, <2>4 DEF RestTypes
<1>4. ASSUME Kill \/ DrainAll
      PROVE  RestTypes'
  <2>1. closer' \in {closer, "drain", "done"}
    BY <1>4 DEF Kill, DrainAll, Moves
  <2>2. CASE Kill
    <3>1. UNCHANGED <<writer, messages, reader, faulted, drained>> /\ dead' = TRUE /\ process' = "gone"
      BY <2>2 DEF Kill, pluginVars
    <3> QED BY <1>0, <1>1, <2>1, <3>1 DEF RestTypes
  <2>3. CASE DrainAll
    <3>1. UNCHANGED <<writer, messages, reader, faulted, dead, process>> /\ drained' = TRUE
      BY <2>3 DEF DrainAll, pluginVars
    <3> QED BY <1>0, <1>1, <2>1, <3>1 DEF RestTypes
  <2> QED BY <1>4, <2>2, <2>3
<1>5. ASSUME ReadFrame \/ ReaderDrain \/ ReplyLock \/ ReplyWrite \/ ReadEnd
      PROVE  RestTypes'
  <2>1. /\ writer' \in {writer, "reader", None} /\ reader' \in {reader, "read", "lock", "write", "drain", "done"}
        /\ dead' \in {dead, TRUE} /\ drained' \in {drained, TRUE} /\ UNCHANGED <<process, messages, closer, faulted>>
    BY <1>5 DEF ReadFrame, ReaderDrain, ReplyLock, ReplyWrite, ReadEnd, pluginVars
  <2>2. dead' \in BOOLEAN /\ drained' \in BOOLEAN
    BY <1>1, <2>1 DEF RestTypes
  <2>3. reader' \in {"read", "lock", "write", "drain", "done"} /\ writer' \in Calls \cup Cancelers \cup {"reader", None}
    BY <1>1, <2>1 DEF RestTypes
  <2> QED BY <1>0, <1>1, <2>1, <2>2, <2>3 DEF RestTypes
<1>6. ASSUME NEW k \in Cancelers, CancelStep(k) \/ \E c \in Calls : CancelStart(k, c)
      PROVE  RestTypes'
  <2>1. writer' \in {writer, k, None} /\ faulted' \in {faulted, TRUE} /\ UNCHANGED <<dead, process, messages, reader, closer, drained>>
    BY <1>6 DEF CancelStep, CancelLock, CancelWrite, CancelSeen, GraceOver, CancelStart, pluginVars
  <2> QED BY <1>0, <1>1, <2>1 DEF RestTypes
<1>7. ASSUME PluginReads \/ PluginCallsHost \/ Crash \/ Shutdown
      PROVE  RestTypes'
  <2>1. messages' \in 0 .. MaxMessages
    BY <1>1, <1>7, TransportAssumption DEF RestTypes, PluginReads, PluginCallsHost, Crash, Shutdown, pluginVars
  <2>2. /\ UNCHANGED <<dead, writer, reader, drained>> /\ process' \in {process, "gone"} /\ closer' \in {closer, "terminate"}
        /\ faulted' \in {faulted, TRUE}
    <3>1. CASE PluginReads \/ PluginCallsHost
      BY <3>1 DEF PluginReads, PluginCallsHost
    <3>2. CASE Crash
      BY <3>2 DEF Crash
    <3>3. CASE Shutdown
      BY <3>3 DEF Shutdown
    <3> QED BY <1>7, <3>1, <3>2, <3>3
  <2> QED BY <1>0, <1>1, <2>1, <2>2 DEF RestTypes
<1>8. ASSUME UNCHANGED transportVars
      PROVE  RestTypes'
  BY <1>1, <1>8 DEF transportVars, RestTypes
<1> QED
  BY <1>2, <1>3, <1>4, <1>5, <1>6, <1>7, <1>8, NextIs DEF Beside

(* Where no call but c moves.                                               *)
LEMMA InCallIs ==
    ASSUME NEW c \in Calls, \A d \in Calls : d # c => call'[d].pc = call[d].pc
    PROVE  /\ call'[c].pc \in UnderWay => InCall' = InCall \cup {c}
           /\ call'[c].pc \notin UnderWay => InCall' = InCall \ {c}
           /\ c \in InCall <=> call[c].pc \in UnderWay
  BY DEF InCall, UnderWay

LEMMA InCallIsFinite == IsFiniteSet(InCall)
  BY TransportAssumption, FS_Subset DEF InCall

LEMMA CountGoes ==
    ASSUME CountIsOfCalls, NEW c \in Calls, \A d \in Calls : d # c => call'[d].pc = call[d].pc,
           \/ call[c].pc \in UnderWay /\ call'[c].pc \in UnderWay /\ inflight' = inflight
           \/ call[c].pc \notin UnderWay /\ call'[c].pc \notin UnderWay /\ inflight' = inflight
           \/ call[c].pc \notin UnderWay /\ call'[c].pc \in UnderWay /\ inflight' = inflight + 1 /\ inflight < MaxInflight
           \/ call[c].pc \in UnderWay /\ call'[c].pc \notin UnderWay /\ inflight' = inflight - 1
    PROVE  CountIsOfCalls'
<1>1. IsFiniteSet(InCall) /\ Cardinality(InCall) \in Nat /\ inflight \in Nat /\ MaxInflight \in Nat
  BY InCallIsFinite, FS_CardinalityType, TransportAssumption DEF CountIsOfCalls
<1>2. CASE call[c].pc \in UnderWay /\ call'[c].pc \in UnderWay /\ inflight' = inflight
  <2>1. InCall' = InCall
    BY <1>2, InCallIs
  <2> QED BY <1>2, <2>1 DEF CountIsOfCalls
<1>3. CASE call[c].pc \notin UnderWay /\ call'[c].pc \notin UnderWay /\ inflight' = inflight
  <2>1. InCall' = InCall
    BY <1>3, InCallIs
  <2> QED BY <1>3, <2>1 DEF CountIsOfCalls
<1>4. CASE call[c].pc \notin UnderWay /\ call'[c].pc \in UnderWay /\ inflight' = inflight + 1 /\ inflight < MaxInflight
  <2>1. InCall' = InCall \cup {c} /\ c \notin InCall
    BY <1>4, InCallIs
  <2>2. Cardinality(InCall') = Cardinality(InCall) + 1
    BY <1>1, <2>1, FS_AddElement
  <2> QED BY <1>1, <1>4, <2>2 DEF CountIsOfCalls
<1>5. CASE call[c].pc \in UnderWay /\ call'[c].pc \notin UnderWay /\ inflight' = inflight - 1
  <2>1. InCall' = InCall \ {c} /\ c \in InCall
    BY <1>5, InCallIs
  <2>2. Cardinality(InCall') = Cardinality(InCall) - 1
    BY <1>1, <2>1, FS_RemoveElement
  <2> QED BY <1>1, <1>5, <2>2 DEF CountIsOfCalls
<1> QED BY <1>2, <1>3, <1>4, <1>5

LEMMA CountStays ==
    ASSUME CountIsOfCalls, \A d \in Calls : call'[d].pc = call[d].pc, inflight' = inflight
    PROVE  CountIsOfCalls'
<1>1. InCall' = InCall
  BY DEF InCall
<1> QED BY <1>1 DEF CountIsOfCalls

LEMMA CountStep ==
    ASSUME TransportIInv, TransportNext \/ UNCHANGED transportVars
    PROVE  CountIsOfCalls'
<1> USE DEF TransportIInv
<1>0. call \in [Calls -> CallRecord] /\ \A d \in Calls : call[d] \in CallRecord
  BY DEF RestTypes
<1>1. ASSUME NEW c \in Calls, NEW p, call' = [call EXCEPT ![c].pc = p]
      PROVE  call'[c].pc = p /\ \A d \in Calls : d # c => call'[d].pc = call[d].pc
  BY <1>0, <1>1 DEF CallRecord
<1>2. ASSUME NEW c \in Calls, Choose(c)
      PROVE  CountIsOfCalls'
  <2>1. call[c].pc = "none" /\ call'[c].pc = "chosen" /\ inflight' = inflight /\ \A d \in Calls : d # c => call'[d].pc = call[d].pc
    BY <1>0, <1>2 DEF Choose, CallRecord
  <2> QED BY <2>1, CountGoes DEF UnderWay
<1>3. ASSUME NEW c \in Calls, Admit(c)
      PROVE  CountIsOfCalls'
  <2>0. inflight \in Nat /\ MaxInflight \in Nat
    BY InCallIsFinite, FS_CardinalityType, TransportAssumption DEF CountIsOfCalls
  <2>1. CASE call' = [call EXCEPT ![c].pc = "refused"] /\ UNCHANGED inflight
    BY <1>1, <1>3, <2>1, CountGoes DEF Admit, UnderWay
  <2>2. CASE call' = [call EXCEPT ![c].pc = "register"] /\ inflight' = inflight + 1 /\ inflight < MaxInflight
    BY <1>1, <1>3, <2>2, CountGoes DEF Admit, UnderWay
  <2> QED BY <1>3, <2>0, <2>1, <2>2 DEF Admit
<1>4. ASSUME NEW c \in Calls, Register(c)
      PROVE  CountIsOfCalls'
  <2>1. CASE call' = [call EXCEPT ![c].pc = "lock"] /\ UNCHANGED inflight
    BY <1>1, <1>4, <2>1, CountGoes DEF Register, UnderWay
  <2>2. CASE call' = [call EXCEPT ![c].pc = "refused"] /\ inflight' = inflight - 1
    BY <1>1, <1>4, <2>2, CountGoes DEF Register, UnderWay
  <2> QED BY <1>4, <2>1, <2>2 DEF Register
<1>5. ASSUME NEW c \in Calls, LockWriter(c) \/ WritePart(c) \/ WriteFrame(c) \/ Deadline(c)
      PROVE  CountIsOfCalls'
  <2>1. PICK p \in UnderWay : call' = [call EXCEPT ![c].pc = p]
    BY <1>5 DEF LockWriter, WritePart, WriteFrame, Deadline, UnderWay
  <2>2. call[c].pc \in UnderWay /\ inflight' = inflight
    BY <1>5 DEF LockWriter, WritePart, WriteFrame, Deadline, UnderWay
  <2> QED BY <1>1, <2>1, <2>2, CountGoes
<1>6. ASSUME NEW c \in Calls, WriteFails(c)
      PROVE  CountIsOfCalls'
  <2>1. call'[c].pc = "done" /\ \A d \in Calls : d # c => call'[d].pc = call[d].pc
    BY <1>0, <1>6 DEF WriteFails, CallRecord
  <2> QED BY <1>6, <2>1, CountGoes DEF WriteFails, UnderWay
<1>7. ASSUME NEW c \in Calls, NEW p \in {"done", "dropped"}, NEW o \in Outcomes,
             Guard(c, [call EXCEPT ![c].pc = p, ![c].outcome = o]), call[c].pc \in Guarded, inflight' = inflight - 1
      PROVE  CountIsOfCalls'
  <2> DEFINE f == [call EXCEPT ![c].pc = p, ![c].outcome = o]
  <2>1. f \in [Calls -> CallRecord] /\ f[c].pc = p /\ \A d \in Calls : d # c => f[d] = call[d]
    <3>1. Goes(call, f, c, p, o)
      BY <1>0, ExceptGoes DEF Places
    <3> QED BY <3>1 DEF Goes
  <2> HIDE DEF f
  <2>2. \A i : Drained(f, i) \in [Calls -> CallRecord] /\ \A d \in Calls : Drained(f, i)[d].pc = f[d].pc
    BY <2>1, DrainedIs
  <2>3. call' = f \/ \E i : call' = [Drained(f, i) EXCEPT ![c] = f[c]]
    BY <1>7 DEF Guard, f
  <2>4. call'[c].pc = p /\ \A d \in Calls : d # c => call'[d].pc = call[d].pc
    BY <2>1, <2>2, <2>3
  <2> QED BY <1>7, <2>4, CountGoes DEF UnderWay, Guarded, Registered
<1>8. ASSUME NEW c \in Calls, Settle(c)
      PROVE  CountIsOfCalls'
  <2>1. Outcome(call[c].got) \in Outcomes
    <3>1. call[c].got \in Gots /\ (call[c].got.kind = "open" => call[c].got = Open)
      BY <1>0 DEF CallRecord, CallsAreSound, CallIsSound, Gots, Open
    <3> QED BY <1>8, <3>1 DEF Outcome, Outcomes, Gots, Settle
  <2> QED BY <1>7, <1>8, <2>1 DEF Settle, Guarded, Registered
<1>9. ASSUME NEW c \in Calls, DropCall(c)
      PROVE  CountIsOfCalls'
  <2>1. call[c].outcome \in Outcomes
    BY <1>0 DEF CallRecord
  <2>2. [call EXCEPT ![c].pc = "dropped"] = [call EXCEPT ![c].pc = "dropped", ![c].outcome = call[c].outcome]
    BY <1>0 DEF CallRecord
  <2> QED BY <1>7, <1>9, <2>1, <2>2 DEF DropCall, Guarded, Registered
<1>10. ASSUME Kill
       PROVE  CountIsOfCalls'
  <2>1. CASE call' = call /\ inflight' = inflight
    BY <2>1, CountStays
  <2>2. CASE \E c \in Calls : /\ call[c].pc = "terminate" /\ inflight' = inflight
                            /\ call'[c].pc = "drain" /\ \A d \in Calls : d # c => call'[d].pc = call[d].pc
    BY <2>2, CountGoes DEF UnderWay
  <2> QED BY <1>0, <1>10, <2>1, <2>2 DEF Kill, Moves, CallRecord
<1>11. ASSUME DrainAll
       PROVE  CountIsOfCalls'
  <2> DEFINE g == Drained(call, None)
  <2>1. g \in [Calls -> CallRecord] /\ \A d \in Calls : g[d].pc = call[d].pc
    BY <1>0, DrainedIs
  <2> HIDE DEF g
  <2>2. CASE call' = g /\ inflight' = inflight
    BY <2>1, <2>2, CountStays
  <2>3. CASE \E c \in Calls : /\ call[c].pc = "drain" /\ inflight' = inflight - 1
                            /\ call' = [g EXCEPT ![c].pc = "done", ![c].outcome = "uncertain"]
    <3>1. PICK c \in Calls : /\ call[c].pc = "drain" /\ inflight' = inflight - 1
                            /\ call' = [g EXCEPT ![c].pc = "done", ![c].outcome = "uncertain"]
      BY <2>3
    <3>2. call'[c].pc = "done" /\ \A d \in Calls : d # c => call'[d].pc = call[d].pc
      BY <2>1, <3>1 DEF CallRecord
    <3> QED BY <3>1, <3>2, CountGoes DEF UnderWay
  <2> QED BY <1>11, <2>2, <2>3 DEF DrainAll, Moves, g
<1>12. ASSUME ReaderDrain
       PROVE  CountIsOfCalls'
  <2>1. \A d \in Calls : call'[d].pc = call[d].pc
    BY <1>0, <1>12, DrainedIs DEF ReaderDrain
  <2> QED BY <1>12, <2>1, CountStays DEF ReaderDrain
<1>13. ASSUME ReadFrame
       PROVE  CountIsOfCalls'
  <2>1. CASE call' = call
    BY <1>13, <2>1, CountStays DEF ReadFrame
  <2>2. CASE \E c \in Calls : Answered(c)
    <3>1. PICK c \in Calls : Answered(c)
      BY <2>2
    <3>2. \A d \in Calls : call'[d].pc = call[d].pc
      BY <1>0, <3>1 DEF Answered, CallRecord
    <3> QED BY <1>13, <3>2, CountStays DEF ReadFrame
  <2> QED BY <1>13, <2>1, <2>2 DEF ReadFrame, Addressed, Answered
<1>14. ASSUME Beside \/ UNCHANGED transportVars
       PROVE  CountIsOfCalls'
  <2>1. UNCHANGED <<call, inflight>>
    BY <1>14 DEF Beside, PluginAnswers, CancelStep, CancelLock, CancelWrite, CancelSeen, GraceOver, CancelStart, Shutdown,
                 ReplyLock, ReplyWrite, ReadEnd, PluginReads, PluginCallsHost, Crash, transportVars
  <2> QED BY <2>1, CountStays
<1> QED
  BY <1>2, <1>3, <1>4, <1>5, <1>6, <1>8, <1>9, <1>10, <1>11, <1>12, <1>13, <1>14, NextIs

-----------------------------------------------------------------------------
LEMMA StartIsSound == TransportInit => TransportIInv
<1> SUFFICES ASSUME TransportInit PROVE TransportIInv
  OBVIOUS
<1>1. \A c \in Calls : call[c] = [pc |-> "none", id |-> None, got |-> Open, outcome |-> "none"]
  BY DEF TransportInit
<1>2. CallsAreSound
  BY <1>1 DEF CallsAreSound, CallIsSound, Open
<1>3. PendingIsOpen /\ EndHasCause
  BY DEF TransportInit, PendingIsOpen, EndHasCause, Nothing
<1>4. AnswersAreOfCalls
  BY DEF TransportInit, AnswersAreOfCalls, InputIsOfCalls, OutputIsOfCalls
<1>5. RestTypes
  <2>1. [pc |-> "none", id |-> None, got |-> Open, outcome |-> "none"] \in CallRecord
    BY DEF CallRecord, Places, Gots, Open, Outcomes
  <2>2. call \in [Calls -> CallRecord]
    BY <2>1 DEF TransportInit
  <2>3. 0 \in 0 .. MaxMessages
    BY TransportAssumption
  <2> QED BY <2>2, <2>3 DEF TransportInit, RestTypes
<1>6. CountIsOfCalls
  <2>1. InCall = {}
    BY <1>1 DEF InCall
  <2> QED BY <2>1, FS_EmptySet, TransportAssumption DEF TransportInit, CountIsOfCalls
<1> QED BY <1>2, <1>3, <1>4, <1>5, <1>6 DEF TransportIInv

(* What TransportIInv says holds for as long as the plugin and its callers  *)
(* run: what each call was told, whose identifier leads where, what is in   *)
(* the pipes, and who may have ended the process (call, read_loop,          *)
(* cancel_call, terminate_process_tree).                                    *)
THEOREM TransportIsInductive == TransportSpec => []TransportIInv
<1>1. TransportInit => TransportIInv
  BY StartIsSound
<1>2. TransportIInv /\ [TransportNext]_transportVars => TransportIInv'
  BY AllMove, PendingStep, AnswersStep, EndStep, RestStep, CountStep DEF TransportIInv, Moved
<1> QED BY <1>1, <1>2, PTL DEF TransportSpec

LEMMA InductiveIsSafe == TransportIInv => TransportInv
<1> SUFFICES ASSUME TransportIInv PROVE TransportInv
  OBVIOUS
<1> USE DEF TransportIInv
<1>1. TransportTypeOK
  <2>1. call \in [Calls -> [pc : {"none", "chosen", "register", "lock", "write", "writing", "wait", "terminate", "drain", "done", "refused", "dropped"},
                           id : Identifiers \cup {None},
                           got : [kind : {"open", "closed", "uncertain", "answered", "canceled"}, of : Calls \cup {None}],
                           outcome : {"none", "uncertain", "answered", "canceled"}]]
    BY DEF RestTypes, CallRecord, Places, UnderWay, Gots, Outcomes
  <2>2. DOMAIN pending \subseteq Identifiers /\ \A i \in DOMAIN pending : pending[i] \in InCall /\ call[pending[i]].id = i
    BY DEF PendingIsOpen, InCall, Registered
  <2>3. inflight = Cardinality(InCall) /\ asked \subseteq Calls
    BY DEF CountIsOfCalls, AnswersAreOfCalls
  <2> QED BY <2>1, <2>2, <2>3 DEF TransportTypeOK, RestTypes
<1>2. InflightIsBounded
  BY DEF InflightIsBounded, CountIsOfCalls
<1>3. AnswerIsOwn
  BY DEF AnswerIsOwn, CallsAreSound, CallIsSound
<1>4. NoneAfterDrain
  BY DEF NoneAfterDrain, EndHasCause
<1>5. UncertainHasCause
  BY DEF UncertainHasCause, CallsAreSound, CallIsSound, Cause
<1> QED BY <1>1, <1>2, <1>3, <1>4, <1>5 DEF TransportInv

(* However many calls, cancels and faults there are, and whatever the       *)
(* plugin answers: no more than MAX_INFLIGHT_CALLS calls are with it, a     *)
(* call is told its own answer unless a lease gave its identifier twice, an *)
(* uncertain outcome has a cause, and nothing is pending after the drain    *)
(* (ExtensionTransport::call, settle_pending).                              *)
THEOREM TransportSafe == TransportSpec => []TransportInv
<1>1. TransportSpec => []TransportIInv
  BY TransportIsInductive
<1> QED BY <1>1, InductiveIsSafe, PTL
-----------------------------------------------------------------------------
(* A process is with one operation or in the slot.                          *)
OneHasIt ==
    /\ \A v, w \in Workers : v # w /\ op[v].proc # NoProcess => op[v].proc # op[w].proc
    /\ \A w \in Workers : op[w].proc # NoProcess => op[w].proc # slot.proc

(* What is about to be published is registered whole, and it alone.         *)
InsertedIsRegistered ==
    \A w \in Workers : /\ op[w].pc \in {"register", "insert"} => op[w].proc # NoProcess
                       /\ op[w].pc = "insert" => \A c \in Capabilities : registry[c] = op[w].proc

(* A slot with a process is listed.                                         *)
SlotIsListed == slot.proc # NoProcess => slot.listed

(* Operations that do not overlap are one at a time.                        *)
OneAtATime == ~overlapped => \A v, w \in Workers : Under(v) /\ Under(w) => v = w

(* And each load is newer than what was ever active, by the slot or by what *)
(* is remembered.                                                           *)
NewerThanActive ==
    ~overlapped =>
        /\ (\A w \in Workers : op[w].pc \notin {"retire", "remember"}) => source >= activated
        /\ \A w \in Workers : /\ op[w].pc \in {"retire", "remember"} => op[w].gen = activated
                              /\ op[w].pc \in {"connect", "register", "insert"} => op[w].gen > activated

(* A lease is of a generation that was active, and of its process.          *)
LeasesAreOfActive ==
    \A h \in Holders : holder[h].proc # NoProcess =>
        /\ holder[h].gen <= activated
        /\ ~overlapped /\ slot.proc # NoProcess /\ slot.gen = holder[h].gen => slot.proc = holder[h].proc

(* What is published was active.                                            *)
SlotIsActive == slot.proc # NoProcess => slot.gen <= activated

(* Where nothing active is loaded, a load finds the slot empty, and so does *)
(* what a reload does before it.                                            *)
LoadsFindNothing ==
    ~overlapped /\ ~replaced =>
        \A w \in Workers : op[w].pc \in {"undo", "wait", "stop", "load", "connect", "register", "insert"} => slot.proc = NoProcess

(* What every step of the host keeps.                                       *)
HostInv ==
    /\ HostTypeOK /\ RegisteredIsOwned /\ PublishedIsRegistered
    /\ OneHasIt /\ InsertedIsRegistered /\ SlotIsListed /\ OneAtATime
    /\ NewerThanActive /\ LeasesAreOfActive /\ SlotIsActive /\ LoadsFindNothing

(* What an operation is.                                                    *)
Ops == [pc : {"none", "load", "connect", "register", "insert", "retire", "remember", "take", "undo",
              "wait", "stop", "active", "inactive", "done"},
        kind : Kinds \cup {NoProcess}, gen : Nat, proc : Procs \cup {NoProcess}, was : Nat]

LEMMA OperationBegins == ASSUME HostInv, NEW w \in Workers, NEW kind \in Kinds, Begin(w, kind) PROVE HostInv'
<1> USE HostAssumption DEF HostInv
<1>1. HostTypeOK'
  BY DEF Begin, NoOp, HostTypeOK, Procs
<1>2. RegisteredIsOwned'
  BY <1>1 DEF Begin, NoOp, HostTypeOK, Procs, RegisteredIsOwned, Under
<1>3. PublishedIsRegistered'
  BY <1>1 DEF Begin, NoOp, HostTypeOK, Procs, PublishedIsRegistered
<1>4. OneHasIt'
  BY <1>1 DEF Begin, NoOp, HostTypeOK, Procs, OneHasIt
<1>5. InsertedIsRegistered'
  BY <1>1 DEF Begin, NoOp, HostTypeOK, Procs, InsertedIsRegistered
<1>6. SlotIsListed'
  BY <1>1 DEF Begin, NoOp, HostTypeOK, Procs, SlotIsListed
<1>7. OneAtATime'
  <2>1. \A v \in Workers : v # w => Under(v)' = Under(v)
    BY DEF Begin, Under, HostTypeOK
  <2>2. ~overlapped' => \A v \in Workers : ~Under(v)
    BY DEF Begin
  <2> QED BY <2>1, <2>2 DEF OneAtATime
<1>8. NewerThanActive'
  BY <1>1 DEF Begin, NoOp, HostTypeOK, Procs, NewerThanActive, Under
<1>9. LeasesAreOfActive'
  BY <1>1 DEF Begin, NoOp, HostTypeOK, Procs, LeasesAreOfActive
<1>10. SlotIsActive'
  BY <1>1 DEF Begin, NoOp, HostTypeOK, Procs, SlotIsActive
<1>11. LoadsFindNothing'
  <2> SUFFICES ASSUME ~overlapped', ~replaced' PROVE LoadsFindNothing'
    BY DEF LoadsFindNothing
  <2>1. /\ ~overlapped /\ ~replaced /\ slot' = slot /\ \A v \in Workers : v # w => op'[v] = op[v]
        /\ op'[w].pc = (IF kind = "load" THEN "load" ELSE "take") /\ (kind = "load" => slot.proc = NoProcess)
    BY DEF Begin, NoOp, HostTypeOK
  <2> QED BY <2>1 DEF LoadsFindNothing
<1> QED BY <1>1, <1>2, <1>3, <1>4, <1>5, <1>6, <1>7, <1>8, <1>9, <1>10, <1>11

LEMMA UntrustedIsRefused == ASSUME HostInv, NEW w \in Workers, LoadUntrusted(w) PROVE HostInv'
<1> USE HostAssumption DEF HostInv
<1>1. HostTypeOK'
  <2>1. op[w] \in Ops /\ op \in [Workers -> Ops]
    BY DEF HostTypeOK, Ops
  <2>2. op' = [op EXCEPT ![w] = [op[w] EXCEPT !.pc = "inactive", !.proc = NoProcess]]
    BY <2>1 DEF LoadUntrusted, Refused
  <2>3. op' \in [Workers -> Ops]
    BY <2>1, <2>2 DEF Ops
  <2>4. slot' \in [gen : Nat, proc : Procs \cup {NoProcess}, listed : BOOLEAN]
    <3>1. [gen |-> IF slot.listed THEN slot.gen ELSE 1, proc |-> NoProcess, listed |-> TRUE]
              \in [gen : Nat, proc : Procs \cup {NoProcess}, listed : BOOLEAN]
      BY DEF HostTypeOK
    <3> QED BY <3>1 DEF LoadUntrusted, Refused, RememberInactive, HostTypeOK
  <2> QED BY <2>3, <2>4 DEF LoadUntrusted, Refused, Dropped, HostTypeOK, Ops, Procs
<1>2. RegisteredIsOwned'
  <2> SUFFICES ASSUME ~overlapped', ~replaced' PROVE RegisteredIsOwned'
    BY DEF RegisteredIsOwned
  <2>1. slot.proc = NoProcess /\ slot'.proc = NoProcess /\ ~overlapped /\ ~replaced
    BY DEF LoadUntrusted, Refused, RememberInactive, LoadsFindNothing
  <2>2. \A v \in Workers : v # w => op'[v] = op[v]
    BY DEF LoadUntrusted, Refused, HostTypeOK
  <2>3. op[w].pc \notin {"insert", "undo"} /\ registry' = registry
    BY DEF LoadUntrusted
  <2> QED BY <2>1, <2>2, <2>3 DEF RegisteredIsOwned
<1>3. PublishedIsRegistered'
  BY <1>1 DEF LoadUntrusted, Refused, RememberInactive, Dropped, HostTypeOK, Procs, PublishedIsRegistered
<1>4. OneHasIt'
  BY <1>1 DEF LoadUntrusted, Refused, RememberInactive, Dropped, HostTypeOK, Procs, OneHasIt
<1>5. InsertedIsRegistered'
  BY <1>1 DEF LoadUntrusted, Refused, RememberInactive, Dropped, HostTypeOK, Procs, InsertedIsRegistered
<1>6. SlotIsListed'
  BY <1>1 DEF LoadUntrusted, Refused, RememberInactive, Dropped, HostTypeOK, Procs, SlotIsListed
<1>7. OneAtATime'
  BY <1>1 DEF LoadUntrusted, Refused, RememberInactive, Dropped, HostTypeOK, Procs, OneAtATime, Under
<1>8. NewerThanActive'
  BY <1>1 DEF LoadUntrusted, Refused, RememberInactive, Dropped, HostTypeOK, Procs, NewerThanActive, Under
<1>9. LeasesAreOfActive'
  BY <1>1 DEF LoadUntrusted, Refused, RememberInactive, Dropped, HostTypeOK, Procs, LeasesAreOfActive
<1>10. SlotIsActive'
  BY <1>1 DEF LoadUntrusted, Refused, RememberInactive, Dropped, HostTypeOK, Procs, SlotIsActive
<1>11. LoadsFindNothing'
  BY <1>1 DEF LoadUntrusted, Refused, RememberInactive, Dropped, HostTypeOK, Procs, LoadsFindNothing, Under
<1> QED BY <1>1, <1>2, <1>3, <1>4, <1>5, <1>6, <1>7, <1>8, <1>9, <1>10, <1>11

LEMMA GenerationIsTaken == ASSUME HostInv, NEW w \in Workers, LoadTrusted(w) PROVE HostInv'
<1> USE HostAssumption DEF HostInv
<1>1. HostTypeOK'
  <2>1. op[w] \in Ops /\ op \in [Workers -> Ops] /\ NextGeneration \in Nat
    BY DEF HostTypeOK, Ops, NextGeneration, MaxOf
  <2>2. op' = [op EXCEPT ![w] = [op[w] EXCEPT !.pc = "connect", !.gen = NextGeneration]]
    BY <2>1 DEF LoadTrusted
  <2>3. op' \in [Workers -> Ops]
    BY <2>1, <2>2 DEF Ops
  <2> QED BY <2>3 DEF LoadTrusted, HostTypeOK, Ops, Procs
<1>2. RegisteredIsOwned'
  BY <1>1 DEF LoadTrusted, NextGeneration, MaxOf, HostTypeOK, Procs, RegisteredIsOwned, Under
<1>3. PublishedIsRegistered'
  BY <1>1 DEF LoadTrusted, NextGeneration, MaxOf, HostTypeOK, Procs, PublishedIsRegistered
<1>4. OneHasIt'
  BY <1>1 DEF LoadTrusted, NextGeneration, MaxOf, HostTypeOK, Procs, OneHasIt
<1>5. InsertedIsRegistered'
  BY <1>1 DEF LoadTrusted, NextGeneration, MaxOf, HostTypeOK, Procs, InsertedIsRegistered
<1>6. SlotIsListed'
  BY <1>1 DEF LoadTrusted, NextGeneration, MaxOf, HostTypeOK, Procs, SlotIsListed
<1>7. OneAtATime'
  BY <1>1 DEF LoadTrusted, NextGeneration, MaxOf, HostTypeOK, Procs, OneAtATime, Under
<1>8. NewerThanActive'
  <2> SUFFICES ASSUME ~overlapped PROVE NewerThanActive'
    BY DEF LoadTrusted, NewerThanActive
  <2>1. \A v \in Workers : v # w => ~Under(v) /\ op'[v] = op[v]
    BY DEF LoadTrusted, OneAtATime, Under, HostTypeOK
  <2>2. source >= activated
    BY <2>1 DEF LoadTrusted, NewerThanActive, Under
  <2>3. NextGeneration > source /\ NextGeneration \in Nat /\ source \in Nat /\ activated \in Nat
    BY DEF NextGeneration, MaxOf, HostTypeOK
  <2>4. op'[w].pc = "connect" /\ op'[w].gen = NextGeneration /\ UNCHANGED <<source, activated, overlapped>>
    BY DEF LoadTrusted, HostTypeOK
  <2> HIDE DEF NextGeneration
  <2>5. NextGeneration > activated
    BY <2>2, <2>3
  <2>6. \A v \in Workers : v # w => op'[v].pc \notin {"retire", "remember", "connect", "register", "insert"}
    BY <2>1 DEF Under
  <2> QED BY <2>2, <2>4, <2>5, <2>6 DEF NewerThanActive
<1>9. LeasesAreOfActive'
  BY <1>1 DEF LoadTrusted, NextGeneration, MaxOf, HostTypeOK, Procs, LeasesAreOfActive
<1>10. SlotIsActive'
  BY <1>1 DEF LoadTrusted, NextGeneration, MaxOf, HostTypeOK, Procs, SlotIsActive
<1>11. LoadsFindNothing'
  BY <1>1 DEF LoadTrusted, NextGeneration, MaxOf, HostTypeOK, Procs, LoadsFindNothing, Under
<1> QED BY <1>1, <1>2, <1>3, <1>4, <1>5, <1>6, <1>7, <1>8, <1>9, <1>10, <1>11

LEMMA ProcessStarts == ASSUME HostInv, NEW w \in Workers, Connect(w) PROVE HostInv'
<1> USE HostAssumption DEF HostInv
<1>1. HostTypeOK'
  <2>1. processes' = processes + 1 /\ Procs \cup {processes + 1} \subseteq Procs' /\ processes \in Nat
    <3>1. processes \in Nat /\ processes' = processes + 1
      BY DEF Connect, HostTypeOK
    <3> QED BY <3>1 DEF Procs
  <2>2. op[w] \in Ops /\ op \in [Workers -> Ops] /\ Ops \subseteq Ops'
    BY <2>1 DEF HostTypeOK, Ops
  <2>3. op' = [op EXCEPT ![w] = [op[w] EXCEPT !.pc = "register", !.proc = processes + 1]]
    BY <2>2 DEF Connect
  <2>4. [op[w] EXCEPT !.pc = "register", !.proc = processes + 1] \in Ops'
    BY <2>1, <2>2 DEF Ops
  <2>5. op' \in [Workers -> Ops']
    BY <2>2, <2>3, <2>4
  <2> QED BY <2>1, <2>5 DEF Connect, HostTypeOK, Ops
<1>2. RegisteredIsOwned'
  BY <1>1 DEF Connect, HostTypeOK, Procs, RegisteredIsOwned, Under
<1>3. PublishedIsRegistered'
  BY <1>1 DEF Connect, HostTypeOK, Procs, PublishedIsRegistered
<1>4. OneHasIt'
  BY <1>1 DEF Connect, HostTypeOK, Procs, OneHasIt
<1>5. InsertedIsRegistered'
  BY <1>1 DEF Connect, HostTypeOK, Procs, InsertedIsRegistered
<1>6. SlotIsListed'
  BY <1>1 DEF Connect, HostTypeOK, Procs, SlotIsListed
<1>7. OneAtATime'
  BY <1>1 DEF Connect, HostTypeOK, Procs, OneAtATime, Under
<1>8. NewerThanActive'
  BY <1>1 DEF Connect, HostTypeOK, Procs, NewerThanActive, Under
<1>9. LeasesAreOfActive'
  BY <1>1 DEF Connect, HostTypeOK, Procs, LeasesAreOfActive
<1>10. SlotIsActive'
  BY <1>1 DEF Connect, HostTypeOK, Procs, SlotIsActive
<1>11. LoadsFindNothing'
  BY <1>1 DEF Connect, HostTypeOK, Procs, LoadsFindNothing, Under
<1> QED BY <1>1, <1>2, <1>3, <1>4, <1>5, <1>6, <1>7, <1>8, <1>9, <1>10, <1>11

LEMMA ConnectIsRefused == ASSUME HostInv, NEW w \in Workers, ConnectFails(w) PROVE HostInv'
<1> USE HostAssumption DEF HostInv
<1>1. HostTypeOK'
  <2>1. op[w] \in Ops /\ op \in [Workers -> Ops]
    BY DEF HostTypeOK, Ops
  <2>2. op' = [op EXCEPT ![w] = [op[w] EXCEPT !.pc = "inactive", !.proc = NoProcess]]
    BY <2>1 DEF ConnectFails, Refused
  <2>3. op' \in [Workers -> Ops]
    BY <2>1, <2>2 DEF Ops
  <2>4. slot' \in [gen : Nat, proc : Procs \cup {NoProcess}, listed : BOOLEAN]
    <3>1. [gen |-> IF slot.listed THEN slot.gen ELSE 1, proc |-> NoProcess, listed |-> TRUE]
              \in [gen : Nat, proc : Procs \cup {NoProcess}, listed : BOOLEAN]
      BY DEF HostTypeOK
    <3> QED BY <3>1 DEF ConnectFails, Refused, RememberInactive, HostTypeOK
  <2> QED BY <2>3, <2>4 DEF ConnectFails, Refused, Dropped, HostTypeOK, Ops, Procs
<1>2. RegisteredIsOwned'
  <2> SUFFICES ASSUME ~overlapped', ~replaced' PROVE RegisteredIsOwned'
    BY DEF RegisteredIsOwned
  <2>1. slot.proc = NoProcess /\ slot'.proc = NoProcess /\ ~overlapped /\ ~replaced
    BY DEF ConnectFails, Refused, RememberInactive, LoadsFindNothing
  <2>2. \A v \in Workers : v # w => op'[v] = op[v]
    BY DEF ConnectFails, Refused, HostTypeOK
  <2>3. op[w].pc \notin {"insert", "undo"} /\ registry' = registry
    BY DEF ConnectFails
  <2> QED BY <2>1, <2>2, <2>3 DEF RegisteredIsOwned
<1>3. PublishedIsRegistered'
  BY <1>1 DEF ConnectFails, Refused, RememberInactive, Dropped, HostTypeOK, Procs, PublishedIsRegistered
<1>4. OneHasIt'
  BY <1>1 DEF ConnectFails, Refused, RememberInactive, Dropped, HostTypeOK, Procs, OneHasIt
<1>5. InsertedIsRegistered'
  BY <1>1 DEF ConnectFails, Refused, RememberInactive, Dropped, HostTypeOK, Procs, InsertedIsRegistered
<1>6. SlotIsListed'
  BY <1>1 DEF ConnectFails, Refused, RememberInactive, Dropped, HostTypeOK, Procs, SlotIsListed
<1>7. OneAtATime'
  BY <1>1 DEF ConnectFails, Refused, RememberInactive, Dropped, HostTypeOK, Procs, OneAtATime, Under
<1>8. NewerThanActive'
  BY <1>1 DEF ConnectFails, Refused, RememberInactive, Dropped, HostTypeOK, Procs, NewerThanActive, Under
<1>9. LeasesAreOfActive'
  BY <1>1 DEF ConnectFails, Refused, RememberInactive, Dropped, HostTypeOK, Procs, LeasesAreOfActive
<1>10. SlotIsActive'
  BY <1>1 DEF ConnectFails, Refused, RememberInactive, Dropped, HostTypeOK, Procs, SlotIsActive
<1>11. LoadsFindNothing'
  BY <1>1 DEF ConnectFails, Refused, RememberInactive, Dropped, HostTypeOK, Procs, LoadsFindNothing, Under
<1> QED BY <1>1, <1>2, <1>3, <1>4, <1>5, <1>6, <1>7, <1>8, <1>9, <1>10, <1>11

LEMMA CapabilitiesAreRegistered == ASSUME HostInv, NEW w \in Workers, RegisterAll(w) PROVE HostInv'
<1> USE HostAssumption DEF HostInv
<1>1. HostTypeOK'
  <2>1. op[w] \in Ops /\ op \in [Workers -> Ops]
    BY DEF HostTypeOK, Ops
  <2>2. \/ op' = [op EXCEPT ![w] = [op[w] EXCEPT !.pc = "inactive", !.proc = NoProcess]]
        \/ op' = [op EXCEPT ![w] = [op[w] EXCEPT !.pc = "insert"]]
    BY <2>1 DEF RegisterAll, Refused
  <2>3. op' \in [Workers -> Ops]
    <3>1. [op[w] EXCEPT !.pc = "inactive", !.proc = NoProcess] \in Ops
      BY <2>1 DEF Ops
    <3>2. [op[w] EXCEPT !.pc = "insert"] \in Ops
      BY <2>1 DEF Ops
    <3> QED BY <2>1, <2>2, <3>1, <3>2
  <2>4. slot' \in [gen : Nat, proc : Procs \cup {NoProcess}, listed : BOOLEAN]
    <3>1. [gen |-> IF slot.listed THEN slot.gen ELSE 1, proc |-> NoProcess, listed |-> TRUE]
              \in [gen : Nat, proc : Procs \cup {NoProcess}, listed : BOOLEAN]
      BY DEF HostTypeOK
    <3> QED BY <3>1 DEF RegisterAll, Refused, RememberInactive, HostTypeOK
  <2>5. registry' \in [Capabilities -> Procs \cup {NoProcess}]
    BY <2>1 DEF RegisterAll, HostTypeOK, Ops
  <2>6. alive' \subseteq alive
    BY DEF RegisterAll, Refused, Dropped
  <2> QED BY <2>3, <2>4, <2>5, <2>6 DEF RegisterAll, HostTypeOK, Ops, Procs
<1>2. RegisteredIsOwned'
  <2> SUFFICES ASSUME ~overlapped', ~replaced' PROVE RegisteredIsOwned'
    BY DEF RegisteredIsOwned
  <2>1. slot.proc = NoProcess /\ ~overlapped /\ ~replaced /\ op[w].pc = "register"
    BY DEF RegisterAll, LoadsFindNothing
  <2>2. CASE \A c \in Capabilities : registry[c] = NoProcess
    <3>1. registry' = [c \in Capabilities |-> op[w].proc] /\ op'[w].pc = "insert" /\ op'[w].proc = op[w].proc
      BY <2>2 DEF RegisterAll, HostTypeOK
    <3> QED BY <3>1 DEF RegisteredIsOwned
  <2>3. CASE ~\A c \in Capabilities : registry[c] = NoProcess
    <3>1. registry' = registry /\ slot'.proc = NoProcess /\ \A v \in Workers : v # w => op'[v] = op[v]
      BY <2>1, <2>3 DEF RegisterAll, Refused, RememberInactive, HostTypeOK
    <3> QED BY <2>1, <3>1 DEF RegisteredIsOwned
  <2> QED BY <2>2, <2>3
<1>3. PublishedIsRegistered'
  BY <1>1 DEF RegisterAll, Refused, RememberInactive, Dropped, HostTypeOK, Procs, PublishedIsRegistered
<1>4. OneHasIt'
  <2>1. op'[w].proc \in {op[w].proc, NoProcess} /\ slot'.proc \in {slot.proc, NoProcess}
    BY DEF RegisterAll, Refused, RememberInactive, HostTypeOK
  <2>2. \A v \in Workers : v # w => op'[v] = op[v]
    BY DEF RegisterAll, Refused, HostTypeOK
  <2> QED BY <2>1, <2>2 DEF OneHasIt
<1>5. InsertedIsRegistered'
  BY <1>1 DEF RegisterAll, Refused, RememberInactive, Dropped, HostTypeOK, Procs, InsertedIsRegistered
<1>6. SlotIsListed'
  BY <1>1 DEF RegisterAll, Refused, RememberInactive, Dropped, HostTypeOK, Procs, SlotIsListed
<1>7. OneAtATime'
  BY <1>1 DEF RegisterAll, Refused, RememberInactive, Dropped, HostTypeOK, Procs, OneAtATime, Under
<1>8. NewerThanActive'
  <2>1. op'[w].pc \in {"insert", "inactive"} /\ op'[w].gen = op[w].gen /\ op[w].pc = "register"
    BY DEF RegisterAll, Refused, HostTypeOK
  <2>2. \A v \in Workers : v # w => op'[v] = op[v]
    BY DEF RegisterAll, Refused, HostTypeOK
  <2>3. UNCHANGED <<source, activated, overlapped>>
    BY DEF RegisterAll, Refused
  <2>4. (\A v \in Workers : op'[v].pc \notin {"retire", "remember"}) => \A v \in Workers : op[v].pc \notin {"retire", "remember"}
    BY <2>1, <2>2
  <2> QED BY <2>1, <2>2, <2>3, <2>4 DEF NewerThanActive
<1>9. LeasesAreOfActive'
  BY <1>1 DEF RegisterAll, Refused, RememberInactive, Dropped, HostTypeOK, Procs, LeasesAreOfActive
<1>10. SlotIsActive'
  BY <1>1 DEF RegisterAll, Refused, RememberInactive, Dropped, HostTypeOK, Procs, SlotIsActive
<1>11. LoadsFindNothing'
  BY <1>1 DEF RegisterAll, Refused, RememberInactive, Dropped, HostTypeOK, Procs, LoadsFindNothing, Under
<1> QED BY <1>1, <1>2, <1>3, <1>4, <1>5, <1>6, <1>7, <1>8, <1>9, <1>10, <1>11

LEMMA SlotIsPublished == ASSUME HostInv, NEW w \in Workers, Insert(w) PROVE HostInv'
<1> USE HostAssumption DEF HostInv
<1>1. HostTypeOK'
  <2>1. op[w] \in Ops /\ op \in [Workers -> Ops]
    BY DEF HostTypeOK, Ops
  <2>2. op' = [op EXCEPT ![w] = [op[w] EXCEPT !.pc = "retire", !.proc = slot.proc]]
    BY <2>1 DEF Insert
  <2>3. op' \in [Workers -> Ops]
    BY <2>1, <2>2 DEF Ops, HostTypeOK
  <2>4. activated' \in Nat
    BY <2>1 DEF Insert, MaxOf, HostTypeOK, Ops
  <2>5. slot' \in [gen : Nat, proc : Procs \cup {NoProcess}, listed : BOOLEAN]
    BY <2>1 DEF Insert, Ops
  <2> QED BY <2>3, <2>4, <2>5 DEF Insert, HostTypeOK, Ops, Procs
<1>2. RegisteredIsOwned'
  BY <1>1 DEF Insert, MaxOf, HostTypeOK, Procs, RegisteredIsOwned, Under
<1>3. PublishedIsRegistered'
  BY <1>1 DEF Insert, MaxOf, HostTypeOK, Procs, PublishedIsRegistered
<1>4. OneHasIt'
  BY <1>1 DEF Insert, MaxOf, HostTypeOK, Procs, OneHasIt
<1>5. InsertedIsRegistered'
  BY <1>1 DEF Insert, MaxOf, HostTypeOK, Procs, InsertedIsRegistered
<1>6. SlotIsListed'
  BY <1>1 DEF Insert, MaxOf, HostTypeOK, Procs, SlotIsListed
<1>7. OneAtATime'
  BY <1>1 DEF Insert, MaxOf, HostTypeOK, Procs, OneAtATime, Under
<1>8. NewerThanActive'
  <2> SUFFICES ASSUME ~overlapped PROVE NewerThanActive'
    BY DEF Insert, NewerThanActive
  <2>1. \A v \in Workers : v # w => ~Under(v) /\ op'[v] = op[v]
    BY DEF Insert, OneAtATime, Under, HostTypeOK
  <2>2. op[w].gen > activated /\ op[w].gen \in Nat /\ activated \in Nat
    BY DEF Insert, NewerThanActive, HostTypeOK
  <2>3. activated' = op[w].gen
    BY <2>2 DEF Insert, MaxOf
  <2>4. op'[w].pc = "retire" /\ op'[w].gen = op[w].gen
    BY DEF Insert, HostTypeOK
  <2>5. \A v \in Workers : v # w => op'[v].pc \notin {"retire", "remember", "connect", "register", "insert"}
    BY <2>1 DEF Under
  <2> QED BY <2>3, <2>4, <2>5 DEF NewerThanActive
<1>9. LeasesAreOfActive'
  <2>1. op[w].gen \in Nat /\ activated \in Nat /\ activated' >= activated /\ activated' \in Nat
    BY DEF Insert, MaxOf, HostTypeOK
  <2>2. slot'.proc = op[w].proc /\ slot'.gen = op[w].gen /\ holder' = holder /\ overlapped' = overlapped
    BY DEF Insert
  <2>3. ~overlapped => op[w].gen > activated
    BY DEF Insert, NewerThanActive
  <2> SUFFICES ASSUME NEW h \in Holders, holder[h].proc # NoProcess
               PROVE  holder[h].gen <= activated' /\ (~overlapped => op[w].gen # holder[h].gen)
    BY <2>2 DEF LeasesAreOfActive
  <2>4. holder[h].gen \in Nat /\ holder[h].gen <= activated
    BY DEF LeasesAreOfActive, HostTypeOK
  <2> QED BY <2>1, <2>3, <2>4
<1>10. SlotIsActive'
  BY <1>1 DEF Insert, MaxOf, HostTypeOK, Procs, SlotIsActive
<1>11. LoadsFindNothing'
  BY <1>1 DEF Insert, MaxOf, HostTypeOK, Procs, LoadsFindNothing, Under
<1> QED BY <1>1, <1>2, <1>3, <1>4, <1>5, <1>6, <1>7, <1>8, <1>9, <1>10, <1>11

LEMMA OldIsRetired == ASSUME HostInv, NEW w \in Workers, Retire(w) PROVE HostInv'
<1> USE HostAssumption DEF HostInv
<1>1. HostTypeOK'
  <2>1. op[w] \in Ops /\ op \in [Workers -> Ops]
    BY DEF HostTypeOK, Ops
  <2>2. op' = [op EXCEPT ![w] = [op[w] EXCEPT !.pc = "remember", !.proc = NoProcess]]
    BY <2>1 DEF Retire
  <2>3. op' \in [Workers -> Ops]
    BY <2>1, <2>2 DEF Ops
  <2> QED BY <2>3 DEF Retire, HostTypeOK, Ops, Procs
<1>2. RegisteredIsOwned'
  BY <1>1 DEF Retire, HostTypeOK, Procs, RegisteredIsOwned, Under
<1>3. PublishedIsRegistered'
  BY <1>1 DEF Retire, HostTypeOK, Procs, PublishedIsRegistered
<1>4. OneHasIt'
  BY <1>1 DEF Retire, HostTypeOK, Procs, OneHasIt
<1>5. InsertedIsRegistered'
  BY <1>1 DEF Retire, HostTypeOK, Procs, InsertedIsRegistered
<1>6. SlotIsListed'
  BY <1>1 DEF Retire, HostTypeOK, Procs, SlotIsListed
<1>7. OneAtATime'
  BY <1>1 DEF Retire, HostTypeOK, Procs, OneAtATime, Under
<1>8. NewerThanActive'
  BY <1>1 DEF Retire, HostTypeOK, Procs, NewerThanActive, Under
<1>9. LeasesAreOfActive'
  BY <1>1 DEF Retire, HostTypeOK, Procs, LeasesAreOfActive
<1>10. SlotIsActive'
  BY <1>1 DEF Retire, HostTypeOK, Procs, SlotIsActive
<1>11. LoadsFindNothing'
  BY <1>1 DEF Retire, HostTypeOK, Procs, LoadsFindNothing, Under
<1> QED BY <1>1, <1>2, <1>3, <1>4, <1>5, <1>6, <1>7, <1>8, <1>9, <1>10, <1>11

LEMMA SourceIsRemembered == ASSUME HostInv, NEW w \in Workers, Remember(w) PROVE HostInv'
<1> USE HostAssumption DEF HostInv
<1>1. HostTypeOK'
  BY DEF Remember, HostTypeOK, Procs
<1>2. RegisteredIsOwned'
  BY <1>1 DEF Remember, HostTypeOK, Procs, RegisteredIsOwned, Under
<1>3. PublishedIsRegistered'
  BY <1>1 DEF Remember, HostTypeOK, Procs, PublishedIsRegistered
<1>4. OneHasIt'
  BY <1>1 DEF Remember, HostTypeOK, Procs, OneHasIt
<1>5. InsertedIsRegistered'
  BY <1>1 DEF Remember, HostTypeOK, Procs, InsertedIsRegistered
<1>6. SlotIsListed'
  BY <1>1 DEF Remember, HostTypeOK, Procs, SlotIsListed
<1>7. OneAtATime'
  BY <1>1 DEF Remember, HostTypeOK, Procs, OneAtATime, Under
<1>8. NewerThanActive'
  BY <1>1 DEF Remember, HostTypeOK, Procs, NewerThanActive, Under
<1>9. LeasesAreOfActive'
  BY <1>1 DEF Remember, HostTypeOK, Procs, LeasesAreOfActive
<1>10. SlotIsActive'
  BY <1>1 DEF Remember, HostTypeOK, Procs, SlotIsActive
<1>11. LoadsFindNothing'
  BY <1>1 DEF Remember, HostTypeOK, Procs, LoadsFindNothing, Under
<1> QED BY <1>1, <1>2, <1>3, <1>4, <1>5, <1>6, <1>7, <1>8, <1>9, <1>10, <1>11

LEMMA SlotIsTaken == ASSUME HostInv, NEW w \in Workers, TakeSlot(w) PROVE HostInv'
<1> USE HostAssumption DEF HostInv
<1>0. /\ op[w].pc = "take" /\ slot'.proc = NoProcess /\ UNCHANGED <<registry, source, processes, alive, holder, activated, overlapped, replaced>>
      /\ op'[w].pc \in {"undo", "load", "done"} /\ op'[w].proc = slot.proc /\ \A v \in Workers : v # w => op'[v] = op[v]
  <2>1. op[w] \in Ops /\ op \in [Workers -> Ops]
    BY DEF HostTypeOK, Ops
  <2>2. op'[w] = [op[w] EXCEPT !.pc = IF slot.listed THEN "undo" ELSE IF op[w].kind = "reload" THEN "load" ELSE "done",
                               !.proc = slot.proc, !.gen = slot.gen]
    BY <2>1 DEF TakeSlot
  <2>3. op'[w].pc \in {"undo", "load", "done"} /\ op'[w].proc = slot.proc
    BY <2>1, <2>2 DEF Ops
  <2>4. \A v \in Workers : v # w => op'[v] = op[v]
    BY <2>1 DEF TakeSlot
  <2> QED BY <2>3, <2>4 DEF TakeSlot, NoSlot
<1>1. HostTypeOK'
  <2>1. op[w] \in Ops /\ op \in [Workers -> Ops] /\ slot.proc \in Procs \cup {NoProcess} /\ slot.gen \in Nat
    BY DEF HostTypeOK, Ops
  <2>2. PICK pc \in {"undo", "load", "done"} :
            op' = [op EXCEPT ![w] = [op[w] EXCEPT !.pc = pc, !.proc = slot.proc, !.gen = slot.gen]]
    BY <2>1 DEF TakeSlot
  <2>3. op' \in [Workers -> Ops]
    BY <2>1, <2>2 DEF Ops
  <2> QED BY <2>3 DEF TakeSlot, NoSlot, HostTypeOK, Ops, Procs
<1>2. RegisteredIsOwned'
  <2> SUFFICES ASSUME ~overlapped', ~replaced', NEW c \in Capabilities, registry'[c] # NoProcess
               PROVE  \E v \in Workers : op'[v].proc = registry'[c] /\ op'[v].pc \in {"insert", "undo"}
    BY DEF RegisteredIsOwned
  <2>1. UNCHANGED <<registry, overlapped, replaced>> /\ \A v \in Workers : v # w => op'[v] = op[v]
    BY DEF TakeSlot, HostTypeOK
  <2>2. CASE slot.proc = registry[c]
    <3>1. slot.listed
      BY <2>1, <2>2 DEF SlotIsListed
    <3>2. op'[w].proc = slot.proc /\ op'[w].pc = "undo"
      BY <3>1 DEF TakeSlot, HostTypeOK
    <3> QED BY <2>1, <2>2, <3>2
  <2>3. CASE slot.proc # registry[c]
    <3>1. PICK v \in Workers : op[v].proc = registry[c] /\ op[v].pc \in {"insert", "undo"}
      BY <2>1, <2>3 DEF RegisteredIsOwned
    <3>2. v # w
      BY <3>1 DEF TakeSlot
    <3> QED BY <2>1, <3>1, <3>2
  <2> QED BY <2>2, <2>3
<1>3. PublishedIsRegistered'
  BY <1>1 DEF TakeSlot, NoSlot, HostTypeOK, Procs, PublishedIsRegistered
<1>4. OneHasIt'
  BY <1>0 DEF OneHasIt
<1>5. InsertedIsRegistered'
  BY <1>0 DEF InsertedIsRegistered
<1>6. SlotIsListed'
  BY <1>1 DEF TakeSlot, NoSlot, HostTypeOK, Procs, SlotIsListed
<1>7. OneAtATime'
  BY <1>0 DEF OneAtATime, Under
<1>8. NewerThanActive'
  BY <1>0 DEF NewerThanActive, Under
<1>9. LeasesAreOfActive'
  BY <1>1 DEF TakeSlot, NoSlot, HostTypeOK, Procs, LeasesAreOfActive
<1>10. SlotIsActive'
  BY <1>1 DEF TakeSlot, NoSlot, HostTypeOK, Procs, SlotIsActive
<1>11. LoadsFindNothing'
  BY <1>0 DEF LoadsFindNothing
<1> QED BY <1>1, <1>2, <1>3, <1>4, <1>5, <1>6, <1>7, <1>8, <1>9, <1>10, <1>11

LEMMA RegistrationsAreUndone == ASSUME HostInv, NEW w \in Workers, UndoTokens(w) PROVE HostInv'
<1> USE HostAssumption DEF HostInv
<1>1. HostTypeOK'
  BY DEF UndoTokens, HostTypeOK, Procs
<1>2. RegisteredIsOwned'
  BY <1>1 DEF UndoTokens, HostTypeOK, Procs, RegisteredIsOwned, Under
<1>3. PublishedIsRegistered'
  <2> SUFFICES ASSUME NEW c \in Capabilities, slot.proc # NoProcess PROVE registry'[c] = slot.proc
    BY DEF UndoTokens, PublishedIsRegistered
  <2>1. registry[c] = slot.proc /\ op[w].proc # slot.proc
    BY DEF PublishedIsRegistered, OneHasIt
  <2> QED BY <2>1 DEF UndoTokens
<1>4. OneHasIt'
  BY <1>1 DEF UndoTokens, HostTypeOK, Procs, OneHasIt
<1>5. InsertedIsRegistered'
  <2>1. op'[w].pc \in {"wait", "stop"} /\ \A v \in Workers : v # w => op'[v] = op[v]
    BY DEF UndoTokens, HostTypeOK
  <2>2. ASSUME NEW v \in Workers, v # w, op[v].pc = "insert", NEW c \in Capabilities PROVE registry'[c] = op[v].proc
    <3>1. registry[c] = op[v].proc /\ op[v].proc # op[w].proc
      BY <2>2 DEF InsertedIsRegistered, OneHasIt
    <3> QED BY <3>1 DEF UndoTokens
  <2> QED BY <2>1, <2>2 DEF InsertedIsRegistered
<1>6. SlotIsListed'
  BY <1>1 DEF UndoTokens, HostTypeOK, Procs, SlotIsListed
<1>7. OneAtATime'
  BY <1>1 DEF UndoTokens, HostTypeOK, Procs, OneAtATime, Under
<1>8. NewerThanActive'
  BY <1>1 DEF UndoTokens, HostTypeOK, Procs, NewerThanActive, Under
<1>9. LeasesAreOfActive'
  BY <1>1 DEF UndoTokens, HostTypeOK, Procs, LeasesAreOfActive
<1>10. SlotIsActive'
  BY <1>1 DEF UndoTokens, HostTypeOK, Procs, SlotIsActive
<1>11. LoadsFindNothing'
  BY <1>1 DEF UndoTokens, HostTypeOK, Procs, LoadsFindNothing, Under
<1> QED BY <1>1, <1>2, <1>3, <1>4, <1>5, <1>6, <1>7, <1>8, <1>9, <1>10, <1>11

LEMMA WaitIsOver == ASSUME HostInv, NEW w \in Workers, DrainOver(w) PROVE HostInv'
<1> USE HostAssumption DEF HostInv
<1>1. HostTypeOK'
  BY DEF DrainOver, HostTypeOK, Procs
<1>2. RegisteredIsOwned'
  BY <1>1 DEF DrainOver, HostTypeOK, Procs, RegisteredIsOwned, Under
<1>3. PublishedIsRegistered'
  BY <1>1 DEF DrainOver, HostTypeOK, Procs, PublishedIsRegistered
<1>4. OneHasIt'
  BY <1>1 DEF DrainOver, HostTypeOK, Procs, OneHasIt
<1>5. InsertedIsRegistered'
  BY <1>1 DEF DrainOver, HostTypeOK, Procs, InsertedIsRegistered
<1>6. SlotIsListed'
  BY <1>1 DEF DrainOver, HostTypeOK, Procs, SlotIsListed
<1>7. OneAtATime'
  BY <1>1 DEF DrainOver, HostTypeOK, Procs, OneAtATime, Under
<1>8. NewerThanActive'
  BY <1>1 DEF DrainOver, HostTypeOK, Procs, NewerThanActive, Under
<1>9. LeasesAreOfActive'
  BY <1>1 DEF DrainOver, HostTypeOK, Procs, LeasesAreOfActive
<1>10. SlotIsActive'
  BY <1>1 DEF DrainOver, HostTypeOK, Procs, SlotIsActive
<1>11. LoadsFindNothing'
  BY <1>1 DEF DrainOver, HostTypeOK, Procs, LoadsFindNothing, Under
<1> QED BY <1>1, <1>2, <1>3, <1>4, <1>5, <1>6, <1>7, <1>8, <1>9, <1>10, <1>11

LEMMA ProcessIsStopped == ASSUME HostInv, NEW w \in Workers, Stop(w) PROVE HostInv'
<1> USE HostAssumption DEF HostInv
<1>1. HostTypeOK'
  BY DEF Stop, OnIt, HostTypeOK, Procs
<1>2. RegisteredIsOwned'
  BY <1>1 DEF Stop, OnIt, HostTypeOK, Procs, RegisteredIsOwned, Under
<1>3. PublishedIsRegistered'
  BY <1>1 DEF Stop, OnIt, HostTypeOK, Procs, PublishedIsRegistered
<1>4. OneHasIt'
  BY <1>1 DEF Stop, OnIt, HostTypeOK, Procs, OneHasIt
<1>5. InsertedIsRegistered'
  BY <1>1 DEF Stop, OnIt, HostTypeOK, Procs, InsertedIsRegistered
<1>6. SlotIsListed'
  BY <1>1 DEF Stop, OnIt, HostTypeOK, Procs, SlotIsListed
<1>7. OneAtATime'
  BY <1>1 DEF Stop, OnIt, HostTypeOK, Procs, OneAtATime, Under
<1>8. NewerThanActive'
  BY <1>1 DEF Stop, OnIt, HostTypeOK, Procs, NewerThanActive, Under
<1>9. LeasesAreOfActive'
  BY <1>1 DEF Stop, OnIt, HostTypeOK, Procs, LeasesAreOfActive
<1>10. SlotIsActive'
  BY <1>1 DEF Stop, OnIt, HostTypeOK, Procs, SlotIsActive
<1>11. LoadsFindNothing'
  <2> SUFFICES ASSUME ~overlapped, ~replaced PROVE LoadsFindNothing'
    BY DEF Stop, LoadsFindNothing
  <2>1. \A v \in Workers : v # w => ~Under(v) /\ op'[v] = op[v]
    BY DEF Stop, OneAtATime, Under, HostTypeOK
  <2> QED BY <2>1 DEF Stop, LoadsFindNothing, Under
<1> QED BY <1>1, <1>2, <1>3, <1>4, <1>5, <1>6, <1>7, <1>8, <1>9, <1>10, <1>11

(* A consumer's step, or the end of a process: a lease is kept, or taken of *)
(* what is published.                                                       *)
LEMMA LeasesMove ==
    ASSUME HostInv, UNCHANGED <<slot, registry, source, processes, op, activated, overlapped, replaced>>,
           alive' \subseteq alive,
           holder' \in [Holders -> [pc : {"none", "held", "valid", "calling", "stale", "cut"}, gen : Nat, proc : Procs \cup {NoProcess}]],
           \A h \in Holders : \/ holder'[h].gen = holder[h].gen /\ holder'[h].proc = holder[h].proc
                              \/ holder'[h].gen = slot.gen /\ holder'[h].proc = slot.proc
    PROVE  HostInv'
<1> USE DEF HostInv
<1>1. HostTypeOK'
  BY DEF HostTypeOK, Procs
<1>2. RegisteredIsOwned' /\ PublishedIsRegistered' /\ OneHasIt' /\ InsertedIsRegistered' /\ SlotIsListed'
  BY DEF RegisteredIsOwned, PublishedIsRegistered, OneHasIt, InsertedIsRegistered, SlotIsListed
<1>3. OneAtATime' /\ NewerThanActive' /\ SlotIsActive' /\ LoadsFindNothing'
  BY DEF OneAtATime, Under, NewerThanActive, SlotIsActive, LoadsFindNothing
<1>4. LeasesAreOfActive'
  BY DEF LeasesAreOfActive, SlotIsActive
<1> QED BY <1>1, <1>2, <1>3, <1>4

LEMMA ConsumersStep ==
    ASSUME HostInv, NEW h \in Holders, Lease(h) \/ LeaseCheck(h) \/ LeaseCall(h) \/ CallSettles(h)
    PROVE  HostInv'
<1> DEFINE Leases == [pc : {"none", "held", "valid", "calling", "stale", "cut"}, gen : Nat, proc : Procs \cup {NoProcess}]
<1>1. holder \in [Holders -> Leases] /\ slot.gen \in Nat /\ slot.proc \in Procs \cup {NoProcess}
  BY DEF HostInv, HostTypeOK
<1>2. CASE Lease(h)
  <2>1. holder' \in [Holders -> Leases]
    BY <1>1, <1>2 DEF Lease
  <2> QED BY <1>1, <1>2, <2>1, LeasesMove DEF Lease
<1>3. CASE LeaseCheck(h) \/ LeaseCall(h) \/ CallSettles(h)
  <2>1. PICK pc \in {"held", "valid", "calling", "stale"} : holder' = [holder EXCEPT ![h].pc = pc]
    BY <1>3 DEF LeaseCheck, LeaseCall, CallSettles
  <2>2. holder' \in [Holders -> Leases]
    BY <1>1, <2>1
  <2>3. \A g \in Holders : holder'[g].gen = holder[g].gen /\ holder'[g].proc = holder[g].proc
    BY <1>1, <2>1
  <2> QED BY <1>3, <2>2, <2>3, LeasesMove DEF LeaseCheck, LeaseCall, CallSettles
<1> QED BY <1>2, <1>3

LEMMA ProcessEnds == ASSUME HostInv, NEW p \in alive, ProcessDies(p) PROVE HostInv'
<1> DEFINE Leases == [pc : {"none", "held", "valid", "calling", "stale", "cut"}, gen : Nat, proc : Procs \cup {NoProcess}]
<1>1. holder \in [Holders -> Leases]
  BY DEF HostInv, HostTypeOK
<1>2. holder' \in [Holders -> Leases] /\ \A g \in Holders : holder'[g].gen = holder[g].gen /\ holder'[g].proc = holder[g].proc
  BY <1>1 DEF ProcessDies
<1> QED BY <1>2, LeasesMove DEF ProcessDies

LEMMA InitHost == HostInit => HostInv
<1> SUFFICES ASSUME HostInit PROVE HostInv
  OBVIOUS
<1> USE DEF HostInit, NoSlot, NoOp, NoLease
<1>1. HostTypeOK
  BY HostAssumption DEF HostTypeOK, Procs
<1>2. RegisteredIsOwned /\ PublishedIsRegistered /\ OneHasIt /\ InsertedIsRegistered /\ SlotIsListed
  BY DEF RegisteredIsOwned, PublishedIsRegistered, OneHasIt, InsertedIsRegistered, SlotIsListed
<1>3. OneAtATime /\ NewerThanActive
  BY DEF OneAtATime, Under, NewerThanActive
<1>4. LeasesAreOfActive /\ SlotIsActive /\ LoadsFindNothing
  BY DEF LeasesAreOfActive, SlotIsActive, LoadsFindNothing
<1> QED BY <1>1, <1>2, <1>3, <1>4 DEF HostInv

LEMMA LeasesAreValid == HostInv => ValidIsPublished
BY DEF HostInv, ValidIsPublished, LeasesAreOfActive, IsValid

LEMMA OperationKeepsInv ==
    ASSUME HostInv, NEW w \in Workers,
           \/ \E kind \in Kinds : Begin(w, kind)
           \/ LoadUntrusted(w) \/ LoadTrusted(w) \/ Connect(w) \/ ConnectFails(w) \/ RegisterAll(w) \/ Insert(w)
           \/ Retire(w) \/ Remember(w) \/ TakeSlot(w) \/ UndoTokens(w) \/ DrainOver(w) \/ Stop(w)
    PROVE  HostInv'
BY OperationBegins, UntrustedIsRefused, GenerationIsTaken, ProcessStarts, ConnectIsRefused, CapabilitiesAreRegistered, SlotIsPublished, OldIsRetired, SourceIsRemembered,
   SlotIsTaken, RegistrationsAreUndone, WaitIsOver, ProcessIsStopped

(* Every process has one owner, and what is about to be published is the one *)
(* thing that is registered, however operations overlap (host.rs).          *)
THEOREM HostIsInductive == HostSpec => []HostInv
<1>1. ASSUME HostInv, [HostNext]_hostVars PROVE HostInv'
  <2>1. ASSUME NEW h \in Holders, Lease(h) \/ LeaseCheck(h) \/ LeaseCall(h) \/ CallSettles(h) PROVE HostInv'
    BY <1>1, <2>1, ConsumersStep
  <2>2. ASSUME NEW p \in alive, ProcessDies(p) PROVE HostInv'
    BY <1>1, <2>2, ProcessEnds
  <2>3. CASE UNCHANGED hostVars
    BY <1>1, <2>3 DEF hostVars, HostInv, HostTypeOK, Procs, RegisteredIsOwned, PublishedIsRegistered, OneHasIt,
       InsertedIsRegistered, SlotIsListed, OneAtATime, Under, NewerThanActive, LeasesAreOfActive, SlotIsActive, LoadsFindNothing
  <2> QED BY <1>1, <2>1, <2>2, <2>3, OperationKeepsInv DEF HostNext
<1> QED BY <1>1, InitHost, PTL DEF HostSpec

(* What is published is registered whole, and while operations do not overlap *)
(* nothing else is, leases lead to it and generations grow (load, unload, reload). *)
THEOREM HostIsSafe == HostSpec => HostSafe
<1>1. HostInv => HostTypeOK /\ RegisteredIsOwned /\ PublishedIsRegistered /\ ValidIsPublished
  BY LeasesAreValid DEF HostInv
<1>2. HostInv => [\A w \in Workers : Insert(w) /\ ~overlapped => op[w].gen > activated]_hostVars
  BY DEF HostInv, NewerThanActive, Insert
<1> QED BY <1>1, <1>2, HostIsInductive, PTL DEF HostSafe, GenerationsGrow
=============================================================================
