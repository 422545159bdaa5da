---------------------------- MODULE ChildProofs -----------------------------
(***************************************************************************)
(* Proofs about the children of a session: what a parent is told and what   *)
(* becomes of a message, for any children, messages and parents.            *)
(***************************************************************************)
EXTENDS ChildAgents, TLAPS

(* The fields of a child's record, with the types the proofs need.         *)
States == {"none", "running", "done", "failed", "cancelled"}
Runs == {"none", "queued", "opening", "opened", "turn", "stopped", "closing", "carried", "quiet", "reported"}
Ends == {"none", "answer", "failed", "unknown"}

ChildRecords ==
    [state : States, gen : Nat, token : BOOLEAN, deleted : BOOLEAN, replied : BOOLEAN, announced : BOOLEAN,
     session : BOOLEAN, inTurn : BOOLEAN, backlog : SUBSET Messages, pending : SUBSET Items,
     inbox : SUBSET Messages, wake : SUBSET Items, read : SUBSET Items, run : Runs,
     end : Ends, sweep : BOOLEAN, owed : SUBSET Notices, rewake : BOOLEAN]

ChildTypes ==
    /\ child \in [Children -> ChildRecords]
    /\ send \in [Messages -> {"idle", "route", "wake", "inbox", "accepted", "refused"}]
    /\ wait \in [Children -> {"none", "waiting", "late", "leaving"}]
    /\ told \subseteq Children \X Nat \X Ways /\ hidden \subseteq Notices /\ unread \subseteq Items

(* What an agent has read or can still read, and the notices it owes.       *)
Has(c) == child[c].read \cup Held(c)

(* A running child has a run, a child with a run was started, and it is in a *)
(* turn exactly while its run is.                                           *)
RunIsOfState ==
    \A c \in Children :
        /\ child[c].state = "running" <=> child[c].run # "none"
        /\ child[c].state = "none" <=> child[c].gen = 0
        /\ child[c].inTurn <=> child[c].run \in {"turn", "stopped"}

(* Carry waits for the sends that selected the inbox, the end of a turn for *)
(* those that are the turn's own.                                           *)
SentToATurn == \A m \in Messages : send[m] = "inbox" => child[To[m]].run \in {"turn", "stopped", "closing"}

SentByATurn ==
    \A m \in Messages : send[m] \in {"route", "wake", "inbox"} /\ From[m] \in Children => child[From[m]].run = "turn"

(* What a child was woken for is read when its run opens, or lost before.   *)
WakeIsAhead == \A c \in Children : child[c].wake # {} => child[c].run \in {"queued", "opening"}

(* The notice of run n of c is somewhere.                                   *)
Sent(c, n) ==
    \/ \E a \in Children : <<c, n>> \in Has(a) \cup child[a].owed
    \/ <<c, n>> \in unread \/ <<c, n, "notice">> \in told

(* A notice is of a run the child has had, of its last one only when that   *)
(* is settled and nobody waits for it since before, and of none whose       *)
(* result went to a call that did.                                          *)
NoticesAreOfPast ==
    \A c \in Children, n \in Nat :
        Sent(c, n) =>
            /\ 0 < n /\ n <= child[c].gen
            /\ n = child[c].gen => Settled(c) /\ wait[c] # "waiting"
            /\ <<c, n, "call">> \notin told

(* A call returns the result of a run the child has had and that is over;   *)
(* one that finds it there comes after the first.                           *)
CallsAreOfPast ==
    \A c \in Children :
        /\ \A n \in Nat : <<c, n, "call">> \in told => n <= child[c].gen /\ (n = child[c].gen => Settled(c))
        /\ wait[c] = "late" => child[c].gen > 0 /\ (child[c].gen = 1 => Settled(c))

(* The root is told at once.                                                *)
OwedIsNested == \A c \in Children : child[c].owed # {} => ~OfRoot(c)

(* What an answer leaves behind - announced, or to be woken again - is not  *)
(* there while the first run is under way.                                  *)
FirstIsLast ==
    \A c \in Children :
        /\ child[c].announced \/ child[c].rewake => child[c].gen > 0 /\ (child[c].gen = 1 => Settled(c))
        /\ child[c].rewake /\ child[c].gen = 1 =>
              /\ child[c].state = "done" /\ ~child[c].announced
              /\ child[c].deleted \/ child[c].pending # {}

(* A child that counts as having replied sent its parent something.         *)
HasReplied(c) ==
    IF OfRoot(c) THEN <<c, child[c].gen, "reply">> \in told
    ELSE \E m \in Messages : From[m] = c /\ To[m] = ParentOf[c] /\ send[m] # "idle"

RepliesWereSent == \A c \in Children : child[c].replied => child[c].gen > 0 /\ HasReplied(c)

(* The result of the first run of c is told, on its way, or kept from the   *)
(* parent in one of the three ways ResultIsTold names.                      *)
FirstIsTold(c) ==
    \/ (\E how \in Ways : <<c, 1, how>> \in told) \/ <<c, 1>> \in child[c].owed
    \/ ({<<c, 1>>} \cup Replies(c, "accepted")) \cap OfParent(c) # {}
    \/ <<c, 1>> \in hidden \/ Replies(c, "refused") # {}
    \/ child[c].deleted /\ child[c].state = "done" /\ ~child[c].announced

(* ResultIsTold, also while the settlement still owes the notice or a       *)
(* caller that came late or leaves is still counted.                        *)
SettledIsTold ==
    \A c \in Children :
        Settled(c) /\ child[c].gen = 1 /\ wait[c] # "waiting" /\ ~child[c].rewake => FirstIsTold(c)

(* The inductive invariant.                                                 *)
ChildIInv ==
    /\ ChildTypes /\ RunIsOfState /\ SentToATurn /\ SentByATurn /\ InboxIsOfATurn /\ WakeIsAhead
    /\ AcceptedIsKept /\ NoticesAreOfPast /\ CallsAreOfPast /\ OwedIsNested /\ FirstIsLast
    /\ RepliesWereSent /\ SettledIsTold

-----------------------------------------------------------------------------
(* The fields of a record have the types of the record.                     *)
LEMMA FieldTypes ==
    ASSUME ChildTypes, NEW d \in Children
    PROVE  /\ child[d] \in ChildRecords /\ child[d].state \in States /\ child[d].gen \in Nat /\ child[d].run \in Runs
           /\ child[d].backlog \subseteq Messages /\ child[d].inbox \subseteq Messages
           /\ child[d].pending \subseteq Items /\ child[d].wake \subseteq Items /\ child[d].read \subseteq Items
           /\ child[d].owed \subseteq Notices
BY DEF ChildTypes, ChildRecords

(* The values the actions assign.                                           *)
LEMMA Values ==
    /\ {"queued", "opening", "opened", "turn", "stopped", "closing", "carried", "quiet", "reported", "none"} \subseteq Runs
    /\ {"running", "done", "failed", "cancelled"} \subseteq States /\ {"none", "answer", "failed", "unknown"} \subseteq Ends
BY DEF Runs, States, Ends

(* A notice is no message.                                                  *)
LEMMA NoticeIsNoMessage == ASSUME NEW c \in Children, NEW g \in Nat PROVE <<c, g>> \notin Messages
BY ChildAssumption

(* A woken child is a record.                                               *)
LEMMA WokenType ==
    ASSUME ChildTypes, NEW c \in Children, NEW texts \in SUBSET Messages
    PROVE  Woken(c, texts) \in ChildRecords
<1> DEFINE R == [child[c] EXCEPT !.state = "running", !.gen = child[c].gen + 1, !.token = FALSE, !.replied = FALSE]
           S == [R EXCEPT !.wake = child[c].pending \cup texts, !.pending = {}]
<1>1. child[c].pending \cup texts \in SUBSET Items /\ {} \in SUBSET Items /\ child[c].gen + 1 \in Nat
  BY FieldTypes DEF Items
<1>2. "running" \in States /\ "queued" \in Runs /\ "none" \in Ends
  BY Values
<1>3. child[c] \in ChildRecords
  BY FieldTypes
<1>4. R \in ChildRecords
  BY <1>1, <1>2, <1>3 DEF ChildRecords
<1>5. Woken(c, texts) = [S EXCEPT !.run = "queued", !.end = "none"]
  BY DEF Woken
<1> HIDE DEF R
<1>6. S \in ChildRecords
  BY <1>1, <1>4 DEF ChildRecords
<1> HIDE DEF S
<1> QED BY <1>2, <1>5, <1>6 DEF ChildRecords

(* Cancelling sets the tokens of running children and nothing else.         *)
LEMMA CancelAllType == ASSUME NEW ch \in [Children -> ChildRecords], NEW S PROVE CancelAll(ch, S) \in [Children -> ChildRecords]
<1>1. ASSUME NEW r \in ChildRecords PROVE [r EXCEPT !.token = TRUE] \in ChildRecords
  BY DEF ChildRecords
<1> QED BY <1>1 DEF CancelAll

LEMMA CancelAllFields ==
    ASSUME NEW ch \in [Children -> ChildRecords], NEW S, NEW d \in Children
    PROVE  /\ CancelAll(ch, S)[d].state = ch[d].state /\ CancelAll(ch, S)[d].gen = ch[d].gen
           /\ CancelAll(ch, S)[d].run = ch[d].run /\ CancelAll(ch, S)[d].inTurn = ch[d].inTurn
           /\ CancelAll(ch, S)[d].deleted = ch[d].deleted /\ CancelAll(ch, S)[d].replied = ch[d].replied
           /\ CancelAll(ch, S)[d].announced = ch[d].announced /\ CancelAll(ch, S)[d].rewake = ch[d].rewake
           /\ CancelAll(ch, S)[d].owed = ch[d].owed /\ CancelAll(ch, S)[d].read = ch[d].read
           /\ CancelAll(ch, S)[d].backlog = ch[d].backlog /\ CancelAll(ch, S)[d].pending = ch[d].pending
           /\ CancelAll(ch, S)[d].inbox = ch[d].inbox /\ CancelAll(ch, S)[d].wake = ch[d].wake
BY DEF CancelAll, ChildRecords

-----------------------------------------------------------------------------
(* A step that neither starts, settles nor wakes a child, nor passes a      *)
(* notice on: messages are put where an agent finds them, and what an agent *)
(* had may be lost.                                                         *)
MailStep ==
    /\ \A d \in Children :
          /\ child'[d].state = child[d].state /\ child'[d].gen = child[d].gen
          /\ child'[d].announced = child[d].announced /\ child'[d].owed = child[d].owed
          /\ child[d].deleted => child'[d].deleted
          /\ \/ child'[d].rewake = child[d].rewake
             \/ ~child'[d].rewake /\ (child[d].gen # 1 \/ child[d].deleted)
          /\ Has(d) \subseteq Has(d)' \cup unread' /\ Has(d)' \subseteq Has(d) \cup Messages
          /\ child'[d].replied => child[d].replied \/ (child[d].gen > 0 /\ HasReplied(d)')
          /\ Settled(d) /\ child[d].pending # {} => child'[d].pending # {}
    /\ \A x \in unread' : x \in unread \/ \E a \in Children : x \in Has(a)
    /\ \A m \in Messages :
          /\ send'[m] = "accepted" => send[m] = "accepted" \/ m \in Has(To[m])'
          /\ send[m] \in {"accepted", "refused"} => send'[m] = send[m]
          /\ send[m] # "idle" => send'[m] # "idle"
    /\ \A d \in Children, n \in Nat, how \in {"notice", "call"} : <<d, n, how>> \in told' => <<d, n, how>> \in told
    /\ wait' = wait /\ told \subseteq told' /\ hidden' = hidden /\ unread \subseteq unread'

LEMMA MailStepKeeps ==
    ASSUME ChildIInv, ChildTypes', MailStep
    PROVE  /\ AcceptedIsKept' /\ NoticesAreOfPast' /\ CallsAreOfPast' /\ OwedIsNested' /\ FirstIsLast'
           /\ RepliesWereSent' /\ SettledIsTold'
<1>1. \A d \in Children : Settled(d)' <=> Settled(d)
  BY DEF MailStep, Settled
<1>2. \A m \in Messages : To[m] \in Children
  BY ChildAssumption
<1>3. AcceptedIsKept'
  <2> SUFFICES ASSUME NEW m \in Messages, send'[m] = "accepted" PROVE m \in Has(To[m])' \cup unread'
    BY DEF AcceptedIsKept, Has
  <2>1. CASE send[m] = "accepted"
    <3>1. m \in Has(To[m]) \cup unread
      BY <2>1 DEF ChildIInv, AcceptedIsKept, Has
    <3> QED BY <1>2, <3>1 DEF MailStep
  <2> QED BY <2>1 DEF MailStep
<1>4. ASSUME NEW c \in Children, NEW n \in Nat, Sent(c, n)' PROVE Sent(c, n)
  <2>1. ASSUME NEW a \in Children, <<c, n>> \in Has(a)' \cup child'[a].owed PROVE <<c, n>> \in Has(a) \cup child[a].owed
    BY <2>1, NoticeIsNoMessage DEF MailStep
  <2>2. CASE \E a \in Children : <<c, n>> \in Has(a)' \cup child'[a].owed
    BY <2>1, <2>2 DEF Sent
  <2>3. CASE <<c, n>> \in unread'
    BY <2>3 DEF MailStep, Sent
  <2>4. CASE <<c, n, "notice">> \in told'
    BY <2>4 DEF MailStep, Sent
  <2> QED BY <1>4, <2>2, <2>3, <2>4 DEF Sent
<1>5. NoticesAreOfPast'
  <2> SUFFICES ASSUME NEW c \in Children, NEW n \in Nat, Sent(c, n)'
               PROVE  /\ 0 < n /\ n <= child'[c].gen
                      /\ n = child'[c].gen => Settled(c)' /\ wait'[c] # "waiting"
                      /\ <<c, n, "call">> \notin told'
    BY DEF NoticesAreOfPast
  <2>1. /\ 0 < n /\ n <= child[c].gen /\ (n = child[c].gen => Settled(c) /\ wait[c] # "waiting")
        /\ <<c, n, "call">> \notin told
    BY <1>4 DEF ChildIInv, NoticesAreOfPast
  <2> QED BY <1>1, <2>1 DEF MailStep
<1>6. CallsAreOfPast'
  BY <1>1 DEF MailStep, ChildIInv, CallsAreOfPast
<1>7. OwedIsNested'
  BY DEF MailStep, ChildIInv, OwedIsNested, OfRoot
<1>8. FirstIsLast'
  BY <1>1 DEF MailStep, ChildIInv, FirstIsLast
<1>9. RepliesWereSent'
  <2> SUFFICES ASSUME NEW c \in Children, child'[c].replied PROVE child'[c].gen > 0 /\ HasReplied(c)'
    BY DEF RepliesWereSent
  <2>1. CASE child[c].replied
    <3>1. child[c].gen > 0 /\ HasReplied(c)
      BY <2>1 DEF ChildIInv, RepliesWereSent
    <3> QED BY <3>1 DEF MailStep, HasReplied, OfRoot
  <2> QED BY <2>1 DEF MailStep
<1>10. SettledIsTold'
  <2> SUFFICES ASSUME NEW c \in Children, Settled(c), child[c].gen = 1, wait[c] # "waiting", ~child'[c].rewake
               PROVE  FirstIsTold(c)'
    BY <1>1 DEF SettledIsTold, MailStep
  <2>1. CASE child[c].rewake
    BY <2>1 DEF MailStep, ChildIInv, FirstIsLast, FirstIsTold
  <2>2. CASE ~child[c].rewake
    <3>1. FirstIsTold(c)
      BY <2>2 DEF ChildIInv, SettledIsTold
    <3>2. OfParent(c) \subseteq OfParent(c)'
      <4>1. ~OfRoot(c) => ParentOf[c] \in Children
        BY ChildAssumption DEF OfRoot
      <4>2. OfParent(c) = IF OfRoot(c) THEN {} ELSE Has(ParentOf[c]) \cup unread
        BY DEF OfParent, Has
      <4>3. OfParent(c)' = IF OfRoot(c) THEN {} ELSE Has(ParentOf[c])' \cup unread'
        BY DEF OfParent, Has, OfRoot
      <4> QED BY <4>1, <4>2, <4>3 DEF MailStep
    <3>3. Replies(c, "accepted") \subseteq Replies(c, "accepted")' /\ Replies(c, "refused") \subseteq Replies(c, "refused")'
      BY DEF MailStep, Replies
    <3> QED BY <3>1, <3>2, <3>3 DEF FirstIsTold, MailStep
  <2> QED BY <2>1, <2>2
<1> QED BY <1>3, <1>5, <1>6, <1>7, <1>8, <1>9, <1>10

(* The run's own steps move what an agent has among its places, or lose     *)
(* some of it.                                                              *)
OwnStep ==
    /\ \A d \in Children :
          /\ child'[d].state = child[d].state /\ child'[d].gen = child[d].gen
          /\ child'[d].announced = child[d].announced /\ child'[d].rewake = child[d].rewake
          /\ child'[d].owed = child[d].owed /\ child'[d].deleted = child[d].deleted
          /\ child'[d].replied = child[d].replied
          /\ Has(d) \subseteq Has(d)' \cup unread' /\ Has(d)' \subseteq Has(d)
          /\ Settled(d) /\ child[d].pending # {} => child'[d].pending # {}
    /\ \A x \in unread' : x \in unread \/ \E a \in Children : x \in Has(a)
    /\ unread \subseteq unread' /\ UNCHANGED <<send, wait, told, hidden>>

LEMMA OwnStepKeeps ==
    ASSUME ChildIInv, ChildTypes', OwnStep
    PROVE  /\ AcceptedIsKept' /\ NoticesAreOfPast' /\ CallsAreOfPast' /\ OwedIsNested' /\ FirstIsLast'
           /\ RepliesWereSent' /\ SettledIsTold'
<1>1. MailStep
  BY DEF OwnStep, MailStep
<1> QED BY <1>1, MailStepKeeps

(* A step that changes no run, no inbox and no wake.                        *)
StillStep ==
    /\ \A d \in Children :
          /\ child'[d].state = child[d].state /\ child'[d].gen = child[d].gen
          /\ child'[d].run = child[d].run /\ child'[d].inTurn = child[d].inTurn
          /\ child'[d].inbox = child[d].inbox /\ child'[d].wake = child[d].wake
    /\ \A m \in Messages :
          /\ send'[m] = "inbox" => send[m] = "inbox"
          /\ send'[m] \in {"route", "wake", "inbox"} => send[m] \in {"route", "wake", "inbox"} \/ Acting(From[m])

LEMMA StillStepKeeps ==
    ASSUME ChildIInv, StillStep
    PROVE  RunIsOfState' /\ SentToATurn' /\ SentByATurn' /\ InboxIsOfATurn' /\ WakeIsAhead'
<1>1. RunIsOfState' /\ SentToATurn' /\ InboxIsOfATurn' /\ WakeIsAhead'
  BY ChildAssumption DEF ChildIInv, StillStep, RunIsOfState, SentToATurn, InboxIsOfATurn, WakeIsAhead
<1>2. SentByATurn'
  BY DEF ChildIInv, StillStep, SentByATurn, Acting
<1> QED BY <1>1, <1>2

(* The steps of a run between two of its awaits, one lemma each.            *)

LEMMA TakeSlotKeeps == ASSUME ChildIInv, NEW c \in Children, TakeSlot(c) PROVE ChildIInv'
<1>1. ChildTypes /\ child \in [Children -> ChildRecords]
  BY DEF ChildIInv, ChildTypes
<1>2. child' \in [Children -> ChildRecords]
  <2>1. "opening" \in Runs
    BY DEF Runs, Ends
  <2> DEFINE R == [child[c] EXCEPT !.run = "opening"]
  <2>2. R \in ChildRecords
    <3>1. child[c] \in ChildRecords
      BY <1>1
    <3> QED BY <3>1, <2>1 DEF ChildRecords
  <2>3. child' = [child EXCEPT ![c] = R]
    BY <1>1 DEF TakeSlot
  <2> QED BY <1>1, <2>2, <2>3
<1>3. ChildTypes'
  BY <1>1, <1>2 DEF ChildTypes, TakeSlot
<1>4. OwnStep
  BY FieldTypes DEF ChildIInv, ChildTypes, ChildRecords, RunIsOfState, TakeSlot, OwnStep, Has, Held, Settled
<1>5. RunIsOfState' /\ SentToATurn' /\ SentByATurn' /\ InboxIsOfATurn' /\ WakeIsAhead'
  <2>1. RunIsOfState'
    BY DEF ChildIInv, ChildTypes, ChildRecords, RunIsOfState, TakeSlot
  <2>2. SentToATurn'
    BY ChildAssumption DEF ChildIInv, ChildTypes, ChildRecords, SentToATurn, RunIsOfState, TakeSlot
  <2>3. InboxIsOfATurn'
    BY DEF ChildIInv, ChildTypes, ChildRecords, InboxIsOfATurn, TakeSlot
  <2>4. WakeIsAhead'
    BY DEF ChildIInv, ChildTypes, ChildRecords, WakeIsAhead, TakeSlot
  <2>5. SentByATurn'
    BY DEF ChildIInv, ChildTypes, ChildRecords, SentByATurn, RunIsOfState, TakeSlot
  <2> QED BY <2>1, <2>2, <2>3, <2>4, <2>5
<1> QED BY <1>3, <1>4, <1>5, OwnStepKeeps DEF ChildIInv

LEMMA StoppedInQueueKeeps == ASSUME ChildIInv, NEW c \in Children, StoppedInQueue(c) PROVE ChildIInv'
<1>1. ChildTypes /\ child \in [Children -> ChildRecords]
  BY DEF ChildIInv, ChildTypes
<1>2. child' \in [Children -> ChildRecords]
  <2>1. "reported" \in Runs /\ "unknown" \in Ends
    BY DEF Runs, Ends
  <2> DEFINE R == [child[c] EXCEPT !.run = "reported", !.end = "unknown", !.wake = {}]
  <2>2. R \in ChildRecords
    <3>1. child[c] \in ChildRecords
      BY <1>1
    <3> QED BY <3>1, <2>1 DEF ChildRecords
  <2>3. child' = [child EXCEPT ![c] = R]
    BY <1>1 DEF StoppedInQueue
  <2> QED BY <1>1, <2>2, <2>3
<1>3. ChildTypes'
  BY <1>1, <1>2, FieldTypes DEF ChildTypes, StoppedInQueue
<1>4. OwnStep
  BY FieldTypes DEF ChildIInv, ChildTypes, ChildRecords, RunIsOfState, StoppedInQueue, OwnStep, Has, Held, Settled
<1>5. RunIsOfState' /\ SentToATurn' /\ SentByATurn' /\ InboxIsOfATurn' /\ WakeIsAhead'
  <2>1. RunIsOfState'
    BY DEF ChildIInv, ChildTypes, ChildRecords, RunIsOfState, StoppedInQueue
  <2>2. SentToATurn'
    BY ChildAssumption DEF ChildIInv, ChildTypes, ChildRecords, SentToATurn, RunIsOfState, StoppedInQueue
  <2>3. InboxIsOfATurn'
    BY DEF ChildIInv, ChildTypes, ChildRecords, InboxIsOfATurn, StoppedInQueue
  <2>4. WakeIsAhead'
    BY DEF ChildIInv, ChildTypes, ChildRecords, WakeIsAhead, StoppedInQueue
  <2>5. SentByATurn'
    BY DEF ChildIInv, ChildTypes, ChildRecords, SentByATurn, RunIsOfState, StoppedInQueue
  <2> QED BY <2>1, <2>2, <2>3, <2>4, <2>5
<1> QED BY <1>3, <1>4, <1>5, OwnStepKeeps DEF ChildIInv

LEMMA OpenFailsKeeps == ASSUME ChildIInv, NEW c \in Children, OpenFails(c) PROVE ChildIInv'
<1>1. ChildTypes /\ child \in [Children -> ChildRecords]
  BY DEF ChildIInv, ChildTypes
<1>2. child' \in [Children -> ChildRecords]
  <2>1. "reported" \in Runs /\ "failed" \in Ends
    BY DEF Runs, Ends
  <2> DEFINE R == [child[c] EXCEPT !.run = "reported", !.end = "failed", !.wake = {}]
  <2>2. R \in ChildRecords
    <3>1. child[c] \in ChildRecords
      BY <1>1
    <3> QED BY <3>1, <2>1 DEF ChildRecords
  <2>3. child' = [child EXCEPT ![c] = R]
    BY <1>1 DEF OpenFails
  <2> QED BY <1>1, <2>2, <2>3
<1>3. ChildTypes'
  BY <1>1, <1>2, FieldTypes DEF ChildTypes, OpenFails
<1>4. OwnStep
  BY FieldTypes DEF ChildIInv, ChildTypes, ChildRecords, RunIsOfState, OpenFails, OwnStep, Has, Held, Settled
<1>5. RunIsOfState' /\ SentToATurn' /\ SentByATurn' /\ InboxIsOfATurn' /\ WakeIsAhead'
  <2>1. RunIsOfState'
    BY DEF ChildIInv, ChildTypes, ChildRecords, RunIsOfState, OpenFails
  <2>2. SentToATurn'
    BY ChildAssumption DEF ChildIInv, ChildTypes, ChildRecords, SentToATurn, RunIsOfState, OpenFails
  <2>3. InboxIsOfATurn'
    BY DEF ChildIInv, ChildTypes, ChildRecords, InboxIsOfATurn, OpenFails
  <2>4. WakeIsAhead'
    BY DEF ChildIInv, ChildTypes, ChildRecords, WakeIsAhead, OpenFails
  <2>5. SentByATurn'
    BY DEF ChildIInv, ChildTypes, ChildRecords, SentByATurn, RunIsOfState, OpenFails
  <2> QED BY <2>1, <2>2, <2>3, <2>4, <2>5
<1> QED BY <1>3, <1>4, <1>5, OwnStepKeeps DEF ChildIInv

LEMMA OpenKeeps == ASSUME ChildIInv, NEW c \in Children, Open(c) PROVE ChildIInv'
<1>1. ChildTypes /\ child \in [Children -> ChildRecords]
  BY DEF ChildIInv, ChildTypes
<1>2. child' \in [Children -> ChildRecords]
  <2>1. child[c].read \cup child[c].backlog \cup child[c].wake \in SUBSET Items
    BY <1>1, FieldTypes DEF Items
  <2>2. "opened" \in Runs
    BY DEF Runs, Ends
  <2> DEFINE R == [child[c] EXCEPT !.run = "opened", !.session = TRUE, !.backlog = {}, !.wake = {},
                       !.read = child[c].read \cup child[c].backlog \cup child[c].wake]
  <2>3. R \in ChildRecords
    <3>1. child[c] \in ChildRecords
      BY <1>1
    <3> QED BY <3>1, <2>1, <2>2 DEF ChildRecords
  <2>4. child' = [child EXCEPT ![c] = R]
    BY <1>1 DEF Open
  <2> QED BY <1>1, <2>3, <2>4
<1>3. ChildTypes'
  BY <1>1, <1>2 DEF ChildTypes, Open
<1>4. OwnStep
  BY FieldTypes DEF ChildIInv, ChildTypes, ChildRecords, RunIsOfState, Open, OwnStep, Has, Held, Settled
<1>5. RunIsOfState' /\ SentToATurn' /\ SentByATurn' /\ InboxIsOfATurn' /\ WakeIsAhead'
  <2>1. RunIsOfState'
    BY DEF ChildIInv, ChildTypes, ChildRecords, RunIsOfState, Open
  <2>2. SentToATurn'
    BY ChildAssumption DEF ChildIInv, ChildTypes, ChildRecords, SentToATurn, RunIsOfState, Open
  <2>3. InboxIsOfATurn'
    BY DEF ChildIInv, ChildTypes, ChildRecords, InboxIsOfATurn, Open
  <2>4. WakeIsAhead'
    BY DEF ChildIInv, ChildTypes, ChildRecords, WakeIsAhead, Open
  <2>5. SentByATurn'
    BY DEF ChildIInv, ChildTypes, ChildRecords, SentByATurn, RunIsOfState, Open
  <2> QED BY <2>1, <2>2, <2>3, <2>4, <2>5
<1> QED BY <1>3, <1>4, <1>5, OwnStepKeeps DEF ChildIInv

LEMMA BeginTurnKeeps == ASSUME ChildIInv, NEW c \in Children, BeginTurn(c) PROVE ChildIInv'
<1>1. ChildTypes /\ child \in [Children -> ChildRecords]
  BY DEF ChildIInv, ChildTypes
<1>2. child' \in [Children -> ChildRecords]
  <2>1. "turn" \in Runs /\ "none" \in Ends
    BY DEF Runs, Ends
  <2> DEFINE R == [child[c] EXCEPT !.run = "turn", !.inTurn = TRUE, !.end = "none"]
  <2>2. R \in ChildRecords
    <3>1. child[c] \in ChildRecords
      BY <1>1
    <3> QED BY <3>1, <2>1 DEF ChildRecords
  <2>3. child' = [child EXCEPT ![c] = R]
    BY <1>1 DEF BeginTurn
  <2> QED BY <1>1, <2>2, <2>3
<1>3. ChildTypes'
  BY <1>1, <1>2 DEF ChildTypes, BeginTurn
<1>4. OwnStep
  BY FieldTypes DEF ChildIInv, ChildTypes, ChildRecords, RunIsOfState, BeginTurn, OwnStep, Has, Held, Settled
<1>5. RunIsOfState' /\ SentToATurn' /\ SentByATurn' /\ InboxIsOfATurn' /\ WakeIsAhead'
  <2>1. RunIsOfState'
    BY DEF ChildIInv, ChildTypes, ChildRecords, RunIsOfState, BeginTurn
  <2>2. SentToATurn'
    BY ChildAssumption DEF ChildIInv, ChildTypes, ChildRecords, SentToATurn, RunIsOfState, BeginTurn
  <2>3. InboxIsOfATurn'
    BY DEF ChildIInv, ChildTypes, ChildRecords, InboxIsOfATurn, BeginTurn
  <2>4. WakeIsAhead'
    BY DEF ChildIInv, ChildTypes, ChildRecords, WakeIsAhead, BeginTurn
  <2>5. SentByATurn'
    BY DEF ChildIInv, ChildTypes, ChildRecords, SentByATurn, RunIsOfState, BeginTurn
  <2> QED BY <2>1, <2>2, <2>3, <2>4, <2>5
<1> QED BY <1>3, <1>4, <1>5, OwnStepKeeps DEF ChildIInv

LEMMA ReadInboxKeeps == ASSUME ChildIInv, NEW c \in Children, ReadInbox(c) PROVE ChildIInv'
<1>1. ChildTypes /\ child \in [Children -> ChildRecords]
  BY DEF ChildIInv, ChildTypes
<1>2. child' \in [Children -> ChildRecords]
  <2>1. child[c].read \cup child[c].inbox \in SUBSET Items
    BY <1>1, FieldTypes DEF Items
  <2> DEFINE R == [child[c] EXCEPT !.read = child[c].read \cup child[c].inbox, !.inbox = {}]
  <2>2. R \in ChildRecords
    <3>1. child[c] \in ChildRecords
      BY <1>1
    <3> QED BY <3>1, <2>1 DEF ChildRecords
  <2>3. child' = [child EXCEPT ![c] = R]
    BY <1>1 DEF ReadInbox
  <2> QED BY <1>1, <2>2, <2>3
<1>3. ChildTypes'
  BY <1>1, <1>2 DEF ChildTypes, ReadInbox
<1>4. OwnStep
  BY FieldTypes DEF ChildIInv, ChildTypes, ChildRecords, RunIsOfState, ReadInbox, OwnStep, Has, Held, Settled
<1>5. RunIsOfState' /\ SentToATurn' /\ SentByATurn' /\ InboxIsOfATurn' /\ WakeIsAhead'
  <2>1. RunIsOfState'
    BY DEF ChildIInv, ChildTypes, ChildRecords, RunIsOfState, ReadInbox
  <2>2. SentToATurn'
    BY ChildAssumption DEF ChildIInv, ChildTypes, ChildRecords, SentToATurn, RunIsOfState, ReadInbox
  <2>3. InboxIsOfATurn'
    BY DEF ChildIInv, ChildTypes, ChildRecords, InboxIsOfATurn, ReadInbox
  <2>4. WakeIsAhead'
    BY DEF ChildIInv, ChildTypes, ChildRecords, WakeIsAhead, ReadInbox
  <2>5. SentByATurn'
    BY DEF ChildIInv, ChildTypes, ChildRecords, SentByATurn, RunIsOfState, ReadInbox
  <2> QED BY <2>1, <2>2, <2>3, <2>4, <2>5
<1> QED BY <1>3, <1>4, <1>5, OwnStepKeeps DEF ChildIInv

LEMMA TurnStopsKeeps == ASSUME ChildIInv, NEW c \in Children, TurnStops(c) PROVE ChildIInv'
<1>1. ChildTypes /\ child \in [Children -> ChildRecords]
  BY DEF ChildIInv, ChildTypes
<1>2. child' \in [Children -> ChildRecords]
  <2>1. "stopped" \in Runs /\ {"answer", "failed"} \subseteq Ends
    BY DEF Runs, Ends
  <2>2. PICK how \in {"answer", "failed"}, lost \in SUBSET child[c].inbox :
          child' = [child EXCEPT ![c].run = "stopped", ![c].end = how, ![c].inbox = child[c].inbox \ lost]
    BY <1>1 DEF TurnStops
  <2> DEFINE R == [child[c] EXCEPT !.run = "stopped", !.end = how, !.inbox = child[c].inbox \ lost]
  <2>3. R \in ChildRecords
    <3>1. child[c] \in ChildRecords /\ child[c].inbox \ lost \in SUBSET Messages
      BY <1>1, FieldTypes
    <3> QED BY <3>1, <2>1, <2>2 DEF ChildRecords
  <2>4. child' = [child EXCEPT ![c] = R]
    BY <1>1, <2>2
  <2> QED BY <1>1, <2>3, <2>4
<1>3. ChildTypes'
  BY <1>1, <1>2, FieldTypes DEF ChildTypes, TurnStops, Items
<1>4. OwnStep
  BY FieldTypes DEF ChildIInv, ChildTypes, ChildRecords, RunIsOfState, TurnStops, OwnStep, Has, Held, Settled
<1>5. RunIsOfState' /\ SentToATurn' /\ SentByATurn' /\ InboxIsOfATurn' /\ WakeIsAhead'
  <2>1. RunIsOfState'
    BY DEF ChildIInv, ChildTypes, ChildRecords, RunIsOfState, TurnStops
  <2>2. SentToATurn'
    BY ChildAssumption DEF ChildIInv, ChildTypes, ChildRecords, SentToATurn, RunIsOfState, TurnStops
  <2>3. InboxIsOfATurn'
    BY DEF ChildIInv, ChildTypes, ChildRecords, InboxIsOfATurn, TurnStops
  <2>4. WakeIsAhead'
    BY DEF ChildIInv, ChildTypes, ChildRecords, WakeIsAhead, TurnStops
  <2>5. SentByATurn'
    <3>1. \A m \in Messages : From[m] = c => send[m] \notin {"route", "wake", "inbox"}
      BY DEF TurnStops
    <3>2. send' = send /\ \A d \in Children \ {c} : child'[d].run = child[d].run
      BY <1>1 DEF TurnStops
    <3> QED BY <3>1, <3>2 DEF ChildIInv, SentByATurn
  <2> QED BY <2>1, <2>2, <2>3, <2>4, <2>5
<1> QED BY <1>3, <1>4, <1>5, OwnStepKeeps DEF ChildIInv

LEMMA LeaveTurnKeeps == ASSUME ChildIInv, NEW c \in Children, LeaveTurn(c) PROVE ChildIInv'
<1>1. ChildTypes /\ child \in [Children -> ChildRecords]
  BY DEF ChildIInv, ChildTypes
<1>2. child' \in [Children -> ChildRecords]
  <2>1. "closing" \in Runs
    BY DEF Runs, Ends
  <2> DEFINE R == [child[c] EXCEPT !.run = "closing", !.inTurn = FALSE]
  <2>2. R \in ChildRecords
    <3>1. child[c] \in ChildRecords
      BY <1>1
    <3> QED BY <3>1, <2>1 DEF ChildRecords
  <2>3. child' = [child EXCEPT ![c] = R]
    BY <1>1 DEF LeaveTurn
  <2> QED BY <1>1, <2>2, <2>3
<1>3. ChildTypes'
  BY <1>1, <1>2 DEF ChildTypes, LeaveTurn
<1>4. OwnStep
  BY FieldTypes DEF ChildIInv, ChildTypes, ChildRecords, RunIsOfState, LeaveTurn, OwnStep, Has, Held, Settled
<1>5. RunIsOfState' /\ SentToATurn' /\ SentByATurn' /\ InboxIsOfATurn' /\ WakeIsAhead'
  <2>1. RunIsOfState'
    BY DEF ChildIInv, ChildTypes, ChildRecords, RunIsOfState, LeaveTurn
  <2>2. SentToATurn'
    BY ChildAssumption DEF ChildIInv, ChildTypes, ChildRecords, SentToATurn, RunIsOfState, LeaveTurn
  <2>3. InboxIsOfATurn'
    BY DEF ChildIInv, ChildTypes, ChildRecords, InboxIsOfATurn, LeaveTurn
  <2>4. WakeIsAhead'
    BY DEF ChildIInv, ChildTypes, ChildRecords, WakeIsAhead, LeaveTurn
  <2>5. SentByATurn'
    BY DEF ChildIInv, ChildTypes, ChildRecords, SentByATurn, RunIsOfState, LeaveTurn
  <2> QED BY <2>1, <2>2, <2>3, <2>4, <2>5
<1> QED BY <1>3, <1>4, <1>5, OwnStepKeeps DEF ChildIInv

LEMMA CarryKeeps == ASSUME ChildIInv, NEW c \in Children, Carry(c) PROVE ChildIInv'
<1>1. ChildTypes /\ child \in [Children -> ChildRecords]
  BY DEF ChildIInv, ChildTypes
<1>2. child' \in [Children -> ChildRecords]
  <2>1. PICK moved \in SUBSET child[c].inbox, e \in Ends :
          child' = [child EXCEPT ![c].run = "carried", ![c].pending = child[c].pending \cup moved, ![c].inbox = {}, ![c].end = e]
    <3>1. child[c].end \in Ends /\ "failed" \in Ends
      BY <1>1 DEF ChildRecords, Ends
    <3> QED BY <1>1, <3>1 DEF Carry
  <2>2. "carried" \in Runs /\ child[c].pending \cup moved \in SUBSET Items /\ {} \in SUBSET Messages
    BY <1>1, FieldTypes DEF Runs, Items
  <2> DEFINE R == [child[c] EXCEPT !.run = "carried", !.pending = child[c].pending \cup moved, !.inbox = {}, !.end = e]
  <2>3. R \in ChildRecords
    <3>1. child[c] \in ChildRecords
      BY <1>1
    <3> QED BY <3>1, <2>2 DEF ChildRecords
  <2>4. child' = [child EXCEPT ![c] = R]
    BY <1>1, <2>1
  <2> QED BY <1>1, <2>3, <2>4
<1>3. ChildTypes'
  BY <1>1, <1>2, FieldTypes DEF ChildTypes, Carry, Items
<1>4. OwnStep
  BY FieldTypes DEF ChildIInv, ChildTypes, ChildRecords, RunIsOfState, Carry, OwnStep, Has, Held, Settled
<1>5. RunIsOfState' /\ SentToATurn' /\ SentByATurn' /\ InboxIsOfATurn' /\ WakeIsAhead'
  <2>1. RunIsOfState'
    BY DEF ChildIInv, ChildTypes, ChildRecords, RunIsOfState, Carry
  <2>2. SentToATurn'
    BY ChildAssumption DEF ChildIInv, ChildTypes, ChildRecords, SentToATurn, RunIsOfState, Carry, InFlight
  <2>3. InboxIsOfATurn'
    BY DEF ChildIInv, ChildTypes, ChildRecords, InboxIsOfATurn, Carry
  <2>4. WakeIsAhead'
    BY DEF ChildIInv, ChildTypes, ChildRecords, WakeIsAhead, Carry
  <2>5. SentByATurn'
    BY DEF ChildIInv, ChildTypes, ChildRecords, SentByATurn, RunIsOfState, Carry
  <2> QED BY <2>1, <2>2, <2>3, <2>4, <2>5
<1> QED BY <1>3, <1>4, <1>5, OwnStepKeeps DEF ChildIInv

LEMMA AfterTurnKeeps == ASSUME ChildIInv, NEW c \in Children, AfterTurn(c) PROVE ChildIInv'
<1>1. ChildTypes /\ child \in [Children -> ChildRecords]
  BY DEF ChildIInv, ChildTypes
<1>2. child' \in [Children -> ChildRecords]
  <2>1. PICK x \in Runs, y \in Ends : child' = [child EXCEPT ![c].run = x, ![c].end = y]
    <3>1. child[c].end \in Ends
      BY <1>1 DEF ChildRecords
    <3> QED BY <3>1 DEF AfterTurn, Runs, Ends
  <2> DEFINE R == [child[c] EXCEPT !.run = x, !.end = y]
  <2>2. R \in ChildRecords
    <3>1. child[c] \in ChildRecords
      BY <1>1
    <3> QED BY <3>1, <2>1 DEF ChildRecords
  <2>3. child' = [child EXCEPT ![c] = R]
    BY <1>1, <2>1
  <2> QED BY <1>1, <2>2, <2>3
<1>3. ChildTypes'
  BY <1>1, <1>2 DEF ChildTypes, AfterTurn
<1>4. OwnStep
  BY FieldTypes DEF ChildIInv, ChildTypes, ChildRecords, RunIsOfState, AfterTurn, OwnStep, Has, Held, Settled
<1>5. RunIsOfState' /\ SentToATurn' /\ SentByATurn' /\ InboxIsOfATurn' /\ WakeIsAhead'
  <2>1. RunIsOfState'
    BY DEF ChildIInv, ChildTypes, ChildRecords, RunIsOfState, AfterTurn
  <2>2. SentToATurn'
    BY ChildAssumption DEF ChildIInv, ChildTypes, ChildRecords, SentToATurn, RunIsOfState, AfterTurn
  <2>3. InboxIsOfATurn'
    BY DEF ChildIInv, ChildTypes, ChildRecords, InboxIsOfATurn, AfterTurn
  <2>4. WakeIsAhead'
    BY DEF ChildIInv, ChildTypes, ChildRecords, WakeIsAhead, AfterTurn
  <2>5. SentByATurn'
    BY DEF ChildIInv, ChildTypes, ChildRecords, SentByATurn, RunIsOfState, AfterTurn
  <2> QED BY <2>1, <2>2, <2>3, <2>4, <2>5
<1> QED BY <1>3, <1>4, <1>5, OwnStepKeeps DEF ChildIInv

LEMMA ReadPendingKeeps == ASSUME ChildIInv, NEW c \in Children, ReadPending(c) PROVE ChildIInv'
<1>1. ChildTypes /\ child \in [Children -> ChildRecords]
  BY DEF ChildIInv, ChildTypes
<1>2. child' \in [Children -> ChildRecords]
  <2>1. child[c].read \cup child[c].pending \in SUBSET Items
    BY <1>1, FieldTypes DEF Items
  <2>2. "opened" \in Runs
    BY DEF Runs, Ends
  <2> DEFINE R == [child[c] EXCEPT !.run = "opened", !.read = child[c].read \cup child[c].pending, !.pending = {}]
  <2>3. R \in ChildRecords
    <3>1. child[c] \in ChildRecords
      BY <1>1
    <3> QED BY <3>1, <2>1, <2>2 DEF ChildRecords
  <2>4. child' = [child EXCEPT ![c] = R]
    BY <1>1 DEF ReadPending
  <2> QED BY <1>1, <2>3, <2>4
<1>3. ChildTypes'
  BY <1>1, <1>2 DEF ChildTypes, ReadPending
<1>4. OwnStep
  BY FieldTypes DEF ChildIInv, ChildTypes, ChildRecords, RunIsOfState, ReadPending, OwnStep, Has, Held, Settled
<1>5. RunIsOfState' /\ SentToATurn' /\ SentByATurn' /\ InboxIsOfATurn' /\ WakeIsAhead'
  <2>1. RunIsOfState'
    BY DEF ChildIInv, ChildTypes, ChildRecords, RunIsOfState, ReadPending
  <2>2. SentToATurn'
    BY ChildAssumption DEF ChildIInv, ChildTypes, ChildRecords, SentToATurn, RunIsOfState, ReadPending
  <2>3. InboxIsOfATurn'
    BY DEF ChildIInv, ChildTypes, ChildRecords, InboxIsOfATurn, ReadPending
  <2>4. WakeIsAhead'
    BY DEF ChildIInv, ChildTypes, ChildRecords, WakeIsAhead, ReadPending
  <2>5. SentByATurn'
    BY DEF ChildIInv, ChildTypes, ChildRecords, SentByATurn, RunIsOfState, ReadPending
  <2> QED BY <2>1, <2>2, <2>3, <2>4, <2>5
<1> QED BY <1>3, <1>4, <1>5, OwnStepKeeps DEF ChildIInv

LEMMA ReportKeeps == ASSUME ChildIInv, NEW c \in Children, Report(c) PROVE ChildIInv'
<1>1. ChildTypes /\ child \in [Children -> ChildRecords]
  BY DEF ChildIInv, ChildTypes
<1>2. child' \in [Children -> ChildRecords]
  <2>1. "reported" \in Runs
    BY DEF Runs, Ends
  <2>2. PICK y \in Ends : child' = [child EXCEPT ![c].run = "reported", ![c].end = y]
    BY DEF Report, Ends
  <2> DEFINE R == [child[c] EXCEPT !.run = "reported", !.end = y]
  <2>3. R \in ChildRecords
    <3>1. child[c] \in ChildRecords
      BY <1>1
    <3> QED BY <3>1, <2>1, <2>2 DEF ChildRecords
  <2>4. child' = [child EXCEPT ![c] = R]
    BY <1>1, <2>2
  <2> QED BY <1>1, <2>3, <2>4
<1>3. ChildTypes'
  BY <1>1, <1>2 DEF ChildTypes, Report
<1>4. OwnStep
  BY FieldTypes DEF ChildIInv, ChildTypes, ChildRecords, RunIsOfState, Report, OwnStep, Has, Held, Settled
<1>5. RunIsOfState' /\ SentToATurn' /\ SentByATurn' /\ InboxIsOfATurn' /\ WakeIsAhead'
  <2>1. RunIsOfState'
    BY DEF ChildIInv, ChildTypes, ChildRecords, RunIsOfState, Report
  <2>2. SentToATurn'
    BY ChildAssumption DEF ChildIInv, ChildTypes, ChildRecords, SentToATurn, RunIsOfState, Report
  <2>3. InboxIsOfATurn'
    BY DEF ChildIInv, ChildTypes, ChildRecords, InboxIsOfATurn, Report
  <2>4. WakeIsAhead'
    BY DEF ChildIInv, ChildTypes, ChildRecords, WakeIsAhead, Report
  <2>5. SentByATurn'
    BY DEF ChildIInv, ChildTypes, ChildRecords, SentByATurn, RunIsOfState, Report
  <2> QED BY <2>1, <2>2, <2>3, <2>4, <2>5
<1> QED BY <1>3, <1>4, <1>5, OwnStepKeeps DEF ChildIInv

-----------------------------------------------------------------------------
(* Stopping: tokens are set, a child is marked as deleted, a sweep is over. *)
LEMMA StopsKeep ==
    ASSUME ChildIInv, NEW ch \in [Children -> ChildRecords], NEW S, child' = CancelAll(ch, S),
           \A d \in Children :
             /\ ch[d].state = child[d].state /\ ch[d].gen = child[d].gen /\ ch[d].run = child[d].run
             /\ ch[d].inTurn = child[d].inTurn /\ ch[d].replied = child[d].replied
             /\ ch[d].announced = child[d].announced /\ ch[d].rewake = child[d].rewake
             /\ ch[d].owed = child[d].owed /\ ch[d].read = child[d].read /\ ch[d].backlog = child[d].backlog
             /\ ch[d].pending = child[d].pending /\ ch[d].inbox = child[d].inbox /\ ch[d].wake = child[d].wake
             /\ child[d].deleted => ch[d].deleted,
           UNCHANGED <<send, wait, told, hidden, unread>>
    PROVE  ChildIInv'
<1>1. ChildTypes'
  BY CancelAllType DEF ChildIInv, ChildTypes
<1>2. MailStep
  BY CancelAllFields DEF MailStep, Has, Held
<1>3. StillStep
  BY CancelAllFields DEF StillStep
<1> QED BY <1>1, <1>2, <1>3, MailStepKeeps, StillStepKeeps DEF ChildIInv

LEMMA CancelDescendantsKeeps == ASSUME ChildIInv, NEW c \in Children, CancelDescendants(c) PROVE ChildIInv'
<1>1. child \in [Children -> ChildRecords]
  BY DEF ChildIInv, ChildTypes
<1> DEFINE ch == [child EXCEPT ![c].sweep = FALSE]
<1>2. ch \in [Children -> ChildRecords]
  <2>1. child[c] \in ChildRecords
    BY <1>1
  <2>2. [child[c] EXCEPT !.sweep = FALSE] \in ChildRecords
    BY <2>1 DEF ChildRecords
  <2> QED BY <1>1, <2>2
<1>3. child' = CancelAll(ch, Descendants(c)) /\ UNCHANGED <<send, wait, told, hidden, unread>>
  BY DEF CancelDescendants
<1>4. \A d \in Children :
        /\ ch[d].state = child[d].state /\ ch[d].gen = child[d].gen /\ ch[d].run = child[d].run
        /\ ch[d].inTurn = child[d].inTurn /\ ch[d].replied = child[d].replied
        /\ ch[d].announced = child[d].announced /\ ch[d].rewake = child[d].rewake
        /\ ch[d].owed = child[d].owed /\ ch[d].read = child[d].read /\ ch[d].backlog = child[d].backlog
        /\ ch[d].pending = child[d].pending /\ ch[d].inbox = child[d].inbox /\ ch[d].wake = child[d].wake
        /\ child[d].deleted => ch[d].deleted
  BY <1>1 DEF ChildRecords
<1> HIDE DEF ch
<1> QED BY <1>1, <1>2, <1>3, <1>4, StopsKeep

LEMMA DeleteKeeps == ASSUME ChildIInv, NEW c \in Children, Delete(c) PROVE ChildIInv'
<1>1. child \in [Children -> ChildRecords]
  BY DEF ChildIInv, ChildTypes
<1> DEFINE ch == [child EXCEPT ![c].deleted = TRUE]
<1>2. ch \in [Children -> ChildRecords]
  <2>1. child[c] \in ChildRecords
    BY <1>1
  <2>2. [child[c] EXCEPT !.deleted = TRUE] \in ChildRecords
    BY <2>1 DEF ChildRecords
  <2> QED BY <1>1, <2>2
<1>3. child' = CancelAll(ch, {c} \cup Descendants(c)) /\ UNCHANGED <<send, wait, told, hidden, unread>>
  BY DEF Delete
<1>4. \A d \in Children :
        /\ ch[d].state = child[d].state /\ ch[d].gen = child[d].gen /\ ch[d].run = child[d].run
        /\ ch[d].inTurn = child[d].inTurn /\ ch[d].replied = child[d].replied
        /\ ch[d].announced = child[d].announced /\ ch[d].rewake = child[d].rewake
        /\ ch[d].owed = child[d].owed /\ ch[d].read = child[d].read /\ ch[d].backlog = child[d].backlog
        /\ ch[d].pending = child[d].pending /\ ch[d].inbox = child[d].inbox /\ ch[d].wake = child[d].wake
        /\ child[d].deleted => ch[d].deleted
  BY <1>1 DEF ChildRecords
<1> HIDE DEF ch
<1> QED BY <1>1, <1>2, <1>3, <1>4, StopsKeep

LEMMA StopKeeps == ASSUME ChildIInv, NEW c \in Children, Stop(c) PROVE ChildIInv'
<1>1. child \in [Children -> ChildRecords]
  BY DEF ChildIInv, ChildTypes
<1>2. child' = CancelAll(child, {c} \cup Descendants(c)) /\ UNCHANGED <<send, wait, told, hidden, unread>>
  BY DEF Stop
<1> QED BY <1>1, <1>2, StopsKeep

-----------------------------------------------------------------------------
(* Sending: what a child sends its parent counts as its reply.              *)
LEMMA SendMessageKeeps == ASSUME ChildIInv, NEW m \in Messages, SendMessage(m) PROVE ChildIInv'
<1>1. child \in [Children -> ChildRecords] /\ From[m] \in Children \cup {Root}
  BY ChildAssumption DEF ChildIInv, ChildTypes
<1>2. /\ child' \in [Children -> ChildRecords]
      /\ \A d \in Children :
        /\ child'[d].state = child[d].state /\ child'[d].gen = child[d].gen /\ child'[d].run = child[d].run
        /\ child'[d].inTurn = child[d].inTurn
        /\ child'[d].replied => child[d].replied \/ (d = From[m] /\ To[m] = ParentOf[d])
        /\ child'[d].announced = child[d].announced /\ child'[d].rewake = child[d].rewake
        /\ child'[d].owed = child[d].owed /\ child'[d].read = child[d].read /\ child'[d].backlog = child[d].backlog
        /\ child'[d].pending = child[d].pending /\ child'[d].inbox = child[d].inbox /\ child'[d].wake = child[d].wake
        /\ child'[d].deleted = child[d].deleted
  <2>1. CASE child' = child
    BY <1>1, <2>1
  <2>2. CASE From[m] \in Children /\ To[m] = ParentOf[From[m]] /\ child' = [child EXCEPT ![From[m]].replied = TRUE]
    <3> DEFINE f == From[m]
    <3>1. f \in Children /\ f = From[m] /\ To[m] = ParentOf[f] /\ child' = [child EXCEPT ![f].replied = TRUE]
      BY <2>2
    <3>2. child[f] \in ChildRecords
      BY <1>1, <3>1
    <3>3. [child[f] EXCEPT !.replied = TRUE] \in ChildRecords
      BY <3>2 DEF ChildRecords
    <3> HIDE DEF f
    <3>4. child' \in [Children -> ChildRecords]
      BY <1>1, <3>1, <3>3
    <3> QED BY <1>1, <3>1, <3>4 DEF ChildRecords
  <2> QED BY <1>1, <2>1, <2>2 DEF SendMessage
<1>3. ChildTypes'
  BY <1>2 DEF ChildIInv, ChildTypes, SendMessage
<1>4. \A n \in Messages : n # m => send'[n] = send[n]
  BY DEF SendMessage, ChildIInv, ChildTypes
<1>5. send[m] = "idle" /\ send'[m] = "route" /\ Acting(From[m]) /\ UNCHANGED <<wait, told, hidden, unread>>
  BY DEF SendMessage, ChildIInv, ChildTypes
<1>6. ASSUME NEW d \in Children, child'[d].replied PROVE child[d].replied \/ (child[d].gen > 0 /\ HasReplied(d)')
  <2>1. CASE d = From[m] /\ To[m] = ParentOf[d]
    <3>2. child[d].gen > 0
      BY <1>5, <2>1, FieldTypes, ChildAssumption DEF ChildIInv, RunIsOfState, Acting
    <3>1. ~OfRoot(d)
      BY <2>1, ChildAssumption DEF OfRoot
    <3> QED BY <1>5, <2>1, <3>1, <3>2 DEF HasReplied, OfRoot
  <2> QED BY <1>2, <1>6, <2>1
<1>7. MailStep
  <2>1. \A d \in Children : Has(d)' = Has(d) /\ child'[d].state = child[d].state /\ child'[d].gen = child[d].gen
    BY <1>2 DEF Has, Held
  <2>2. \A n \in Messages :
          /\ send'[n] = "accepted" => send[n] = "accepted"
          /\ send[n] \in {"accepted", "refused"} => send'[n] = send[n]
          /\ send[n] # "idle" => send'[n] # "idle"
    BY <1>4, <1>5
  <2> QED BY <1>2, <1>5, <1>6, <2>1, <2>2 DEF MailStep
<1>8. StillStep
  BY <1>2, <1>4, <1>5 DEF StillStep
<1> QED BY <1>3, <1>7, <1>8, MailStepKeeps, StillStepKeeps DEF ChildIInv

LEMMA ReplyToRootKeeps == ASSUME ChildIInv, NEW c \in Children, ReplyToRoot(c) PROVE ChildIInv'
<1>1. child \in [Children -> ChildRecords] /\ told \subseteq Children \X Nat \X Ways
  BY DEF ChildIInv, ChildTypes
<1>2. /\ child' \in [Children -> ChildRecords]
      /\ \A d \in Children :
        /\ child'[d].state = child[d].state /\ child'[d].gen = child[d].gen /\ child'[d].run = child[d].run
        /\ child'[d].inTurn = child[d].inTurn /\ (child'[d].replied => child[d].replied \/ d = c)
        /\ child'[d].announced = child[d].announced /\ child'[d].rewake = child[d].rewake
        /\ child'[d].owed = child[d].owed /\ child'[d].read = child[d].read /\ child'[d].backlog = child[d].backlog
        /\ child'[d].pending = child[d].pending /\ child'[d].inbox = child[d].inbox /\ child'[d].wake = child[d].wake
        /\ child'[d].deleted = child[d].deleted
  <2>1. child' = [child EXCEPT ![c].replied = TRUE]
    BY DEF ReplyToRoot
  <2>2. child[c] \in ChildRecords
    BY <1>1
  <2>3. [child[c] EXCEPT !.replied = TRUE] \in ChildRecords
    BY <2>2 DEF ChildRecords
  <2>4. child' \in [Children -> ChildRecords]
    BY <1>1, <2>1, <2>3
  <2> QED BY <1>1, <2>1, <2>4 DEF ChildRecords
<1>3. told' = told \cup {<<c, child[c].gen, "reply">>} /\ OfRoot(c) /\ UNCHANGED <<send, wait, hidden, unread>>
  BY DEF ReplyToRoot
<1>4. ChildTypes'
  <2>1. <<c, child[c].gen, "reply">> \in Children \X Nat \X Ways
    BY FieldTypes DEF ChildIInv, Ways
  <2> QED BY <1>1, <1>2, <1>3, <2>1 DEF ChildIInv, ChildTypes
<1>5. MailStep
  <2>1. \A d \in Children : Has(d)' = Has(d)
    BY <1>2 DEF Has, Held
  <2>2. HasReplied(c)' /\ child[c].gen > 0
    <3>1. child[c].gen > 0
      BY FieldTypes DEF ChildIInv, RunIsOfState, ReplyToRoot
    <3> QED BY <1>2, <1>3, <3>1 DEF HasReplied, OfRoot
  <2>3. \A d \in Children, n \in Nat, how \in {"notice", "call"} : <<d, n, how>> \in told' => <<d, n, how>> \in told
    BY <1>3
  <2> QED BY <1>2, <1>3, <2>1, <2>2, <2>3 DEF MailStep
<1>6. StillStep
  BY <1>2, <1>3 DEF StillStep
<1> QED BY <1>4, <1>5, <1>6, MailStepKeeps, StillStepKeeps DEF ChildIInv

(* deliver_to_child puts the message where the child will find it.          *)
LEMMA RouteMessageKeeps == ASSUME ChildIInv, NEW m \in Messages, RouteMessage(m) PROVE ChildIInv'
<1> DEFINE c == To[m]
<1>1. /\ c \in Children /\ child \in [Children -> ChildRecords]
      /\ send \in [Messages -> {"idle", "route", "wake", "inbox", "accepted", "refused"}]
  BY ChildAssumption DEF ChildIInv, ChildTypes
<1>2. child[c].backlog \cup {m} \subseteq Messages /\ child[c].pending \cup {m} \subseteq Items /\ child[c] \in ChildRecords
  BY <1>1, FieldTypes DEF ChildIInv, Items
<1>3. /\ send[m] = "route" /\ UNCHANGED <<wait, told, hidden, unread>>
      /\ \/ child' = child /\ \E s \in {"refused", "wake"} : send' = [send EXCEPT ![m] = s]
         \/ child' = child /\ send' = [send EXCEPT ![m] = "inbox"] /\ child[c].inTurn
         \/ child' = [child EXCEPT ![c].backlog = child[c].backlog \cup {m}] /\ send' = [send EXCEPT ![m] = "accepted"]
         \/ child' = [child EXCEPT ![c].pending = child[c].pending \cup {m}] /\ send' = [send EXCEPT ![m] = "accepted"]
  BY <1>1 DEF RouteMessage
<1> HIDE DEF c
<1>4. child' \in [Children -> ChildRecords]
  <2>1. /\ [child[c] EXCEPT !.backlog = child[c].backlog \cup {m}] \in ChildRecords
        /\ [child[c] EXCEPT !.pending = child[c].pending \cup {m}] \in ChildRecords
    BY <1>2 DEF ChildRecords
  <2> QED BY <1>1, <1>3, <2>1
<1>5. ChildTypes'
  <2>1. send' \in [Messages -> {"idle", "route", "wake", "inbox", "accepted", "refused"}]
    BY <1>1, <1>3
  <2> QED BY <1>3, <1>4, <2>1 DEF ChildIInv, ChildTypes
<1>6. \A d \in Children :
        /\ child'[d].state = child[d].state /\ child'[d].gen = child[d].gen /\ child'[d].run = child[d].run
        /\ child'[d].inTurn = child[d].inTurn /\ child'[d].replied = child[d].replied
        /\ child'[d].announced = child[d].announced /\ child'[d].rewake = child[d].rewake
        /\ child'[d].owed = child[d].owed /\ child'[d].read = child[d].read
        /\ child'[d].inbox = child[d].inbox /\ child'[d].wake = child[d].wake /\ child'[d].deleted = child[d].deleted
        /\ child[d].backlog \subseteq child'[d].backlog /\ child'[d].backlog \subseteq child[d].backlog \cup {m}
        /\ child[d].pending \subseteq child'[d].pending /\ child'[d].pending \subseteq child[d].pending \cup {m}
  BY <1>1, <1>3 DEF ChildRecords
<1>7. send'[m] = "accepted" => m \in child'[c].backlog \cup child'[c].pending
  BY <1>1, <1>3 DEF ChildRecords
<1>8. MailStep
  <2>1. \A n \in Messages : send'[n] = "accepted" => send[n] = "accepted" \/ n \in Has(To[n])'
    BY <1>1, <1>3, <1>7 DEF Has, Held, c
  <2>2. \A n \in Messages :
          /\ send[n] \in {"accepted", "refused"} => send'[n] = send[n]
          /\ send[n] # "idle" => send'[n] # "idle"
    BY <1>1, <1>3
  <2> QED BY <1>3, <1>6, <2>1, <2>2 DEF MailStep, Has, Held
<1>9. RunIsOfState' /\ SentToATurn' /\ SentByATurn' /\ InboxIsOfATurn' /\ WakeIsAhead'
  <2>1. RunIsOfState' /\ InboxIsOfATurn' /\ WakeIsAhead'
    BY <1>3, <1>6 DEF ChildIInv, RunIsOfState, InboxIsOfATurn, WakeIsAhead
  <2>2. SentToATurn'
    <3> SUFFICES ASSUME NEW n \in Messages, send'[n] = "inbox" PROVE child'[To[n]].run \in {"turn", "stopped", "closing"}
      BY DEF SentToATurn
    <3>1. To[n] \in Children
      BY ChildAssumption
    <3>2. CASE send[n] = "inbox"
      BY <1>6, <3>1, <3>2 DEF ChildIInv, SentToATurn
    <3>3. CASE send[n] # "inbox"
      <4>1. n = m /\ child[c].inTurn
        BY <1>1, <1>3, <3>3
      <4> QED BY <1>1, <1>6, <4>1 DEF ChildIInv, RunIsOfState, c
    <3> QED BY <3>2, <3>3
  <2>3. SentByATurn'
    <3>1. \A n \in Messages : send'[n] \in {"route", "wake", "inbox"} => send[n] \in {"route", "wake", "inbox"}
      BY <1>1, <1>3
    <3> QED BY <1>6, <3>1 DEF ChildIInv, SentByATurn
  <2> QED BY <2>1, <2>2, <2>3
<1> QED BY <1>5, <1>8, <1>9, MailStepKeeps DEF ChildIInv

LEMMA EnqueueKeeps == ASSUME ChildIInv, NEW m \in Messages, Enqueue(m) PROVE ChildIInv'
<1> DEFINE c == To[m]
<1>1. /\ c \in Children /\ child \in [Children -> ChildRecords]
      /\ send \in [Messages -> {"idle", "route", "wake", "inbox", "accepted", "refused"}]
  BY ChildAssumption DEF ChildIInv, ChildTypes
<1>2. child[c].inbox \cup {m} \subseteq Messages /\ child[c] \in ChildRecords
  BY <1>1, FieldTypes DEF ChildIInv
<1>3. /\ send[m] = "inbox" /\ UNCHANGED <<wait, told, hidden, unread>>
      /\ \/ child' = child /\ send' = [send EXCEPT ![m] = "refused"]
         \/ child' = [child EXCEPT ![c].inbox = child[c].inbox \cup {m}] /\ send' = [send EXCEPT ![m] = "accepted"]
  BY <1>1 DEF Enqueue
<1>4. child[c].run \in {"turn", "stopped", "closing"}
  BY <1>3 DEF ChildIInv, SentToATurn
<1> HIDE DEF c
<1>5. child' \in [Children -> ChildRecords]
  <2>1. [child[c] EXCEPT !.inbox = child[c].inbox \cup {m}] \in ChildRecords
    BY <1>2 DEF ChildRecords
  <2> QED BY <1>1, <1>3, <2>1
<1>6. ChildTypes'
  <2>1. send' \in [Messages -> {"idle", "route", "wake", "inbox", "accepted", "refused"}]
    BY <1>1, <1>3
  <2> QED BY <1>3, <1>5, <2>1 DEF ChildIInv, ChildTypes
<1>7. \A d \in Children :
        /\ child'[d].state = child[d].state /\ child'[d].gen = child[d].gen /\ child'[d].run = child[d].run
        /\ child'[d].inTurn = child[d].inTurn /\ child'[d].replied = child[d].replied
        /\ child'[d].announced = child[d].announced /\ child'[d].rewake = child[d].rewake
        /\ child'[d].owed = child[d].owed /\ child'[d].read = child[d].read
        /\ child'[d].backlog = child[d].backlog /\ child'[d].pending = child[d].pending
        /\ child'[d].wake = child[d].wake /\ child'[d].deleted = child[d].deleted
        /\ child[d].inbox \subseteq child'[d].inbox /\ child'[d].inbox \subseteq child[d].inbox \cup {m}
        /\ child'[d].inbox # child[d].inbox => d = c
  BY <1>1, <1>3 DEF ChildRecords
<1>8. send'[m] = "accepted" => m \in child'[c].inbox
  BY <1>1, <1>3 DEF ChildRecords
<1>9. MailStep
  <2>1. \A n \in Messages : send'[n] = "accepted" => send[n] = "accepted" \/ n \in Has(To[n])'
    BY <1>1, <1>3, <1>8 DEF Has, Held, c
  <2>2. \A n \in Messages :
          /\ send[n] \in {"accepted", "refused"} => send'[n] = send[n]
          /\ send[n] # "idle" => send'[n] # "idle"
    BY <1>1, <1>3
  <2> QED BY <1>3, <1>7, <2>1, <2>2 DEF MailStep, Has, Held
<1>10. RunIsOfState' /\ SentToATurn' /\ SentByATurn' /\ InboxIsOfATurn' /\ WakeIsAhead'
  <2>1. RunIsOfState' /\ WakeIsAhead'
    BY <1>3, <1>7 DEF ChildIInv, RunIsOfState, WakeIsAhead
  <2>2. InboxIsOfATurn'
    BY <1>4, <1>7 DEF ChildIInv, InboxIsOfATurn
  <2>3. \A n \in Messages : send'[n] = "inbox" => send[n] = "inbox" /\ To[n] \in Children
    BY <1>1, <1>3, ChildAssumption
  <2>4. SentToATurn'
    BY <1>7, <2>3 DEF ChildIInv, SentToATurn
  <2>5. SentByATurn'
    <3>1. \A n \in Messages : send'[n] \in {"route", "wake", "inbox"} => send[n] \in {"route", "wake", "inbox"}
      BY <1>1, <1>3
    <3> QED BY <1>7, <3>1 DEF ChildIInv, SentByATurn
  <2> QED BY <2>1, <2>2, <2>4, <2>5
<1> QED BY <1>6, <1>9, <1>10, MailStepKeeps DEF ChildIInv

-----------------------------------------------------------------------------
(* The calls that wait: a child that has settled is not waited for, one     *)
(* that is told its result or whose caller leaves is no longer.             *)
LEMMA WaitsKeep ==
    ASSUME ChildIInv, NEW c \in Children, BeginWait(c) \/ WaitReturns(c) \/ WaitCancelled(c) \/ LeaveWait(c)
    PROVE  ChildIInv'
<1>1. /\ child' = child /\ send' = send /\ unread' = unread /\ told \subseteq told' /\ hidden \subseteq hidden'
      /\ \A d \in Children \ {c} : wait'[d] = wait[d]
  BY DEF BeginWait, WaitReturns, WaitCancelled, LeaveWait, ChildIInv, ChildTypes
<1>2. child[c].gen \in Nat /\ wait \in [Children -> {"none", "waiting", "late", "leaving"}]
  BY FieldTypes DEF ChildIInv, ChildTypes
<1>3. \/ told' = told
      \/ Settled(c) /\ wait[c] = "waiting" /\ told' = told \cup {<<c, child[c].gen, "call">>}
      \/ Settled(c) /\ told' = told \cup {<<c, child[c].gen, "late">>}
  BY DEF BeginWait, WaitReturns, WaitCancelled, LeaveWait
<1>4. ChildTypes'
  <2>1. /\ <<c, child[c].gen>> \in Notices
        /\ \A how \in Ways : <<c, child[c].gen, how>> \in Children \X Nat \X Ways
    BY <1>2 DEF Notices
  <2>2. told' \subseteq Children \X Nat \X Ways
    BY <1>3, <2>1 DEF ChildIInv, ChildTypes, Ways
  <2>3. hidden' \subseteq Notices /\ wait' \in [Children -> {"none", "waiting", "late", "leaving"}]
    BY <2>1 DEF BeginWait, WaitReturns, WaitCancelled, LeaveWait, ChildIInv, ChildTypes
  <2> QED BY <1>1, <2>2, <2>3 DEF ChildIInv, ChildTypes
<1>5. StillStep
  BY <1>1 DEF StillStep
<1>6. AcceptedIsKept' /\ OwedIsNested' /\ FirstIsLast'
  BY <1>1 DEF ChildIInv, AcceptedIsKept, Held, OwedIsNested, OfRoot, FirstIsLast, Settled
<1>7. RepliesWereSent'
  BY <1>1 DEF ChildIInv, RepliesWereSent, HasReplied, OfRoot
<1>8. wait'[c] = "waiting" => wait[c] = "waiting" \/ ~Settled(c)
  BY DEF BeginWait, WaitReturns, WaitCancelled, LeaveWait, ChildIInv, ChildTypes
<1>9. wait'[c] = "late" => wait[c] = "late" \/ (Settled(c) /\ child[c].gen = 1)
  BY DEF BeginWait, WaitReturns, WaitCancelled, LeaveWait, ChildIInv, ChildTypes
<1>10. CallsAreOfPast'
  <2>1. ASSUME NEW d \in Children, NEW n \in Nat, <<d, n, "call">> \in told'
        PROVE  n <= child[d].gen /\ (n = child[d].gen => Settled(d))
    <3>1. CASE <<d, n, "call">> \in told
      BY <3>1 DEF ChildIInv, CallsAreOfPast
    <3>2. CASE <<d, n, "call">> \notin told
      <4>1. d = c /\ n = child[c].gen /\ Settled(c)
        BY <1>3, <2>1, <3>2
      <4> QED BY <1>2, <4>1
    <3> QED BY <3>1, <3>2
  <2>2. ASSUME NEW d \in Children, wait'[d] = "late" PROVE child[d].gen > 0 /\ (child[d].gen = 1 => Settled(d))
    BY <1>1, <1>9, <2>2 DEF ChildIInv, CallsAreOfPast
  <2> QED BY <1>1, <2>1, <2>2 DEF CallsAreOfPast, Settled
<1>11. NoticesAreOfPast'
  <2> SUFFICES ASSUME NEW d \in Children, NEW n \in Nat, Sent(d, n)'
               PROVE  /\ 0 < n /\ n <= child[d].gen
                      /\ n = child[d].gen => Settled(d) /\ wait'[d] # "waiting"
                      /\ <<d, n, "call">> \notin told'
    BY <1>1 DEF NoticesAreOfPast, Settled
  <2>1. Sent(d, n)
    BY <1>1, <1>3 DEF Sent, Has, Held
  <2>2. /\ 0 < n /\ n <= child[d].gen /\ (n = child[d].gen => Settled(d) /\ wait[d] # "waiting")
        /\ <<d, n, "call">> \notin told
    BY <2>1 DEF ChildIInv, NoticesAreOfPast
  <2>3. <<d, n, "call">> \notin told'
    BY <1>3, <2>2
  <2> QED BY <1>1, <1>8, <2>2, <2>3
<1>12. SettledIsTold'
  <2> SUFFICES ASSUME NEW d \in Children, Settled(d), child[d].gen = 1, wait'[d] # "waiting", ~child[d].rewake
               PROVE  FirstIsTold(d)'
    BY <1>1 DEF SettledIsTold, Settled
  <2>1. CASE wait[d] # "waiting"
    <3>1. FirstIsTold(d)
      BY <2>1 DEF ChildIInv, SettledIsTold
    <3> QED BY <1>1, <3>1 DEF FirstIsTold, Replies, OfParent, OfRoot, Held
  <2>2. CASE wait[d] = "waiting"
    <3>1. d = c
      BY <1>1, <2>2
    <3>2. WaitReturns(c) \/ WaitCancelled(c)
      BY <2>2, <3>1 DEF BeginWait, LeaveWait
    <3>3. CASE WaitReturns(c)
      BY <2>2, <3>1, <3>3 DEF WaitReturns, FirstIsTold, Ways
    <3>4. CASE WaitCancelled(c)
      BY <3>1, <3>4 DEF WaitCancelled, FirstIsTold
    <3> QED BY <3>2, <3>3, <3>4
  <2> QED BY <2>1, <2>2
<1> QED BY <1>4, <1>5, <1>6, <1>7, <1>10, <1>11, <1>12, StillStepKeeps DEF ChildIInv

-----------------------------------------------------------------------------
(* A nested child's notice goes to its parent.                              *)
LEMMA TellParentKeeps == ASSUME ChildIInv, NEW c \in Children, TellParent(c) PROVE ChildIInv'
<1> DEFINE p == ParentOf[c]
<1>1. c \in Children /\ p \in Children /\ child \in [Children -> ChildRecords]
  BY ChildAssumption DEF ChildIInv, ChildTypes, TellParent, OwedIsNested, OfRoot
<1>2. child[p].pending \cup child[c].owed \subseteq Items /\ child[p] \in ChildRecords
  BY <1>1, FieldTypes DEF ChildIInv, Items
<1> DEFINE mid == [child EXCEPT ![p] = [child[p] EXCEPT !.pending = child[p].pending \cup child[c].owed]]
<1>3. child' = [mid EXCEPT ![c] = [mid[c] EXCEPT !.owed = {}]] /\ UNCHANGED <<send, wait, told, hidden, unread>>
  BY <1>1 DEF TellParent
<1> HIDE DEF p
<1>4. mid \in [Children -> ChildRecords]
  <2>1. [child[p] EXCEPT !.pending = child[p].pending \cup child[c].owed] \in ChildRecords
    BY <1>2 DEF ChildRecords
  <2> QED BY <1>1, <2>1
<1>5. /\ \A d \in Children \ {p} : mid[d] = child[d]
      /\ mid[p] = [child[p] EXCEPT !.pending = child[p].pending \cup child[c].owed]
  BY <1>1 DEF mid
<1> HIDE DEF mid
<1>6. child' \in [Children -> ChildRecords]
  <2>1. mid[c] \in ChildRecords
    BY <1>1, <1>4
  <2>2. [mid[c] EXCEPT !.owed = {}] \in ChildRecords
    BY <2>1 DEF ChildRecords
  <2> QED BY <1>1, <1>3, <1>4, <2>2
<1>7. \A d \in Children :
        /\ child'[d].state = child[d].state /\ child'[d].gen = child[d].gen /\ child'[d].run = child[d].run
        /\ child'[d].inTurn = child[d].inTurn /\ child'[d].replied = child[d].replied
        /\ child'[d].announced = child[d].announced /\ child'[d].rewake = child[d].rewake
        /\ child'[d].read = child[d].read /\ child'[d].backlog = child[d].backlog
        /\ child'[d].inbox = child[d].inbox /\ child'[d].wake = child[d].wake /\ child'[d].deleted = child[d].deleted
        /\ child[d].pending \subseteq child'[d].pending /\ child'[d].pending \subseteq child[d].pending \cup child[c].owed
        /\ d = p => child[c].owed \subseteq child'[d].pending
        /\ child'[d].owed \subseteq child[d].owed /\ (d # c => child'[d].owed = child[d].owed)
  <2> SUFFICES ASSUME NEW d \in Children
               PROVE  /\ child'[d].state = child[d].state /\ child'[d].gen = child[d].gen /\ child'[d].run = child[d].run
                      /\ child'[d].inTurn = child[d].inTurn /\ child'[d].replied = child[d].replied
                      /\ child'[d].announced = child[d].announced /\ child'[d].rewake = child[d].rewake
                      /\ child'[d].read = child[d].read /\ child'[d].backlog = child[d].backlog
                      /\ child'[d].inbox = child[d].inbox /\ child'[d].wake = child[d].wake /\ child'[d].deleted = child[d].deleted
                      /\ child[d].pending \subseteq child'[d].pending /\ child'[d].pending \subseteq child[d].pending \cup child[c].owed
                      /\ d = p => child[c].owed \subseteq child'[d].pending
                      /\ child'[d].owed \subseteq child[d].owed /\ (d # c => child'[d].owed = child[d].owed)
    OBVIOUS
  <2>1. /\ mid[d].state = child[d].state /\ mid[d].gen = child[d].gen /\ mid[d].run = child[d].run
        /\ mid[d].inTurn = child[d].inTurn /\ mid[d].replied = child[d].replied
        /\ mid[d].announced = child[d].announced /\ mid[d].rewake = child[d].rewake
        /\ mid[d].owed = child[d].owed /\ mid[d].read = child[d].read /\ mid[d].backlog = child[d].backlog
        /\ mid[d].inbox = child[d].inbox /\ mid[d].wake = child[d].wake /\ mid[d].deleted = child[d].deleted
    <3>1. CASE d = p
      BY <1>2, <1>5, <3>1 DEF ChildRecords
    <3>2. CASE d # p
      BY <1>5, <3>2
    <3> QED BY <3>1, <3>2
  <2>2. /\ child[d].pending \subseteq mid[d].pending /\ mid[d].pending \subseteq child[d].pending \cup child[c].owed
        /\ d = p => child[c].owed \subseteq mid[d].pending
    BY <1>2, <1>5 DEF ChildRecords
  <2>3. /\ child'[d].state = mid[d].state /\ child'[d].gen = mid[d].gen /\ child'[d].run = mid[d].run
        /\ child'[d].inTurn = mid[d].inTurn /\ child'[d].replied = mid[d].replied
        /\ child'[d].announced = mid[d].announced /\ child'[d].rewake = mid[d].rewake
        /\ child'[d].read = mid[d].read /\ child'[d].backlog = mid[d].backlog /\ child'[d].pending = mid[d].pending
        /\ child'[d].inbox = mid[d].inbox /\ child'[d].wake = mid[d].wake /\ child'[d].deleted = mid[d].deleted
        /\ child'[d].owed \subseteq mid[d].owed /\ (d # c => child'[d].owed = mid[d].owed)
    <3>1. CASE d = c
      BY <1>3, <1>4, <3>1 DEF ChildRecords
    <3>2. CASE d # c
      BY <1>3, <1>4, <3>2
    <3> QED BY <3>1, <3>2
  <2> QED BY <2>1, <2>2, <2>3
<1>8. ChildTypes'
  BY <1>3, <1>6 DEF ChildIInv, ChildTypes
<1>9. StillStep
  BY <1>3, <1>7 DEF StillStep
<1>10. \A d \in Children :
         /\ Has(d) \subseteq Has(d)' /\ Has(d)' \subseteq Has(d) \cup child[c].owed
         /\ child'[d].owed \subseteq child[d].owed /\ (d # c => child'[d].owed = child[d].owed)
         /\ Settled(d)' <=> Settled(d)
  BY <1>7 DEF Has, Held, Settled
<1>11. child[c].owed \subseteq Has(p)'
  BY <1>1, <1>7 DEF Has, Held
<1>12. AcceptedIsKept'
  <2>1. \A m \in Messages : To[m] \in Children
    BY ChildAssumption
  <2> QED BY <1>3, <1>10, <2>1 DEF ChildIInv, AcceptedIsKept, Has
<1>13. ASSUME NEW e \in Children, NEW n \in Nat, Sent(e, n)' PROVE Sent(e, n)
  <2>1. \A a \in Children : <<e, n>> \in Has(a)' \cup child'[a].owed => <<e, n>> \in Has(a) \cup child[a].owed \cup child[c].owed
    BY <1>10
  <2> QED BY <1>1, <1>3, <1>13, <2>1 DEF Sent
<1>14. NoticesAreOfPast'
  <2> SUFFICES ASSUME NEW e \in Children, NEW n \in Nat, Sent(e, n)'
               PROVE  /\ 0 < n /\ n <= child'[e].gen
                      /\ n = child'[e].gen => Settled(e)' /\ wait'[e] # "waiting"
                      /\ <<e, n, "call">> \notin told'
    BY DEF NoticesAreOfPast
  <2>1. /\ 0 < n /\ n <= child[e].gen /\ (n = child[e].gen => Settled(e) /\ wait[e] # "waiting")
        /\ <<e, n, "call">> \notin told
    BY <1>13 DEF ChildIInv, NoticesAreOfPast
  <2> QED BY <1>3, <1>7, <1>10, <2>1
<1>15. CallsAreOfPast'
  BY <1>3, <1>7, <1>10 DEF ChildIInv, CallsAreOfPast
<1>16. OwedIsNested'
  BY <1>10 DEF ChildIInv, OwedIsNested, OfRoot
<1>17. FirstIsLast'
  BY <1>3, <1>7, <1>10 DEF ChildIInv, FirstIsLast
<1>18. RepliesWereSent'
  BY <1>3, <1>7 DEF ChildIInv, RepliesWereSent, HasReplied, OfRoot
<1>19. SettledIsTold'
  <2> SUFFICES ASSUME NEW d \in Children, Settled(d), child[d].gen = 1, wait[d] # "waiting", ~child[d].rewake
               PROVE  FirstIsTold(d)'
    BY <1>3, <1>7, <1>10 DEF SettledIsTold
  <2>1. FirstIsTold(d)
    BY DEF ChildIInv, SettledIsTold
  <2>2. OfParent(d) \subseteq OfParent(d)' /\ (~OfRoot(d) => Has(ParentOf[d])' \subseteq OfParent(d)')
    <3>1. ~OfRoot(d) => ParentOf[d] \in Children
      BY ChildAssumption DEF OfRoot
    <3>2. OfParent(d) = IF OfRoot(d) THEN {} ELSE Has(ParentOf[d]) \cup unread
      BY DEF OfParent, Has
    <3>3. OfParent(d)' = IF OfRoot(d) THEN {} ELSE Has(ParentOf[d])' \cup unread'
      BY DEF OfParent, Has, OfRoot
    <3> QED BY <1>3, <1>10, <3>1, <3>2, <3>3
  <2>3. Replies(d, "accepted")' = Replies(d, "accepted") /\ Replies(d, "refused")' = Replies(d, "refused")
    BY <1>3 DEF Replies
  <2>4. CASE <<d, 1>> \in child[d].owed /\ d = c
    <3>1. ~OfRoot(d) /\ <<d, 1>> \in Has(ParentOf[d])'
      BY <1>1, <1>11, <2>4 DEF p, ChildIInv, OwedIsNested
    <3> QED BY <2>2, <3>1 DEF FirstIsTold
  <2>5. CASE <<d, 1>> \in child[d].owed /\ d # c
    BY <1>10, <2>5 DEF FirstIsTold
  <2>6. CASE <<d, 1>> \notin child[d].owed
    BY <1>3, <1>7, <2>1, <2>2, <2>3, <2>6 DEF FirstIsTold
  <2> QED BY <2>4, <2>5, <2>6
<1> QED BY <1>8, <1>9, <1>12, <1>14, <1>15, <1>16, <1>17, <1>18, <1>19, StillStepKeeps DEF ChildIInv

-----------------------------------------------------------------------------
(* A child starts to run: for the first time, or because it is woken.       *)
Begins(c) ==
    /\ c \in Children /\ child[c].state # "running"
    /\ \A d \in Children \ {c} : child'[d] = child[d]
    /\ child'[c].state = "running" /\ child'[c].run = "queued" /\ child'[c].gen = child[c].gen + 1
    /\ child'[c].inTurn = child[c].inTurn /\ child'[c].inbox = child[c].inbox /\ child'[c].owed = child[c].owed
    /\ child'[c].announced = child[c].announced /\ (child'[c].rewake => child[c].rewake)
    /\ ~child'[c].replied
    /\ Has(c) \subseteq Has(c)' /\ Has(c)' \subseteq Has(c) \cup Messages
    /\ \A m \in Messages :
          /\ send'[m] = "accepted" => send[m] = "accepted" \/ (To[m] = c /\ m \in Has(c)')
          /\ send'[m] \in {"route", "wake", "inbox"} => send'[m] = send[m]
          /\ send[m] \in {"accepted", "refused"} => send'[m] = send[m]
          /\ send[m] # "idle" => send'[m] # "idle"
    /\ UNCHANGED <<wait, told, hidden, unread>>

LEMMA BeginsKeeps == ASSUME ChildIInv, ChildTypes', NEW c \in Children, Begins(c) PROVE ChildIInv'
<1>1. /\ child[c].run = "none" /\ ~child[c].inTurn /\ child[c].inbox = {} /\ child[c].gen \in Nat /\ child[c].replied \in BOOLEAN
      /\ \A m \in Messages : (To[m] = c => send[m] # "inbox") /\ (From[m] = c => send[m] \notin {"route", "wake", "inbox"})
  <2>1. child[c].run = "none" /\ child[c].gen \in Nat /\ ~child[c].inTurn /\ child[c].replied \in BOOLEAN
    BY FieldTypes DEF Begins, ChildIInv, RunIsOfState, ChildTypes, ChildRecords
  <2>2. child[c].inbox = {}
    BY <2>1 DEF ChildIInv, InboxIsOfATurn
  <2> QED BY <2>1, <2>2 DEF ChildIInv, SentToATurn, SentByATurn
<1>2. \A m \in Messages : To[m] \in Children
  BY ChildAssumption
<1>3. RunIsOfState'
  BY <1>1 DEF Begins, ChildIInv, RunIsOfState
<1>4. SentToATurn' /\ SentByATurn'
  BY <1>1, <1>2 DEF Begins, ChildIInv, SentToATurn, SentByATurn
<1>5. InboxIsOfATurn'
  BY <1>1 DEF Begins, ChildIInv, InboxIsOfATurn
<1>6. WakeIsAhead'
  BY DEF Begins, ChildIInv, WakeIsAhead
<1>7. \A d \in Children :
        /\ Has(d) \subseteq Has(d)' /\ Has(d)' \subseteq Has(d) \cup Messages /\ child'[d].owed = child[d].owed
        /\ d # c => (Settled(d)' <=> Settled(d))
  BY DEF Begins, Has, Held, Settled
<1>8. AcceptedIsKept'
  <2> SUFFICES ASSUME NEW m \in Messages, send'[m] = "accepted" PROVE m \in Has(To[m])' \cup unread
    BY DEF Begins, AcceptedIsKept, Has
  <2>1. CASE send[m] = "accepted"
    <3>1. m \in Has(To[m]) \cup unread
      BY <2>1 DEF ChildIInv, AcceptedIsKept, Has
    <3> QED BY <1>2, <1>7, <3>1
  <2>2. CASE send[m] # "accepted"
    BY <2>2 DEF Begins
  <2> QED BY <2>1, <2>2
<1>9. NoticesAreOfPast'
  <2> SUFFICES ASSUME NEW e \in Children, NEW n \in Nat, Sent(e, n)'
               PROVE  /\ 0 < n /\ n <= child'[e].gen
                      /\ n = child'[e].gen => Settled(e)' /\ wait'[e] # "waiting"
                      /\ <<e, n, "call">> \notin told'
    BY DEF NoticesAreOfPast
  <2>1. Sent(e, n)
    <3>1. \A a \in Children : <<e, n>> \in Has(a)' \cup child'[a].owed => <<e, n>> \in Has(a) \cup child[a].owed
      BY <1>7, NoticeIsNoMessage
    <3> QED BY <3>1 DEF Sent, Begins
  <2>2. /\ 0 < n /\ n <= child[e].gen /\ (n = child[e].gen => Settled(e) /\ wait[e] # "waiting")
        /\ <<e, n, "call">> \notin told
    BY <2>1 DEF ChildIInv, NoticesAreOfPast
  <2>3. CASE e = c
    BY <1>1, <2>2, <2>3 DEF Begins
  <2>4. CASE e # c
    BY <1>7, <2>2, <2>4 DEF Begins
  <2> QED BY <2>3, <2>4
<1>10. CallsAreOfPast'
  <2> SUFFICES ASSUME NEW d \in Children
               PROVE  /\ \A n \in Nat : <<d, n, "call">> \in told => n <= child'[d].gen /\ (n = child'[d].gen => Settled(d)')
                      /\ wait[d] = "late" => child'[d].gen > 0 /\ (child'[d].gen = 1 => Settled(d)')
    BY DEF CallsAreOfPast, Begins
  <2>1. /\ \A n \in Nat : <<d, n, "call">> \in told => n <= child[d].gen /\ (n = child[d].gen => Settled(d))
        /\ wait[d] = "late" => child[d].gen > 0 /\ (child[d].gen = 1 => Settled(d))
    BY DEF ChildIInv, CallsAreOfPast
  <2>2. CASE d = c
    BY <1>1, <2>1, <2>2 DEF Begins
  <2>3. CASE d # c
    BY <1>7, <2>1, <2>3 DEF Begins
  <2> QED BY <2>2, <2>3
<1>11. OwedIsNested'
  BY <1>7 DEF ChildIInv, OwedIsNested, OfRoot
<1>12. FirstIsLast'
  <2> SUFFICES ASSUME NEW d \in Children
               PROVE  /\ child'[d].announced \/ child'[d].rewake => child'[d].gen > 0 /\ (child'[d].gen = 1 => Settled(d)')
                      /\ child'[d].rewake /\ child'[d].gen = 1 =>
                            /\ child'[d].state = "done" /\ ~child'[d].announced
                            /\ child'[d].deleted \/ child'[d].pending # {}
    BY DEF FirstIsLast
  <2>1. CASE d = c
    BY <1>1, <2>1 DEF Begins, ChildIInv, FirstIsLast
  <2>2. CASE d # c
    BY <1>7, <2>2 DEF Begins, ChildIInv, FirstIsLast
  <2> QED BY <2>1, <2>2
<1>13. RepliesWereSent'
  <2> SUFFICES ASSUME NEW d \in Children, child'[d].replied PROVE child'[d].gen > 0 /\ HasReplied(d)'
    BY DEF RepliesWereSent
  <2>1. d # c /\ child'[d] = child[d] /\ child[d].gen > 0 /\ HasReplied(d)
    BY DEF Begins, ChildIInv, RepliesWereSent
  <2> QED BY <2>1 DEF Begins, HasReplied, OfRoot
<1>14. SettledIsTold'
  <2> SUFFICES ASSUME NEW d \in Children, Settled(d)', child'[d].gen = 1, wait[d] # "waiting", ~child'[d].rewake
               PROVE  FirstIsTold(d)'
    BY DEF SettledIsTold, Begins
  <2>1. d # c
    BY DEF Begins, Settled
  <2>2. FirstIsTold(d) /\ child'[d] = child[d]
    BY <1>7, <2>1 DEF Begins, ChildIInv, SettledIsTold
  <2>3. OfParent(d) \subseteq OfParent(d)'
    <3>1. ~OfRoot(d) => ParentOf[d] \in Children
      BY ChildAssumption DEF OfRoot
    <3>2. OfParent(d) = IF OfRoot(d) THEN {} ELSE Has(ParentOf[d]) \cup unread
      BY DEF OfParent, Has
    <3>3. OfParent(d)' = IF OfRoot(d) THEN {} ELSE Has(ParentOf[d])' \cup unread'
      BY DEF OfParent, Has, OfRoot
    <3> QED BY <1>7, <3>1, <3>2, <3>3 DEF Begins
  <2>4. Replies(d, "accepted") \subseteq Replies(d, "accepted")' /\ Replies(d, "refused") \subseteq Replies(d, "refused")'
    BY DEF Begins, Replies
  <2> QED BY <2>2, <2>3, <2>4 DEF FirstIsTold, Begins
<1> QED BY <1>3, <1>4, <1>5, <1>6, <1>8, <1>9, <1>10, <1>11, <1>12, <1>13, <1>14 DEF ChildIInv

LEMMA StartKeeps == ASSUME ChildIInv, NEW c \in Children, Start(c) PROVE ChildIInv'
<1>1. child \in [Children -> ChildRecords] /\ child[c].gen = 0 /\ child[c].state = "none"
  BY DEF ChildIInv, ChildTypes, RunIsOfState, Start
<1> DEFINE R == [child[c] EXCEPT !.state = "running", !.gen = 1, !.run = "queued"]
<1>2. R \in ChildRecords
  <2>1. "running" \in States /\ "queued" \in Runs /\ 1 \in Nat
    BY DEF States, Runs
  <2>2. child[c] \in ChildRecords
    BY <1>1
  <2> QED BY <2>1, <2>2 DEF ChildRecords
<1>3. child' = [child EXCEPT ![c] = R] /\ UNCHANGED <<send, wait, told, hidden, unread>>
  BY <1>1 DEF Start
<1>4. child' \in [Children -> ChildRecords]
  BY <1>1, <1>2, <1>3
<1>5. ChildTypes'
  BY <1>3, <1>4 DEF ChildIInv, ChildTypes
<1>6. Begins(c)
  <2>1. /\ child'[c].state = "running" /\ child'[c].run = "queued" /\ child'[c].gen = 1
        /\ child'[c].inTurn = child[c].inTurn /\ child'[c].inbox = child[c].inbox /\ child'[c].owed = child[c].owed
        /\ child'[c].announced = child[c].announced /\ child'[c].rewake = child[c].rewake
        /\ child'[c].replied = child[c].replied /\ child'[c].read = child[c].read
        /\ child'[c].backlog = child[c].backlog /\ child'[c].pending = child[c].pending /\ child'[c].wake = child[c].wake
    BY <1>1, <1>3 DEF ChildRecords
  <2>2. \A d \in Children \ {c} : child'[d] = child[d]
    BY <1>1, <1>3
  <2>3. Has(c)' = Has(c)
    BY <2>1 DEF Has, Held
  <2>4. ~child[c].replied
    BY <1>1 DEF ChildIInv, RepliesWereSent
  <2> QED BY <1>1, <1>3, <2>1, <2>2, <2>3, <2>4 DEF Begins
<1> QED BY <1>5, <1>6, BeginsKeeps

(* What a woken child has: what arrived late and what woke it are what its  *)
(* run opens with.                                                          *)
LEMMA WokenFields ==
    ASSUME ChildIInv, NEW c \in Children, NEW texts \in SUBSET Messages, NEW w, w = Woken(c, texts)
    PROVE  /\ w.state = "running" /\ w.run = "queued" /\ w.gen = child[c].gen + 1
           /\ w.inTurn = child[c].inTurn /\ w.inbox = child[c].inbox /\ w.owed = child[c].owed
           /\ w.announced = child[c].announced /\ w.rewake = child[c].rewake
           /\ w.deleted = child[c].deleted /\ w.read = child[c].read /\ w.backlog = child[c].backlog
           /\ w.pending = {} /\ w.wake = child[c].pending \cup texts /\ ~w.replied
<1>1. child[c] \in ChildRecords
  BY FieldTypes DEF ChildIInv
<1> QED BY <1>1 DEF Woken, ChildRecords

LEMMA SettledHasNoWake == ASSUME ChildIInv, NEW c \in Children, Settled(c) PROVE child[c].wake = {}
BY DEF ChildIInv, WakeIsAhead, RunIsOfState, Settled

LEMMA WakeChildKeeps == ASSUME ChildIInv, NEW m \in Messages, WakeChild(m) PROVE ChildIInv'
<1> DEFINE c == To[m]
<1>1. /\ c \in Children /\ child \in [Children -> ChildRecords]
      /\ send \in [Messages -> {"idle", "route", "wake", "inbox", "accepted", "refused"}]
  BY ChildAssumption DEF ChildIInv, ChildTypes
<1>2. CASE Settled(c) /\ ~child[c].deleted
  <2> DEFINE w == Woken(c, {m})
  <2>1. child' = [child EXCEPT ![c] = w] /\ send' = [send EXCEPT ![m] = "accepted"] /\ UNCHANGED <<wait, told, hidden, unread>>
    BY <1>2 DEF WakeChild
  <2>2. w \in ChildRecords
    BY <1>1, WokenType DEF ChildIInv
  <2>3. child' \in [Children -> ChildRecords]
    BY <1>1, <2>1, <2>2
  <2>4. ChildTypes'
    <3>1. send' \in [Messages -> {"idle", "route", "wake", "inbox", "accepted", "refused"}]
      BY <1>1, <2>1
    <3> QED BY <2>1, <2>3, <3>1 DEF ChildIInv, ChildTypes
  <2>5. /\ w.state = "running" /\ w.run = "queued" /\ w.gen = child[c].gen + 1
        /\ w.inTurn = child[c].inTurn /\ w.inbox = child[c].inbox /\ w.owed = child[c].owed
        /\ w.announced = child[c].announced /\ w.rewake = child[c].rewake
        /\ w.deleted = child[c].deleted /\ w.read = child[c].read /\ w.backlog = child[c].backlog
        /\ w.pending = {} /\ w.wake = child[c].pending \cup {m} /\ ~w.replied
    BY <1>1, WokenFields
  <2> HIDE DEF w
  <2>6. child'[c] = w /\ \A d \in Children \ {c} : child'[d] = child[d]
    BY <1>1, <2>1
  <2>7. Has(c) \subseteq Has(c)' /\ Has(c)' \subseteq Has(c) \cup Messages /\ m \in Has(c)'
    BY <1>1, <1>2, <2>5, <2>6, SettledHasNoWake DEF Has, Held
  <2>8. \A n \in Messages :
          /\ send'[n] = "accepted" => send[n] = "accepted" \/ n = m
          /\ send'[n] \in {"route", "wake", "inbox"} => send'[n] = send[n]
          /\ send[n] \in {"accepted", "refused"} => send'[n] = send[n]
          /\ send[n] # "idle" => send'[n] # "idle"
    BY <1>1, <2>1 DEF WakeChild
  <2>9. Begins(c)
    <3>1. child[c].state # "running"
      BY <1>2 DEF Settled
    <3>2. UNCHANGED <<wait, told, hidden, unread>>
      BY <2>1
    <3>3. \A n \in Messages : send'[n] = "accepted" => send[n] = "accepted" \/ (To[n] = c /\ n \in Has(c)')
      BY <2>7, <2>8
    <3> QED BY <1>1, <2>5, <2>6, <2>7, <2>8, <3>1, <3>2, <3>3 DEF Begins
  <2> QED BY <1>1, <2>4, <2>9, BeginsKeeps
<1>3. CASE ~(Settled(c) /\ ~child[c].deleted)
  <2>1. child' = child /\ UNCHANGED <<wait, told, hidden, unread>> /\ \E s \in {"refused", "route"} : send' = [send EXCEPT ![m] = s]
    BY <1>3 DEF WakeChild
  <2>2. ChildTypes'
    BY <1>1, <2>1 DEF ChildIInv, ChildTypes
  <2>3. \A n \in Messages :
          /\ send'[n] \in {"accepted", "inbox"} => send[n] = send'[n]
          /\ send'[n] \in {"route", "wake", "inbox"} => send[n] \in {"route", "wake", "inbox"}
          /\ send[n] \in {"accepted", "refused"} => send'[n] = send[n]
          /\ send[n] # "idle" => send'[n] # "idle"
    BY <1>1, <2>1 DEF WakeChild
  <2>4. MailStep
    BY <2>1, <2>3 DEF MailStep, Has, Held
  <2>5. StillStep
    BY <2>1, <2>3 DEF StillStep
  <2> QED BY <2>2, <2>4, <2>5, MailStepKeeps, StillStepKeeps DEF ChildIInv
<1> QED BY <1>2, <1>3

LEMMA WakePendingKeeps == ASSUME ChildIInv, NEW c \in Children, WakePending(c) PROVE ChildIInv'
<1>1. child \in [Children -> ChildRecords]
  BY DEF ChildIInv, ChildTypes
<1>2. CASE Settled(c) /\ ~child[c].deleted /\ child[c].pending # {}
  <2> DEFINE w == Woken(c, {})
             v == [w EXCEPT !.rewake = FALSE]
  <2>1. child' = [child EXCEPT ![c] = v] /\ UNCHANGED <<send, wait, told, hidden, unread>>
    BY <1>2 DEF WakePending
  <2>2. w \in ChildRecords
    BY WokenType DEF ChildIInv
  <2>3. /\ w.state = "running" /\ w.run = "queued" /\ w.gen = child[c].gen + 1
        /\ w.inTurn = child[c].inTurn /\ w.inbox = child[c].inbox /\ w.owed = child[c].owed
        /\ w.announced = child[c].announced /\ w.rewake = child[c].rewake
        /\ w.deleted = child[c].deleted /\ w.read = child[c].read /\ w.backlog = child[c].backlog
        /\ w.pending = {} /\ w.wake = child[c].pending /\ ~w.replied
    <3> DEFINE nothing == {}
    <3>1. nothing \in SUBSET Messages /\ child[c].pending \cup nothing = child[c].pending /\ w = Woken(c, nothing)
      OBVIOUS
    <3> HIDE DEF nothing, w
    <3>2. /\ w.state = "running" /\ w.run = "queued" /\ w.gen = child[c].gen + 1
          /\ w.inTurn = child[c].inTurn /\ w.inbox = child[c].inbox /\ w.owed = child[c].owed
          /\ w.announced = child[c].announced /\ w.rewake = child[c].rewake
          /\ w.deleted = child[c].deleted /\ w.read = child[c].read /\ w.backlog = child[c].backlog
          /\ w.pending = {} /\ w.wake = child[c].pending \cup nothing /\ ~w.replied
      BY <3>1, WokenFields
    <3> QED BY <3>1, <3>2
  <2> HIDE DEF w
  <2>4. v \in ChildRecords
    BY <2>2 DEF ChildRecords
  <2>5. /\ v.state = w.state /\ v.run = w.run /\ v.gen = w.gen /\ v.inTurn = w.inTurn /\ v.inbox = w.inbox
        /\ v.owed = w.owed /\ v.announced = w.announced /\ ~v.rewake /\ v.deleted = w.deleted /\ v.read = w.read
        /\ v.backlog = w.backlog /\ v.pending = w.pending /\ v.wake = w.wake /\ (v.replied <=> w.replied)
    BY <2>2 DEF ChildRecords
  <2> HIDE DEF v
  <2>6. child' \in [Children -> ChildRecords] /\ child'[c] = v /\ \A d \in Children \ {c} : child'[d] = child[d]
    BY <1>1, <2>1, <2>4
  <2>7. ChildTypes'
    BY <2>1, <2>6 DEF ChildIInv, ChildTypes
  <2>8. Has(c) \subseteq Has(c)' /\ Has(c)' \subseteq Has(c)
    BY <1>2, <2>3, <2>5, <2>6, SettledHasNoWake DEF Has, Held
  <2>9. Begins(c)
    BY <1>2, <2>1, <2>3, <2>5, <2>6, <2>8 DEF Begins, Settled
  <2> QED BY <2>7, <2>9, BeginsKeeps
<1>3. CASE ~(Settled(c) /\ ~child[c].deleted /\ child[c].pending # {})
  <2>1. child' = [child EXCEPT ![c].rewake = FALSE] /\ child[c].rewake /\ UNCHANGED <<send, wait, told, hidden, unread>>
    BY <1>1, <1>3 DEF WakePending
  <2>2. child' \in [Children -> ChildRecords]
    <3>1. child[c] \in ChildRecords
      BY <1>1
    <3>2. [child[c] EXCEPT !.rewake = FALSE] \in ChildRecords
      BY <3>1 DEF ChildRecords
    <3> QED BY <1>1, <2>1, <3>2
  <2>3. ChildTypes'
    BY <2>1, <2>2 DEF ChildIInv, ChildTypes
  <2>4. /\ \A d \in Children :
          /\ child'[d].state = child[d].state /\ child'[d].gen = child[d].gen /\ child'[d].run = child[d].run
          /\ child'[d].inTurn = child[d].inTurn /\ child'[d].replied = child[d].replied
          /\ child'[d].announced = child[d].announced
          /\ child'[d].owed = child[d].owed /\ child'[d].read = child[d].read /\ child'[d].backlog = child[d].backlog
          /\ child'[d].pending = child[d].pending /\ child'[d].inbox = child[d].inbox
          /\ child'[d].wake = child[d].wake /\ child'[d].deleted = child[d].deleted
          /\ d # c => child'[d].rewake = child[d].rewake
        /\ ~child'[c].rewake
    BY <1>1, <2>1 DEF ChildRecords
  <2>5. child[c].gen # 1 \/ child[c].deleted
    BY <1>3, <2>1 DEF ChildIInv, FirstIsLast, Settled
  <2>6. MailStep
    <3>1. \A d \in Children : Has(d)' = Has(d)
      BY <2>4 DEF Has, Held
    <3>2. \A d \in Children : child'[d].rewake = child[d].rewake \/ (~child'[d].rewake /\ (child[d].gen # 1 \/ child[d].deleted))
      BY <2>4, <2>5
    <3>3. \A d \in Children : Has(d) \subseteq Has(d)' /\ Has(d)' \subseteq Has(d) \cup Messages
      BY <3>1
    <3>4. ASSUME NEW d \in Children
          PROVE  /\ child'[d].state = child[d].state /\ child'[d].gen = child[d].gen
                 /\ child'[d].announced = child[d].announced /\ child'[d].owed = child[d].owed
                 /\ child'[d].replied = child[d].replied /\ child'[d].deleted = child[d].deleted
                 /\ Settled(d) /\ child[d].pending # {} => child'[d].pending # {}
      BY <2>4
    <3> QED BY <2>1, <3>2, <3>3, <3>4 DEF MailStep
  <2>7. StillStep
    BY <2>1, <2>4 DEF StillStep
  <2> QED BY <2>3, <2>6, <2>7, MailStepKeeps, StillStepKeeps DEF ChildIInv
<1> QED BY <1>2, <1>3

-----------------------------------------------------------------------------
(* The settlement: who is told of a first run.                              *)
LEMMA SettleKeeps == ASSUME ChildIInv, NEW c \in Children, Settle(c) PROVE ChildIInv'
<1>1. child \in [Children -> ChildRecords] /\ child[c] \in ChildRecords /\ child[c].run = "reported"
  BY DEF ChildIInv, ChildTypes, Settle
<1>2. child[c].state = "running" /\ ~child[c].inTurn /\ child[c].gen \in Nat \ {0} /\ child[c].inbox = {}
  BY <1>1, FieldTypes DEF ChildIInv, RunIsOfState, InboxIsOfATurn, ChildTypes, ChildRecords
<1> DEFINE f == FinalState(c)
           o == IF Notice(c) /\ ~OfRoot(c) THEN {<<c, child[c].gen>>} ELSE {}
           an == child[c].announced \/ (FinalState(c) = "done" /\ ~Rewake(c))
           R == [child[c] EXCEPT !.state = f, !.run = "none", !.sweep = TRUE, !.rewake = Rewake(c), !.owed = o, !.announced = an]
<1>3. f \in {"done", "failed", "cancelled"} /\ o \in SUBSET Notices /\ an \in BOOLEAN /\ Rewake(c) \in BOOLEAN
  BY <1>1, <1>2 DEF FinalState, Notices, Rewake, ChildRecords
<1>4. /\ child' = [child EXCEPT ![c] = R] /\ UNCHANGED <<send, wait, unread>>
      /\ told' = IF Notice(c) /\ OfRoot(c) THEN told \cup {<<c, child[c].gen, "notice">>} ELSE told
      /\ hidden' = IF wait[c] = "leaving" THEN hidden \cup {<<c, child[c].gen>>} ELSE hidden
  BY <1>1 DEF Settle
<1>5. R \in ChildRecords
  <2>1. f \in States /\ "none" \in Runs
    BY <1>3 DEF States, Runs
  <2> HIDE DEF f, o, an
  <2> QED BY <1>1, <1>3, <2>1 DEF ChildRecords
<1>6. /\ R.state = f /\ R.gen = child[c].gen /\ R.run = "none" /\ R.inTurn = child[c].inTurn
      /\ R.replied = child[c].replied /\ R.announced = an /\ R.rewake = Rewake(c) /\ R.owed = o
      /\ R.deleted = child[c].deleted /\ R.read = child[c].read /\ R.backlog = child[c].backlog
      /\ R.pending = child[c].pending /\ R.inbox = child[c].inbox /\ R.wake = child[c].wake
  <2> HIDE DEF f, o, an
  <2> QED BY <1>1 DEF ChildRecords
<1> HIDE DEF R
<1>7. child' \in [Children -> ChildRecords] /\ child'[c] = R /\ \A d \in Children \ {c} : child'[d] = child[d]
  BY <1>1, <1>4, <1>5
<1>8. ChildTypes'
  <2>1. told' \subseteq Children \X Nat \X Ways
    <3>1. <<c, child[c].gen, "notice">> \in Children \X Nat \X Ways
      BY <1>2 DEF Ways
    <3> QED BY <1>4, <3>1 DEF ChildIInv, ChildTypes
  <2>2. hidden' \subseteq Notices
    BY <1>2, <1>4 DEF ChildIInv, ChildTypes, Notices
  <2> QED BY <1>4, <1>7, <2>1, <2>2 DEF ChildIInv, ChildTypes
<1>9. Settled(c)' /\ ~Settled(c) /\ \A d \in Children \ {c} : Settled(d)' <=> Settled(d)
  BY <1>2, <1>3, <1>6, <1>7 DEF Settled
<1>10. \A d \in Children : Has(d)' = Has(d)
  BY <1>6, <1>7 DEF Has, Held
<1> HIDE DEF f
<1>11. RunIsOfState'
  BY <1>2, <1>3, <1>6, <1>7 DEF ChildIInv, RunIsOfState
<1>12. SentToATurn' /\ SentByATurn'
  <2>1. \A m \in Messages :
          /\ To[m] \in Children /\ (To[m] = c => send[m] # "inbox")
          /\ From[m] = c => send[m] \notin {"route", "wake", "inbox"}
    BY <1>1, ChildAssumption DEF ChildIInv, SentToATurn, SentByATurn
  <2> QED BY <1>4, <1>7, <2>1 DEF ChildIInv, SentToATurn, SentByATurn
<1>13. InboxIsOfATurn'
  BY <1>2, <1>6, <1>7 DEF ChildIInv, InboxIsOfATurn
<1>14. WakeIsAhead'
  BY <1>1, <1>4, <1>6, <1>7 DEF ChildIInv, WakeIsAhead
<1>15. AcceptedIsKept'
  <2>1. \A m \in Messages : To[m] \in Children
    BY ChildAssumption
  <2> QED BY <1>4, <1>10, <2>1 DEF ChildIInv, AcceptedIsKept, Has
<1>16. NoticesAreOfPast'
  <2> SUFFICES ASSUME NEW e \in Children, NEW n \in Nat, Sent(e, n)'
               PROVE  /\ 0 < n /\ n <= child'[e].gen
                      /\ n = child'[e].gen => Settled(e)' /\ wait'[e] # "waiting"
                      /\ <<e, n, "call">> \notin told'
    BY DEF NoticesAreOfPast
  <2>1. child'[e].gen = child[e].gen /\ (Settled(e) => Settled(e)') /\ (<<e, n, "call">> \in told' => <<e, n, "call">> \in told)
    BY <1>4, <1>6, <1>7, <1>9
  <2>2. CASE Sent(e, n)
    BY <1>4, <2>1, <2>2 DEF ChildIInv, NoticesAreOfPast
  <2>3. CASE ~Sent(e, n)
    <3>1. e = c /\ n = child[c].gen /\ Notice(c)
      <4>1. \A a \in Children : <<e, n>> \notin Has(a)' /\ (<<e, n>> \in child'[a].owed => a = c /\ <<e, n>> \in o)
        BY <1>6, <1>7, <1>10, <2>3 DEF Sent
      <4>2. <<e, n>> \in o \/ (<<e, n, "notice">> \in told' /\ <<e, n, "notice">> \notin told)
        BY <1>4, <2>3, <4>1 DEF Sent
      <4> QED BY <1>4, <4>2
    <3>2. wait[c] = "none" /\ <<c, n, "call">> \notin told
      BY <1>2, <1>9, <3>1 DEF Notice, ChildIInv, CallsAreOfPast
    <3> QED BY <1>2, <1>4, <1>9, <2>1, <3>1, <3>2
  <2> QED BY <2>2, <2>3
<1>17. CallsAreOfPast'
  <2> SUFFICES ASSUME NEW d \in Children
               PROVE  /\ \A n \in Nat : <<d, n, "call">> \in told' => n <= child'[d].gen /\ (n = child'[d].gen => Settled(d)')
                      /\ wait[d] = "late" => child'[d].gen > 0 /\ (child'[d].gen = 1 => Settled(d)')
    BY <1>4 DEF CallsAreOfPast
  <2>1. child'[d].gen = child[d].gen /\ (Settled(d) => Settled(d)')
    BY <1>6, <1>7, <1>9
  <2>2. \A n \in Nat : <<d, n, "call">> \in told' => <<d, n, "call">> \in told
    BY <1>4
  <2> QED BY <2>1, <2>2 DEF ChildIInv, CallsAreOfPast
<1>18. OwedIsNested'
  BY <1>6, <1>7 DEF ChildIInv, OwedIsNested, OfRoot
<1>19. child[c].gen = 1 => ~child[c].announced /\ wait[c] # "late"
  BY <1>9 DEF ChildIInv, FirstIsLast, CallsAreOfPast
<1>20. FirstIsLast'
  <2> SUFFICES ASSUME NEW d \in Children
               PROVE  /\ child'[d].announced \/ child'[d].rewake => child'[d].gen > 0 /\ (child'[d].gen = 1 => Settled(d)')
                      /\ child'[d].rewake /\ child'[d].gen = 1 =>
                            /\ child'[d].state = "done" /\ ~child'[d].announced
                            /\ child'[d].deleted \/ child'[d].pending # {}
    BY DEF FirstIsLast
  <2>1. CASE d = c
    <3>1. /\ child'[c].gen = child[c].gen /\ child'[c].rewake = Rewake(c) /\ child'[c].pending = child[c].pending
          /\ child'[c].state = FinalState(c) /\ child'[c].announced = an
      BY <1>6, <1>7 DEF f
    <3>2. child[c].gen > 0
      BY <1>2
    <3>3. Rewake(c) => child[c].pending # {} /\ FinalState(c) = "done"
      BY DEF Rewake
    <3> QED BY <1>9, <1>19, <2>1, <3>1, <3>2, <3>3
  <2>2. CASE d # c
    BY <1>7, <1>9, <2>2 DEF ChildIInv, FirstIsLast
  <2> QED BY <2>1, <2>2
<1>21. RepliesWereSent'
  <2> SUFFICES ASSUME NEW d \in Children, child'[d].replied PROVE child'[d].gen > 0 /\ HasReplied(d)'
    BY DEF RepliesWereSent
  <2>1. child[d].replied /\ child'[d].gen = child[d].gen
    BY <1>6, <1>7
  <2>2. child[d].gen > 0 /\ HasReplied(d)
    BY <2>1 DEF ChildIInv, RepliesWereSent
  <2> QED BY <1>4, <2>1, <2>2 DEF HasReplied, OfRoot
<1>22. \A d \in Children : OfParent(d)' = OfParent(d) /\ Replies(d, "accepted")' = Replies(d, "accepted")
                            /\ Replies(d, "refused")' = Replies(d, "refused")
  <2>1. ASSUME NEW d \in Children PROVE OfParent(d)' = OfParent(d)
    <3>1. ~OfRoot(d) => ParentOf[d] \in Children
      BY ChildAssumption DEF OfRoot
    <3>2. OfParent(d) = IF OfRoot(d) THEN {} ELSE Has(ParentOf[d]) \cup unread
      BY DEF OfParent, Has
    <3>3. OfParent(d)' = IF OfRoot(d) THEN {} ELSE Has(ParentOf[d])' \cup unread'
      BY DEF OfParent, Has, OfRoot
    <3> QED BY <1>4, <1>10, <3>1, <3>2, <3>3
  <2> QED BY <1>4, <2>1 DEF Replies
<1>23. SettledIsTold'
  <2> SUFFICES ASSUME NEW d \in Children, Settled(d)', child'[d].gen = 1, wait[d] # "waiting", ~child'[d].rewake
               PROVE  FirstIsTold(d)'
    BY <1>4 DEF SettledIsTold
  <2>1. CASE d # c
    <3>1. FirstIsTold(d) /\ child'[d] = child[d]
      BY <1>7, <1>9, <2>1 DEF ChildIInv, SettledIsTold
    <3> QED BY <1>4, <1>22, <3>1 DEF FirstIsTold
  <2>2. CASE d = c
    <3>1. child[c].gen = 1 /\ ~Rewake(c) /\ ~child[c].announced /\ wait[c] \in {"none", "leaving"}
      BY <1>6, <1>7, <1>19, <2>2 DEF ChildIInv, ChildTypes
    <3>2. CASE wait[c] = "leaving"
      BY <1>4, <2>2, <3>1, <3>2 DEF FirstIsTold
    <3>3. CASE Notice(c)
      <4>1. CASE OfRoot(c)
        BY <1>4, <2>2, <3>1, <3>3, <4>1 DEF FirstIsTold, Ways
      <4>2. CASE ~OfRoot(c)
        BY <1>6, <1>7, <2>2, <3>1, <3>3, <4>2 DEF FirstIsTold
      <4> QED BY <4>1, <4>2
    <3>4. CASE wait[c] = "none" /\ ~Notice(c)
      <4>1. HasReplied(c)
        BY <3>1, <3>4 DEF Notice, ChildIInv, RepliesWereSent
      <4>2. CASE OfRoot(c)
        BY <1>4, <2>2, <3>1, <4>1, <4>2 DEF HasReplied, FirstIsTold, Ways
      <4>3. CASE ~OfRoot(c)
        <5>1. PICK m \in Messages : From[m] = c /\ To[m] = ParentOf[c] /\ send[m] # "idle"
          BY <4>1, <4>3 DEF HasReplied
        <5>2. send[m] \in {"accepted", "refused"}
          BY <1>1, <5>1 DEF ChildIInv, ChildTypes, SentByATurn
        <5>3. send[m] = "accepted" => m \in OfParent(c)
          BY <4>3, <5>1 DEF ChildIInv, AcceptedIsKept, OfParent
        <5>4. m \in Replies(c, "refused") \/ (m \in Replies(c, "accepted") /\ m \in OfParent(c))
          BY <5>1, <5>2, <5>3 DEF Replies
        <5> QED BY <1>22, <2>2, <5>4 DEF FirstIsTold
      <4> QED BY <4>2, <4>3
    <3> QED BY <3>1, <3>2, <3>3, <3>4
  <2> QED BY <2>1, <2>2
<1> QED BY <1>8, <1>11, <1>12, <1>13, <1>14, <1>15, <1>16, <1>17, <1>18, <1>20, <1>21, <1>23 DEF ChildIInv

-----------------------------------------------------------------------------
(* At first nobody runs and nothing was sent.                               *)
LEMMA InitHolds == ChildInit => ChildIInv
<1> SUFFICES ASSUME ChildInit PROVE ChildIInv
  OBVIOUS
<1>1. NoChild \in ChildRecords
  BY DEF NoChild, ChildRecords, States, Runs, Ends
<1>2. child \in [Children -> ChildRecords] /\ \A c \in Children : child[c] = NoChild
  BY <1>1 DEF ChildInit
<1>3. ChildTypes
  BY <1>2 DEF ChildInit, ChildTypes
<1>4. \A m \in Messages : To[m] \in Children /\ send[m] = "idle"
  BY ChildAssumption DEF ChildInit
<1>5. RunIsOfState /\ SentToATurn /\ SentByATurn /\ InboxIsOfATurn /\ WakeIsAhead /\ AcceptedIsKept
  BY <1>2, <1>4 DEF NoChild, RunIsOfState, SentToATurn, SentByATurn, InboxIsOfATurn, WakeIsAhead, AcceptedIsKept
<1>6. NoticesAreOfPast
  <2>1. \A a \in Children : Has(a) \cup child[a].owed = {}
    BY <1>2 DEF NoChild, Has, Held
  <2> QED BY <2>1 DEF NoticesAreOfPast, Sent, ChildInit
<1>7. CallsAreOfPast /\ OwedIsNested /\ FirstIsLast /\ RepliesWereSent /\ SettledIsTold
  BY <1>2 DEF ChildInit, NoChild, CallsAreOfPast, OwedIsNested, FirstIsLast, RepliesWereSent, SettledIsTold, Settled
<1> QED BY <1>3, <1>5, <1>6, <1>7 DEF ChildIInv

LEMMA RunStepKeeps == ASSUME ChildIInv, NEW c \in Children, RunStep(c) PROVE ChildIInv'
BY TakeSlotKeeps, StoppedInQueueKeeps, OpenFailsKeeps, OpenKeeps, BeginTurnKeeps, ReadInboxKeeps, TurnStopsKeeps, LeaveTurnKeeps,
   CarryKeeps, AfterTurnKeeps, ReadPendingKeeps, ReportKeeps, SettleKeeps, CancelDescendantsKeeps, TellParentKeeps,
   WakePendingKeeps DEF RunStep, RunGoesOn

LEMMA NextKeeps == ASSUME ChildIInv, [ChildNext]_childVars PROVE ChildIInv'
<1>1. CASE UNCHANGED childVars
  <2>1. ChildTypes' /\ OwnStep /\ StillStep
    BY <1>1 DEF childVars, ChildIInv, ChildTypes, OwnStep, StillStep, Has, Held
  <2> QED BY <2>1, OwnStepKeeps, StillStepKeeps DEF ChildIInv
<1>2. ASSUME NEW c \in Children, Start(c) \/ RunStep(c) \/ ReplyToRoot(c) PROVE ChildIInv'
  BY <1>2, StartKeeps, RunStepKeeps, ReplyToRootKeeps
<1>3. ASSUME NEW c \in Children, BeginWait(c) \/ WaitStep(c) \/ WaitCancelled(c) PROVE ChildIInv'
  BY <1>3, WaitsKeep DEF WaitStep
<1>4. ASSUME NEW c \in Children, Stop(c) \/ Delete(c) PROVE ChildIInv'
  BY <1>4, StopKeeps, DeleteKeeps
<1>5. ASSUME NEW m \in Messages, SendMessage(m) \/ DeliverStep(m) PROVE ChildIInv'
  BY <1>5, SendMessageKeeps, RouteMessageKeeps, EnqueueKeeps, WakeChildKeeps DEF DeliverStep
<1> QED BY <1>1, <1>2, <1>3, <1>4, <1>5 DEF ChildNext

-----------------------------------------------------------------------------
(* Every reachable state is as described above.                             *)
THEOREM ChildIsInductive == ChildSpec => []ChildIInv
<1>1. ChildInit => ChildIInv
  BY InitHolds
<1>2. ChildIInv /\ [ChildNext]_childVars => ChildIInv'
  BY NextKeeps
<1> QED BY <1>1, <1>2, PTL DEF ChildSpec

(* A parent is told the result of a child's first run, by a message of the  *)
(* child that was accepted, the settlement's notice or the call that        *)
(* waited, but for the three results ResultIsTold names; and no notice is   *)
(* sent of a result that a caller waits for, or has waited for, since       *)
(* before the settlement (delegation.rs: settle, waiters): for any          *)
(* children, nested to any depth.                                           *)
THEOREM ResultsAreToldOnce == ChildSpec => []ToldOnce
<1>1. ASSUME ChildIInv PROVE ResultIsTold
  BY <1>1 DEF ChildIInv, ResultIsTold, SettledIsTold, FirstIsTold, Settling
<1>2. ASSUME ChildIInv PROVE AnnouncedOnce
  <2>1. ASSUME NEW c \in Children, NEW n \in Nat, Noticed(c, n) PROVE Sent(c, n)
    <3>1. ~OfRoot(c) => ParentOf[c] \in Children
      BY ChildAssumption DEF OfRoot
    <3>2. OfParent(c) = IF OfRoot(c) THEN {} ELSE Has(ParentOf[c]) \cup unread
      BY DEF OfParent, Has
    <3> QED BY <2>1, <3>1, <3>2 DEF Noticed, Sent
  <2>2. ASSUME NEW c \in Children PROVE child[c].gen \in Nat /\ \A n \in 1 .. child[c].gen : n \in Nat
    BY <1>2, FieldTypes DEF ChildIInv
  <2> QED BY <1>2, <2>1, <2>2 DEF ChildIInv, NoticesAreOfPast, AnnouncedOnce
<1>3. ChildIInv => ToldOnce
  BY <1>1, <1>2 DEF ToldOnce
<1> QED BY <1>3, ChildIsInductive, PTL

(* The types are those of the model.                                        *)
LEMMA TypesOK == ASSUME ChildTypes PROVE ChildTypeOK
<1> SUFFICES ASSUME NEW c \in Children
             PROVE  /\ child[c].state \in {"none", "running", "done", "failed", "cancelled"}
                    /\ child[c].gen \in Nat
                    /\ {child[c].token, child[c].deleted, child[c].replied, child[c].announced,
                        child[c].session, child[c].inTurn, child[c].sweep, child[c].rewake} \subseteq BOOLEAN
                    /\ \A f \in {"backlog", "pending", "inbox", "wake", "read", "owed"} : child[c][f] \subseteq Items
                    /\ child[c].run \in {"none", "queued", "opening", "opened", "turn", "stopped", "closing",
                                         "carried", "quiet", "reported"}
                    /\ child[c].end \in {"none", "answer", "failed", "unknown"}
  BY DEF ChildTypes, ChildTypeOK
<1>1. child[c] \in ChildRecords
  BY DEF ChildTypes
<1>2. /\ child[c].state \in States /\ child[c].gen \in Nat /\ child[c].run \in Runs /\ child[c].end \in Ends
      /\ child[c].token \in BOOLEAN /\ child[c].deleted \in BOOLEAN /\ child[c].replied \in BOOLEAN
      /\ child[c].announced \in BOOLEAN /\ child[c].session \in BOOLEAN /\ child[c].inTurn \in BOOLEAN
      /\ child[c].sweep \in BOOLEAN /\ child[c].rewake \in BOOLEAN
  BY <1>1 DEF ChildRecords
<1>3. /\ child[c].backlog \subseteq Items /\ child[c].pending \subseteq Items /\ child[c].inbox \subseteq Items
      /\ child[c].wake \subseteq Items /\ child[c].read \subseteq Items /\ child[c].owed \subseteq Items
  BY FieldTypes DEF Items
<1> QED BY <1>2, <1>3 DEF States, Runs, Ends

(* Only a dispatch counts a run, and only of a child that does not run.     *)
LEMMA OnlyDispatchCounts ==
    ASSUME ChildIInv, [ChildNext]_childVars, NEW c \in Children, child'[c].gen # child[c].gen
    PROVE  child[c].run = "none"
<1>1. child \in [Children -> ChildRecords]
  BY DEF ChildIInv, ChildTypes
<1> SUFFICES child[c].state # "running"
  BY DEF ChildIInv, RunIsOfState
<1>2. CASE UNCHANGED childVars
  BY <1>2 DEF childVars
<1>3. ASSUME NEW d \in Children, Start(d) PROVE child[c].state # "running"
  BY <1>1, <1>3 DEF Start, ChildRecords
<1>4. ASSUME NEW d \in Children, RunStep(d) PROVE child[c].state # "running"
  <2>1. CASE TakeSlot(d) \/ StoppedInQueue(d) \/ OpenFails(d) \/ Open(d) \/ BeginTurn(d) \/ ReadInbox(d)
    BY <1>1, <2>1 DEF TakeSlot, StoppedInQueue, OpenFails, Open, BeginTurn, ReadInbox, ChildRecords
  <2>2. CASE LeaveTurn(d) \/ AfterTurn(d) \/ ReadPending(d) \/ Report(d)
    BY <1>1, <2>2 DEF LeaveTurn, AfterTurn, ReadPending, Report, ChildRecords
  <2>7. CASE TurnStops(d)
    BY <1>1, <2>7 DEF TurnStops, ChildRecords
  <2>8. CASE Carry(d)
    BY <1>1, <2>8 DEF Carry, ChildRecords
  <2>3. CASE Settle(d)
    BY <1>1, <2>3 DEF Settle, ChildRecords
  <2>4. CASE CancelDescendants(d)
    <3> DEFINE ch == [child EXCEPT ![d].sweep = FALSE]
    <3>1. [child[d] EXCEPT !.sweep = FALSE] \in ChildRecords
      <4>1. child[d] \in ChildRecords
        BY <1>1
      <4> QED BY <4>1 DEF ChildRecords
    <3>2. ch \in [Children -> ChildRecords]
      BY <1>1, <3>1
    <3>3. ch[c].gen = child[c].gen
      BY <1>1 DEF ChildRecords
    <3>4. child' = CancelAll(ch, Descendants(d))
      BY <2>4 DEF CancelDescendants
    <3> HIDE DEF ch
    <3> QED BY <3>2, <3>3, <3>4, CancelAllFields
  <2>5. CASE TellParent(d)
    <3>1. child'[c].gen = child[c].gen
      BY <1>1, <2>5 DEF TellParent, ChildRecords
    <3> QED BY <3>1
  <2>6. CASE WakePending(d)
    <3>1. CASE c # d
      BY <1>1, <2>6, <3>1 DEF WakePending
    <3>2. CASE c = d /\ ~Settled(d)
      BY <1>1, <2>6, <3>2 DEF WakePending, ChildRecords
    <3> QED BY <3>1, <3>2 DEF Settled
  <2> QED BY <1>4, <2>1, <2>2, <2>3, <2>4, <2>5, <2>6, <2>7, <2>8 DEF RunStep, RunGoesOn
<1>5. ASSUME NEW d \in Children, ReplyToRoot(d) PROVE child[c].state # "running"
  BY <1>1, <1>5 DEF ReplyToRoot, ChildRecords
<1>6. ASSUME NEW d \in Children, BeginWait(d) \/ WaitStep(d) \/ WaitCancelled(d) PROVE child[c].state # "running"
  BY <1>6 DEF BeginWait, WaitStep, WaitReturns, WaitCancelled, LeaveWait
<1>7. ASSUME NEW d \in Children, Stop(d) PROVE child[c].state # "running"
  BY <1>1, <1>7, CancelAllFields DEF Stop
<1>8. ASSUME NEW d \in Children, Delete(d) PROVE child[c].state # "running"
  <2> DEFINE ch == [child EXCEPT ![d].deleted = TRUE]
  <2>1. [child[d] EXCEPT !.deleted = TRUE] \in ChildRecords
    <3>1. child[d] \in ChildRecords
      BY <1>1
    <3> QED BY <3>1 DEF ChildRecords
  <2>2. ch \in [Children -> ChildRecords]
    BY <1>1, <2>1
  <2>3. ch[c].gen = child[c].gen
    BY <1>1 DEF ChildRecords
  <2>4. child' = CancelAll(ch, {d} \cup Descendants(d))
    BY <1>8 DEF Delete
  <2> HIDE DEF ch
  <2> QED BY <2>2, <2>3, <2>4, CancelAllFields
<1>9. ASSUME NEW m \in Messages, SendMessage(m) PROVE child[c].state # "running"
  BY <1>1, <1>9 DEF SendMessage, ChildRecords
<1>10. ASSUME NEW m \in Messages, RouteMessage(m) \/ Enqueue(m) PROVE child[c].state # "running"
  BY <1>1, <1>10 DEF RouteMessage, Enqueue, ChildRecords
<1>11. ASSUME NEW m \in Messages, WakeChild(m) PROVE child[c].state # "running"
  BY <1>1, <1>11 DEF WakeChild, Settled
<1> QED BY <1>2, <1>3, <1>4, <1>5, <1>6, <1>7, <1>8, <1>9, <1>10, <1>11 DEF ChildNext, DeliverStep

(* A message the sender was told is queued or delivered is read, or is kept *)
(* where the child's next turn or run takes it from, no message is left in  *)
(* the inbox of a turn that is over, and a child is dispatched only when no *)
(* run of it is under way (delegation.rs: deliver_to_child, wake_messages,  *)
(* settle): whoever sends, wakes, stops, deletes or waits meanwhile.        *)
THEOREM ChildrenAreSafe == ChildSpec => ChildSafe
<1>1. ChildIInv => ChildTypeOK /\ AcceptedIsKept /\ InboxIsOfATurn
  BY TypesOK DEF ChildIInv
<1>2. ASSUME ChildIInv, [ChildNext]_childVars, NEW c \in Children, child'[c].gen # child[c].gen
      PROVE  child[c].run = "none"
  BY <1>2, OnlyDispatchCounts
<1>3. ChildIInv /\ [ChildNext]_childVars => [\A c \in Children : child'[c].gen # child[c].gen => child[c].run = "none"]_childVars
  BY <1>2
<1> QED BY <1>1, <1>3, ChildIsInductive, PTL DEF ChildSpec, ChildSafe, OneRunAtATime
=============================================================================
