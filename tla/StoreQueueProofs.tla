-------------------------- MODULE StoreQueueProofs --------------------------
(***************************************************************************)
(* What a store keeps of its questions and of its queue of background      *)
(* passes: proofs about Questions, for any scopes and answers and any      *)
(* clock, and about SleepQueue, for any number of processes, jobs and      *)
(* claims, with passes that hang and files that stay.                      *)
(***************************************************************************)
EXTENDS Questions, SleepQueue, ListProofs

(* How a row may move in one transaction at time t: it is opened, expires,  *)
(* is canceled, or takes an answer before its deadline.                     *)
RowMoves(q, r, t) ==
    \/ r = q
    \/ q.state = "none" /\ r.state = "open"
    \/ q.state = "open" /\ r.state \in {"expired", "canceled"}
    \/ /\ q.state = "open" /\ r.state = "answered" /\ r.answer \in Answers /\ r.at = t
       /\ r.deadline = q.deadline /\ ~PastDeadline(q, t)

Carried == [pc : {"open", "read", "answer", "run"}, scope : Scopes, text : Answers]

(* The transactions move a row so, and keep it well typed.                  *)
LEMMA TransactionsMove ==
    ASSUME NEW q \in Rows, NEW a \in Answers, NEW t \in Nat, NEW d \in Nat \cup {None}, NEW b \in BOOLEAN
    PROVE  /\ OpenQuestion(q, d, b) \in Rows /\ RowMoves(q, OpenQuestion(q, d, b), t)
           /\ AnswerQuestion(q, a, t) \in Rows /\ RowMoves(q, AnswerQuestion(q, a, t), t)
           /\ CancelQuestion(q) \in Rows /\ RowMoves(q, CancelQuestion(q), t)
<1>1. OpenQuestion(q, d, b) \in Rows /\ RowMoves(q, OpenQuestion(q, d, b), t)
  BY DEF OpenQuestion, RowMoves, Rows, NoRow
<1>2. AnswerQuestion(q, a, t) \in Rows /\ RowMoves(q, AnswerQuestion(q, a, t), t)
  <2>1. CASE q.state = "open" /\ PastDeadline(q, t)
    BY <2>1 DEF AnswerQuestion, RowMoves, Rows
  <2>2. CASE q.state = "open" /\ ~PastDeadline(q, t)
    BY <2>2 DEF AnswerQuestion, RowMoves, Rows
  <2>3. CASE q.state # "open"
    BY <2>3 DEF AnswerQuestion, RowMoves
  <2> QED
    BY <2>1, <2>2, <2>3
<1>3. CancelQuestion(q) \in Rows /\ RowMoves(q, CancelQuestion(q), t)
  BY DEF CancelQuestion, RowMoves, Rows
<1> QED
  BY <1>1, <1>2, <1>3

(* Every step moves every row so, and the clock does not go back.           *)
LEMMA RowsMove ==
    ASSUME QuestionTypeOK, [QuestionNext]_questionVars
    PROVE  /\ row' \in [Scopes -> Rows] /\ now' \in Nat /\ now <= now'
           /\ \A s \in Scopes : RowMoves(row[s], row'[s], now)
<1> USE QuestionAssumption DEF QuestionTypeOK
<1>1. CASE UNCHANGED row /\ UNCHANGED now
  BY <1>1 DEF RowMoves
<1>2. CASE Tick
  BY <1>2 DEF Tick, RowMoves
<1>3. ASSUME NEW s \in Scopes, TurnAsks(s)
      PROVE  /\ row' \in [Scopes -> Rows] /\ now' = now
             /\ \A u \in Scopes : RowMoves(row[u], row'[u], now)
  <2>1. PICK a \in Rows : a = OpenQuestion(row[s], None, TRUE)
    BY TransactionsMove DEF OpenQuestion, Rows, NoRow
  <2>2. RowMoves(row[s], a, now)
    BY <2>1 DEF OpenQuestion, RowMoves, NoRow
  <2> QED
    BY <1>3, <2>1, <2>2 DEF TurnAsks, RowMoves
<1>4. ASSUME NEW s \in Scopes, NEW d \in (1..MaxNow) \cup {None}, CommandAsks(s, d)
      PROVE  /\ row' \in [Scopes -> Rows] /\ now' = now
             /\ \A u \in Scopes : RowMoves(row[u], row'[u], now)
  <2>1. OpenQuestion(row[s], d, FALSE) \in Rows /\ RowMoves(row[s], OpenQuestion(row[s], d, FALSE), now)
    BY DEF OpenQuestion, RowMoves, Rows, NoRow
  <2> QED
    BY <1>4, <2>1 DEF CommandAsks, RowMoves
<1>5. ASSUME NEW s \in Scopes, NEW a \in Answers, CommandAnswers(s, a)
      PROVE  /\ row' \in [Scopes -> Rows] /\ now' = now
             /\ \A u \in Scopes : RowMoves(row[u], row'[u], now)
  <2>1. AnswerQuestion(row[s], a, now) \in Rows /\ RowMoves(row[s], AnswerQuestion(row[s], a, now), now)
    BY TransactionsMove
  <2> QED
    BY <1>5, <2>1 DEF CommandAnswers, RowMoves
<1>6. ASSUME NEW s \in Scopes, CommandCancels(s)
      PROVE  /\ row' \in [Scopes -> Rows] /\ now' = now
             /\ \A u \in Scopes : RowMoves(row[u], row'[u], now)
  <2>1. CancelQuestion(row[s]) \in Rows /\ RowMoves(row[s], CancelQuestion(row[s]), now)
    BY DEF CancelQuestion, RowMoves, Rows
  <2> QED
    BY <1>6, <2>1 DEF CommandCancels, RowMoves
<1>7. ASSUME Answer
      PROVE  /\ row' \in [Scopes -> Rows] /\ now' = now
             /\ \A u \in Scopes : RowMoves(row[u], row'[u], now)
  <2>1. work.scope \in Scopes /\ work.text \in Answers
    BY <1>7 DEF Answer, Idle
  <2>2. /\ AnswerQuestion(row[work.scope], work.text, now) \in Rows
        /\ RowMoves(row[work.scope], AnswerQuestion(row[work.scope], work.text, now), now)
    BY <2>1, TransactionsMove
  <2> QED
    BY <1>7, <2>1, <2>2 DEF Answer, RowMoves
<1>8. (\E a \in Answers : UserAnswers(a)) \/ OpenStore \/ ReadQuestion \/ RunTurn \/ Crash \/ UNCHANGED questionVars
      => UNCHANGED row /\ UNCHANGED now
  BY DEF UserAnswers, OpenStore, ReadQuestion, RunTurn, Crash, questionVars
<1> QED
  BY <1>1, <1>2, <1>3, <1>4, <1>5, <1>6, <1>7, <1>8 DEF QuestionNext

(* The rest of the state is well typed after every step.                    *)
LEMMA QuestionTypeStep == QuestionTypeOK /\ [QuestionNext]_questionVars => QuestionTypeOK'
<1> SUFFICES ASSUME QuestionTypeOK, [QuestionNext]_questionVars PROVE QuestionTypeOK'
  OBVIOUS
<1> USE QuestionAssumption
<1>1. row' \in [Scopes -> Rows] /\ now' \in Nat
  BY RowsMove
<1>2. ASSUME NEW s \in Scopes, NEW a \in Answers
      PROVE  Outcome(row[s], a, now) \in {"not_found", "duplicate", "conflict", "expired", "answered"}
  BY DEF Outcome
<1>3. told' \subseteq [scope : Scopes, answer : Answers,
                       outcome : {"not_found", "duplicate", "conflict", "expired", "answered"}]
  <2>1. CASE UNCHANGED told
    BY <2>1 DEF QuestionTypeOK
  <2>2. CASE \E s \in Scopes, a \in Answers : CommandAnswers(s, a)
    BY <2>2, <1>2 DEF QuestionTypeOK, CommandAnswers
  <2> QED
    BY <2>1, <2>2 DEF QuestionNext, TurnAsks, CommandCancels, CommandAsks, UserAnswers, OpenStore, ReadQuestion,
       Answer, RunTurn, Crash, Tick, questionVars
<1>4. /\ lock' \in BOOLEAN /\ paused' \subseteq Scopes /\ panel' \in Scopes \cup {None}
      /\ work' \in Carried \cup {Idle} /\ ran' \subseteq [scope : Scopes, answer : Answers]
  <2>0. work \in Carried \cup {Idle}
    BY DEF QuestionTypeOK, Carried
  <2>1. CASE UNCHANGED <<lock, paused, panel, work, ran>>
    BY <2>0, <2>1 DEF QuestionTypeOK
  <2>2. ASSUME NEW s \in Scopes, TurnAsks(s)
      PROVE  /\ lock' \in BOOLEAN /\ paused' \subseteq Scopes /\ panel' \in Scopes \cup {None}
             /\ work' \in Carried \cup {Idle} /\ ran' \subseteq [scope : Scopes, answer : Answers]
    BY <2>2, <2>0 DEF TurnAsks, QuestionTypeOK
  <2>3. ASSUME NEW a \in Answers, UserAnswers(a)
      PROVE  /\ lock' \in BOOLEAN /\ paused' \subseteq Scopes /\ panel' \in Scopes \cup {None}
             /\ work' \in Carried \cup {Idle} /\ ran' \subseteq [scope : Scopes, answer : Answers]
    BY <2>3 DEF UserAnswers, QuestionTypeOK, Carried
  <2>4. CASE work # Idle /\ UNCHANGED <<paused, panel>> /\ (OpenStore \/ ReadQuestion \/ Answer \/ RunTurn)
    <3>1. /\ work \in Carried /\ work.scope \in Scopes /\ work.text \in Answers
          /\ [work EXCEPT !.pc = "read"] \in Carried /\ [work EXCEPT !.pc = "answer"] \in Carried
          /\ [work EXCEPT !.pc = "run"] \in Carried
      BY <2>0, <2>4 DEF Carried
    <3>2. lock' \in BOOLEAN /\ paused' \subseteq Scopes /\ panel' \in Scopes \cup {None}
      BY <2>4 DEF OpenStore, ReadQuestion, Answer, RunTurn, QuestionTypeOK
    <3>3. work' \in Carried \cup {Idle}
      BY <3>1, <2>4 DEF OpenStore, ReadQuestion, Answer, RunTurn
    <3>4. ran' \subseteq [scope : Scopes, answer : Answers]
      <4>1. [scope |-> work.scope, answer |-> work.text] \in [scope : Scopes, answer : Answers]
        BY <3>1
      <4>2. ran' = ran \/ ran' = ran \cup {[scope |-> work.scope, answer |-> work.text]}
        BY <2>4 DEF OpenStore, ReadQuestion, Answer, RunTurn
      <4> QED
        BY <4>1, <4>2 DEF QuestionTypeOK
    <3> QED
      BY <3>2, <3>3, <3>4
  <2>5. CASE Crash
    BY <2>5 DEF Crash, QuestionTypeOK
  <2>6. OpenStore \/ ReadQuestion \/ Answer \/ RunTurn => work # Idle /\ UNCHANGED <<paused, panel>>
    BY DEF OpenStore, ReadQuestion, Answer, RunTurn, Idle
  <2>7. \/ UNCHANGED <<lock, paused, panel, work, ran>> \/ Crash
        \/ (\E s \in Scopes : TurnAsks(s)) \/ (\E a \in Answers : UserAnswers(a))
        \/ OpenStore \/ ReadQuestion \/ Answer \/ RunTurn
    BY DEF QuestionNext, CommandCancels, CommandAsks, CommandAnswers, Tick, questionVars
  <2> QED
    BY <2>1, <2>2, <2>3, <2>4, <2>5, <2>6, <2>7
<1> QED
  BY <1>1, <1>3, <1>4 DEF QuestionTypeOK, Carried

(* What a row says once it is answered, and what anybody was told of it.    *)
StoredInv == QuestionTypeOK /\ ToldIsStored /\ AnsweredInTime

LEMMA StoredInvInit == QuestionInit => StoredInv
<1> SUFFICES ASSUME QuestionInit PROVE StoredInv
  OBVIOUS
<1>1. NoRow \in Rows
  BY DEF NoRow, Rows
<1>2. row \in [Scopes -> Rows] /\ \A s \in Scopes : row[s].state = "none"
  BY <1>1 DEF QuestionInit, NoRow
<1>3. QuestionTypeOK
  BY <1>2 DEF QuestionInit, QuestionTypeOK
<1>4. ToldIsStored /\ AnsweredInTime
  BY <1>2 DEF QuestionInit, ToldIsStored, AnsweredInTime
<1> QED
  BY <1>3, <1>4 DEF StoredInv

LEMMA StoredInvStep == StoredInv /\ [QuestionNext]_questionVars => StoredInv'
<1> SUFFICES ASSUME StoredInv, [QuestionNext]_questionVars PROVE StoredInv'
  OBVIOUS
<1> USE QuestionAssumption
<1>1. QuestionTypeOK /\ QuestionTypeOK'
  BY QuestionTypeStep DEF StoredInv
<1>2. /\ row \in [Scopes -> Rows] /\ row' \in [Scopes -> Rows] /\ now \in Nat /\ now' \in Nat /\ now <= now'
      /\ \A s \in Scopes : RowMoves(row[s], row'[s], now)
  BY <1>1, RowsMove DEF QuestionTypeOK
<1>3. AnsweredInTime'
  <2> SUFFICES ASSUME NEW s \in Scopes, row'[s].state = "answered"
               PROVE  /\ row'[s].answer \in Answers /\ row'[s].at <= now'
                      /\ row'[s].deadline # None => row'[s].at < row'[s].deadline
    BY DEF AnsweredInTime
  <2>1. CASE row'[s] = row[s]
    <3>1. /\ row[s].answer \in Answers /\ row[s].at <= now
          /\ row[s].deadline # None => row[s].at < row[s].deadline
      BY <2>1 DEF StoredInv, AnsweredInTime
    <3> QED
      BY <2>1, <3>1, <1>2 DEF Rows
  <2>2. CASE row'[s] # row[s]
    <3>1. /\ row'[s].answer \in Answers /\ row'[s].at = now
          /\ row'[s].deadline = row[s].deadline /\ ~PastDeadline(row[s], now)
      BY <2>2, <1>2 DEF RowMoves
    <3>2. row[s].deadline \in Nat \cup {None}
      BY <1>2 DEF Rows
    <3> QED
      BY <3>1, <3>2, <1>2 DEF PastDeadline
  <2> QED
    BY <2>1, <2>2
<1>4. ToldIsStored'
  <2> SUFFICES ASSUME NEW m \in told', m.outcome \in {"answered", "duplicate"}
               PROVE  row'[m.scope].state = "answered" /\ row'[m.scope].answer = m.answer
    BY DEF ToldIsStored
  <2>1. CASE m \in told
    <3>1. m.scope \in Scopes /\ row[m.scope].state = "answered" /\ row[m.scope].answer = m.answer
      BY <2>1, <1>1 DEF StoredInv, ToldIsStored, QuestionTypeOK
    <3> QED
      BY <3>1, <1>2 DEF RowMoves
  <2>2. CASE m \notin told
    <3>1. PICK s \in Scopes, a \in Answers : CommandAnswers(s, a)
      BY <2>2 DEF QuestionNext, TurnAsks, CommandCancels, CommandAsks, UserAnswers, OpenStore, ReadQuestion,
         Answer, RunTurn, Crash, Tick, questionVars
    <3>2. m = [scope |-> s, answer |-> a, outcome |-> Outcome(row[s], a, now)]
      BY <2>2, <3>1 DEF CommandAnswers
    <3>3. row'[s] = AnswerQuestion(row[s], a, now)
      BY <3>1, <1>2 DEF CommandAnswers
    <3>4. Outcome(row[s], a, now) \in {"answered", "duplicate"}
      BY <3>2
    <3>5. \/ row[s].state = "answered" /\ row[s].answer = a
          \/ row[s].state = "open" /\ ~PastDeadline(row[s], now)
      <4>1. row[s].state \in {"none", "open", "answered", "expired", "canceled"}
        BY <1>2 DEF Rows
      <4> QED
        BY <3>4, <4>1 DEF Outcome
    <3>6. AnswerQuestion(row[s], a, now).state = "answered" /\ AnswerQuestion(row[s], a, now).answer = a
      <4>1. row[s] \in Rows
        BY <1>2
      <4>2. CASE row[s].state = "answered" /\ row[s].answer = a
        BY <4>2 DEF AnswerQuestion
      <4>3. CASE row[s].state = "open" /\ ~PastDeadline(row[s], now)
        BY <4>1, <4>3 DEF AnswerQuestion, Rows
      <4> QED
        BY <3>5, <4>2, <4>3
    <3> QED
      BY <3>2, <3>3, <3>6
  <2> QED
    BY <2>1, <2>2
<1> QED
  BY <1>1, <1>3, <1>4 DEF StoredInv

LEMMA StoredInvAlways == QuestionSpec => []StoredInv
  BY StoredInvInit, StoredInvStep, PTL DEF QuestionSpec

(* Whatever the store told the giver of an answer stays true, for any       *)
(* number of questions, answers and terminals, and the state is well typed. *)
THEOREM AnswersAreKept == QuestionSpec => [](QuestionTypeOK /\ ToldIsStored)
  BY StoredInvAlways, PTL DEF StoredInv

(* An answer is stored only if it came before the deadline of its question. *)
THEOREM LateIsRefused == QuestionSpec => []AnsweredInTime
  BY StoredInvAlways, PTL DEF StoredInv

(* The first answer wins: no later transaction of any terminal changes a    *)
(* question that was answered, expired or canceled.                         *)
THEOREM FirstAnswerIsKept == QuestionSpec => FirstAnswerWins
<1>1. QuestionTypeOK /\ QuestionTypeOK' /\ [QuestionNext]_questionVars
      => [\A s \in Scopes : row[s].state \notin {"none", "open"} => row'[s] = row[s]]_questionVars
  BY RowsMove DEF RowMoves
<1>2. QuestionSpec => []QuestionTypeOK
  BY AnswersAreKept, PTL
<1> QED
  BY <1>1, <1>2, PTL DEF QuestionSpec, FirstAnswerWins

(* The session's questions have no deadline and stay open until the turn    *)
(* that carries the answer commits it, or another terminal settles them.    *)
OwnOpen(s) == row[s].own /\ row[s].state = "open" /\ row[s].deadline = None

Kept(s) == OwnOpen(s) \/ SettledElsewhere(s)

CarryInv ==
    /\ \A s \in Scopes : row[s].own /\ s \notin paused => Kept(s)
    /\ panel # None => panel \in paused /\ Kept(panel) /\ work = Idle
    /\ work.pc \in {"open", "read", "answer"} => work.scope \in paused /\ Kept(work.scope)
    /\ work.pc = "run" =>
         /\ work.scope \in paused
         /\ \/ row[work.scope].state = "answered" /\ row[work.scope].answer = work.text
            \/ SettledElsewhere(work.scope)
    /\ TurnRunsOnStored

(* What was settled elsewhere stays so, and an answered row stays as it is. *)
LEMMA SettledStays ==
    ASSUME QuestionTypeOK, [QuestionNext]_questionVars, NEW s \in Scopes
    PROVE  /\ SettledElsewhere(s) => SettledElsewhere(s)'
           /\ row[s].state = "answered" => row'[s] = row[s]
<1>1. RowMoves(row[s], row'[s], now)
  BY RowsMove
<1>2. told \subseteq told'
  BY DEF QuestionNext, TurnAsks, CommandCancels, CommandAsks, CommandAnswers, UserAnswers, OpenStore, ReadQuestion,
     Answer, RunTurn, Crash, Tick, questionVars
<1> QED
  BY <1>1, <1>2 DEF RowMoves, SettledElsewhere

(* A step that runs no turn, carries nothing on and keeps the open          *)
(* questions open, or settles them elsewhere.                               *)
LEMMA CarryStays ==
    ASSUME QuestionTypeOK, CarryInv, [QuestionNext]_questionVars,
           UNCHANGED <<paused, panel, work, ran>>,
           \A s \in Scopes : (row'[s].own => row[s].own) /\ (OwnOpen(s) => Kept(s)')
    PROVE  CarryInv'
<1>1. /\ panel \in Scopes \cup {None} /\ (work.pc \in {"open", "read", "answer", "run"} => work.scope \in Scopes)
      /\ \A m \in ran : m.scope \in Scopes
  BY DEF QuestionTypeOK, Idle
<1>2. \A s \in Scopes : Kept(s) => Kept(s)'
  BY SettledStays DEF Kept
<1>3. \A s \in Scopes : SettledElsewhere(s) => SettledElsewhere(s)'
  BY SettledStays
<1>4. \A s \in Scopes : row[s].state = "answered" => row'[s] = row[s]
  BY SettledStays
<1>5. TurnRunsOnStored'
  BY <1>1, <1>3, <1>4 DEF CarryInv, TurnRunsOnStored
<1>6. \A s \in Scopes : row'[s].own /\ s \notin paused' => Kept(s)'
  BY <1>2 DEF CarryInv
<1>7. panel' # None => panel' \in paused' /\ Kept(panel)' /\ work' = Idle
  BY <1>1, <1>2 DEF CarryInv, Kept, OwnOpen, SettledElsewhere
<1>8. work'.pc \in {"open", "read", "answer"} => work'.scope \in paused' /\ Kept(work.scope)'
  BY <1>1, <1>2 DEF CarryInv, Kept, OwnOpen, SettledElsewhere
<1>9. work'.pc = "run" =>
         /\ work'.scope \in paused'
         /\ \/ row'[work'.scope].state = "answered" /\ row'[work'.scope].answer = work'.text
            \/ SettledElsewhere(work.scope)'
  BY <1>1, <1>3, <1>4 DEF CarryInv, SettledElsewhere
<1> QED
  BY <1>5, <1>6, <1>7, <1>8, <1>9 DEF CarryInv

LEMMA CarryStep ==
    ASSUME QuestionTypeOK, CarryInv, [QuestionNext]_questionVars
    PROVE  CarryInv'
<1> USE QuestionAssumption
<1>0. /\ row \in [Scopes -> Rows] /\ row' \in [Scopes -> Rows]
      /\ \A s \in Scopes : RowMoves(row[s], row'[s], now)
      /\ work \in Carried \cup {Idle} /\ panel \in Scopes \cup {None} /\ \A m \in ran : m.scope \in Scopes
  BY RowsMove DEF QuestionTypeOK, Carried
<1>1. /\ \A s \in Scopes : SettledElsewhere(s) => SettledElsewhere(s)'
      /\ \A s \in Scopes : row[s].state = "answered" => row'[s] = row[s]
  BY SettledStays
<1>2. ASSUME UNCHANGED ran PROVE TurnRunsOnStored'
  BY <1>0, <1>1, <1>2 DEF CarryInv, TurnRunsOnStored
<1>3. ASSUME NEW s \in Scopes, TurnAsks(s) PROVE CarryInv'
  <2>1. /\ \A u \in Scopes \ {s} : row'[u] = row[u]
        /\ s \notin paused /\ work' = Idle /\ UNCHANGED <<ran, told>>
        /\ \/ panel' = s /\ paused' = paused \cup {s}
           \/ panel' = None /\ paused' = paused
    BY <1>0, <1>3 DEF TurnAsks
  <2>2. row'[s] = OpenQuestion(row[s], None, TRUE) /\ (row[s].state = "none" \/ row[s].own)
    BY <1>0, <1>3 DEF TurnAsks
  <2>3. Kept(s)'
    <3>1. CASE row[s].state = "none"
      BY <2>2, <3>1 DEF OpenQuestion, Kept, OwnOpen
    <3>2. CASE row[s].state # "none"
      <4>1. row[s].own /\ row'[s] = row[s]
        BY <2>2, <3>2 DEF OpenQuestion
      <4>2. Kept(s)
        BY <4>1, <2>1 DEF CarryInv
      <4> QED
        BY <4>1, <4>2, <1>1 DEF Kept, OwnOpen
    <3> QED
      BY <3>1, <3>2
  <2>4. work'.pc = "idle"
    BY <2>1 DEF Idle
  <2>5. \A u \in Scopes : row'[u].own /\ u \notin paused' => Kept(u)'
    <3> SUFFICES ASSUME NEW u \in Scopes, u # s, row'[u].own, u \notin paused' PROVE Kept(u)'
      BY <2>3
    <3>1. row'[u] = row[u] /\ Kept(u)
      BY <2>1 DEF CarryInv
    <3> QED
      BY <3>1, <1>1 DEF Kept, OwnOpen
  <2>6. panel' # None => panel' \in paused' /\ Kept(panel)' /\ work' = Idle
    <3>1. CASE panel' = s /\ paused' = paused \cup {s}
      BY <3>1, <2>1, <2>3 DEF Kept, OwnOpen, SettledElsewhere
    <3> QED
      BY <3>1, <2>1
  <2> QED
    BY <1>2, <2>1, <2>4, <2>5, <2>6 DEF CarryInv
<1>4. ASSUME NEW s \in Scopes, NEW d \in (1..MaxNow) \cup {None}, CommandAsks(s, d) PROVE CarryInv'
  <2>1. /\ \A u \in Scopes \ {s} : row'[u] = row[u]
        /\ row'[s] = OpenQuestion(row[s], d, FALSE) /\ UNCHANGED <<paused, panel, work, ran>>
    BY <1>0, <1>4 DEF CommandAsks
  <2>2. /\ row[s].state # "none" => row'[s] = row[s]
        /\ row[s].state = "none" => ~row'[s].own
    BY <2>1 DEF OpenQuestion
  <2>3. \A u \in Scopes : (row'[u].own => row[u].own) /\ (OwnOpen(u) => row'[u] = row[u])
    BY <2>1, <2>2 DEF OwnOpen
  <2>4. \A u \in Scopes : (row'[u].own => row[u].own) /\ (OwnOpen(u) => Kept(u)')
    BY <2>3 DEF Kept, OwnOpen
  <2> QED
    BY <2>1, <2>4, CarryStays
<1>5. ASSUME NEW s \in Scopes, NEW a \in Answers, CommandAnswers(s, a) PROVE CarryInv'
  <2>1. /\ \A u \in Scopes \ {s} : row'[u] = row[u]
        /\ row'[s] = AnswerQuestion(row[s], a, now) /\ UNCHANGED <<paused, panel, work, ran>>
        /\ [scope |-> s, answer |-> a, outcome |-> Outcome(row[s], a, now)] \in told'
    BY <1>0, <1>5 DEF CommandAnswers
  <2>2. row'[s].own => row[s].own
    BY <1>0, <2>1 DEF AnswerQuestion, Rows
  <2>3. OwnOpen(s) => SettledElsewhere(s)'
    <3> SUFFICES ASSUME OwnOpen(s) PROVE SettledElsewhere(s)'
      OBVIOUS
    <3>1. Outcome(row[s], a, now) = "answered"
      BY DEF OwnOpen, Outcome, PastDeadline
    <3> QED
      BY <2>1, <3>1 DEF SettledElsewhere
  <2>4. \A u \in Scopes : (row'[u].own => row[u].own) /\ (OwnOpen(u) => Kept(u)')
    BY <2>1, <2>2, <2>3 DEF Kept, OwnOpen
  <2> QED
    BY <2>1, <2>4, CarryStays
<1>6. ASSUME NEW s \in Scopes, CommandCancels(s) PROVE CarryInv'
  <2>1. /\ \A u \in Scopes \ {s} : row'[u] = row[u]
        /\ row'[s] = CancelQuestion(row[s]) /\ UNCHANGED <<paused, panel, work, ran>>
    BY <1>0, <1>6 DEF CommandCancels
  <2>2. /\ row'[s].own => row[s].own
        /\ OwnOpen(s) => row'[s].state = "canceled"
    BY <1>0, <2>1 DEF CancelQuestion, Rows, OwnOpen
  <2>3. \A u \in Scopes : (row'[u].own => row[u].own) /\ (OwnOpen(u) => Kept(u)')
    BY <2>1, <2>2 DEF Kept, OwnOpen, SettledElsewhere
  <2> QED
    BY <2>1, <2>3, CarryStays
<1>7. CASE UNCHANGED <<row, paused, panel, work, ran>>
  <2>1. \A s \in Scopes : (row'[s].own => row[s].own) /\ (OwnOpen(s) => Kept(s)')
    BY <1>7 DEF Kept, OwnOpen
  <2> QED
    BY <1>7, <2>1, CarryStays
<1>8. ASSUME UNCHANGED <<row, told>> PROVE \A s \in Scopes : Kept(s) <=> Kept(s)'
  BY <1>8 DEF Kept, OwnOpen, SettledElsewhere
<1>9. ASSUME NEW a \in Answers, UserAnswers(a) PROVE CarryInv'
  <2>1. /\ panel \in Scopes /\ panel \in paused /\ Kept(panel) /\ panel' = None
        /\ work'.pc = "open" /\ work'.scope = panel /\ UNCHANGED <<row, told, paused, ran>>
    BY <1>0, <1>9 DEF UserAnswers, CarryInv
  <2>2. Kept(work.scope)'
    BY <2>1 DEF Kept, OwnOpen, SettledElsewhere
  <2>3. \A s \in Scopes : row'[s].own /\ s \notin paused' => Kept(s)'
    BY <1>8, <2>1 DEF CarryInv
  <2> QED
    BY <1>2, <2>1, <2>2, <2>3 DEF CarryInv
<1>10. CASE OpenStore \/ ReadQuestion
  <2>1. work \in Carried /\ work.pc \in {"open", "read"}
    BY <1>0, <1>10 DEF OpenStore, ReadQuestion, Idle
  <2>2. /\ panel = None /\ UNCHANGED <<row, told, paused, panel, ran>>
        /\ work.scope \in Scopes /\ work.scope \in paused /\ Kept(work.scope)
    BY <1>10, <2>1 DEF OpenStore, ReadQuestion, CarryInv, Idle, Carried
  <2>3. work' = Idle \/ work' = [work EXCEPT !.pc = "read"] \/ work' = [work EXCEPT !.pc = "answer"]
    BY <1>10 DEF OpenStore, ReadQuestion
  <2>4. \/ work'.pc = "idle"
        \/ work'.pc \in {"read", "answer"} /\ work'.scope = work.scope
    BY <2>1, <2>3 DEF Carried, Idle
  <2>5. work'.pc \in {"open", "read", "answer"} => work'.scope \in paused' /\ Kept(work.scope)'
    BY <2>2, <2>4 DEF Kept, OwnOpen, SettledElsewhere
  <2>6. \A s \in Scopes : row'[s].own /\ s \notin paused' => Kept(s)'
    BY <1>8, <2>2 DEF CarryInv
  <2> QED
    BY <1>2, <2>2, <2>4, <2>5, <2>6 DEF CarryInv
<1>11. CASE Answer
  <2>1. work \in Carried /\ work.scope \in Scopes /\ work.text \in Answers /\ work.pc = "answer"
    BY <1>0, <1>11 DEF Answer, Idle, Carried
  <2>2. /\ panel = None /\ work.scope \in paused /\ Kept(work.scope) /\ UNCHANGED <<told, paused, panel, ran>>
    BY <1>11 DEF Answer, CarryInv, Idle
  <2>3. \A u \in Scopes : u # work.scope => row'[u] = row[u]
    BY <1>0, <1>11 DEF Answer
  <2>4. \A s \in Scopes : row'[s].own /\ s \notin paused' => Kept(s)'
    <3> SUFFICES ASSUME NEW s \in Scopes, row'[s].own, s \notin paused' PROVE Kept(s)'
      OBVIOUS
    <3>1. row'[s] = row[s] /\ Kept(s)
      BY <2>2, <2>3 DEF CarryInv
    <3> QED
      BY <3>1, <1>1 DEF Kept, OwnOpen
  <2>5. CASE work' = Idle
    BY <1>2, <2>2, <2>4, <2>5 DEF CarryInv, Idle
  <2>6. CASE work' = [work EXCEPT !.pc = "run"] /\ row' = [row EXCEPT ![work.scope] = AnswerQuestion(@, work.text, now)]
    <3>1. work'.pc = "run" /\ work'.scope = work.scope /\ work'.text = work.text
      BY <2>1, <2>6 DEF Carried
    <3>2. row'[work.scope] = AnswerQuestion(row[work.scope], work.text, now)
      BY <1>0, <2>1, <2>6
    <3>3. CASE OwnOpen(work.scope)
      <4>1. row[work.scope] \in Rows /\ row[work.scope].state = "open" /\ ~PastDeadline(row[work.scope], now)
        BY <1>0, <2>1, <3>3 DEF OwnOpen, PastDeadline
      <4>2. row'[work.scope].state = "answered" /\ row'[work.scope].answer = work.text
        BY <3>2, <4>1 DEF AnswerQuestion, Rows
      <4> QED
        BY <1>2, <2>2, <2>4, <3>1, <4>2 DEF CarryInv
    <3>4. CASE SettledElsewhere(work.scope)
      <4>1. SettledElsewhere(work.scope)'
        <5>1. row[work.scope].state = "canceled" => row'[work.scope] = row[work.scope]
          BY <1>0, <2>1 DEF RowMoves
        <5> QED
          BY <2>2, <3>1, <3>4, <5>1 DEF SettledElsewhere
      <4> QED
        BY <1>2, <2>2, <2>4, <3>1, <4>1 DEF CarryInv
    <3> QED
      BY <2>2, <3>3, <3>4 DEF Kept
  <2> QED
    BY <1>11, <2>5, <2>6 DEF Answer
<1>12. CASE RunTurn
  <2>1. /\ work \in Carried /\ work.pc = "run" /\ work.scope \in Scopes
        /\ ran' = ran \cup {[scope |-> work.scope, answer |-> work.text]}
        /\ work' = Idle /\ UNCHANGED <<row, told, paused, panel>> /\ panel = None
    BY <1>0, <1>12 DEF RunTurn, CarryInv, Idle, Carried
  <2>2. \/ row[work.scope].state = "answered" /\ row[work.scope].answer = work.text
        \/ SettledElsewhere(work.scope)
    BY <2>1 DEF CarryInv
  <2>3. TurnRunsOnStored'
    <3> SUFFICES ASSUME NEW m \in ran'
                 PROVE  \/ row'[m.scope].state = "answered" /\ row'[m.scope].answer = m.answer
                        \/ SettledElsewhere(m.scope)'
      BY DEF TurnRunsOnStored
    <3>1. \/ row[m.scope].state = "answered" /\ row[m.scope].answer = m.answer
          \/ SettledElsewhere(m.scope)
      BY <2>1, <2>2 DEF CarryInv, TurnRunsOnStored
    <3> QED
      BY <2>1, <3>1 DEF SettledElsewhere
  <2>4. \A s \in Scopes : row'[s].own /\ s \notin paused' => Kept(s)'
    BY <2>1 DEF CarryInv, Kept, OwnOpen, SettledElsewhere
  <2> QED
    BY <2>1, <2>3, <2>4 DEF CarryInv, Idle
<1>13. CASE Crash
  <2>1. panel' = None /\ work' = Idle /\ UNCHANGED <<row, told, paused, ran>>
    BY <1>13 DEF Crash
  <2>2. \A s \in Scopes : row'[s].own /\ s \notin paused' => Kept(s)'
    BY <1>8, <2>1 DEF CarryInv
  <2> QED
    BY <1>2, <2>1, <2>2 DEF CarryInv, Idle
<1>14. Tick \/ UNCHANGED questionVars => UNCHANGED <<row, paused, panel, work, ran>>
  BY DEF Tick, questionVars
<1> QED
  BY <1>3, <1>4, <1>5, <1>6, <1>7, <1>9, <1>10, <1>11, <1>12, <1>13, <1>14 DEF QuestionNext

(* Every turn that carries an answer runs on the answer the store holds, or *)
(* on a question another terminal has settled, through failed commits,      *)
(* crashes and retried pauses (run_turn over answer_question).              *)
THEOREM TurnsRunOnWhatIsStored == QuestionSpec => []TurnRunsOnStored
<1>1. QuestionInit => CarryInv
  BY DEF QuestionInit, CarryInv, TurnRunsOnStored, Idle, NoRow
<1>2. QuestionTypeOK /\ CarryInv /\ [QuestionNext]_questionVars => CarryInv'
  BY CarryStep
<1>3. QuestionSpec => []QuestionTypeOK
  BY AnswersAreKept, PTL
<1>4. CarryInv => TurnRunsOnStored
  BY DEF CarryInv
<1> QED
  BY <1>1, <1>2, <1>3, <1>4, PTL DEF QuestionSpec

(* The stored answer is the record, whatever the terminals, the clock, the  *)
(* commits and the crashes do: all of what a question promises.             *)
THEOREM QuestionsAreSafe == QuestionSpec => QuestionSafe
<1>1. QuestionSpec => [](QuestionTypeOK /\ ToldIsStored /\ AnsweredInTime /\ TurnRunsOnStored)
  BY AnswersAreKept, LateIsRefused, TurnsRunOnWhatIsStored, PTL
<1> QED
  BY <1>1, FirstAnswerIsKept DEF QuestionSafe

-----------------------------------------------------------------------------
(* The queue of background passes.                                          *)

Pass == [pc : {"idle", "asked", "running", "hung"}, id : Nat, token : Nat, work : SUBSET Works, attempts : Nat,
         over : BOOLEAN, ran : SUBSET Nat]

SleepTypes ==
    /\ DOMAIN jobs \subseteq Nat \ {0} /\ jobs \in [DOMAIN jobs -> Job] /\ pass \in [Procs -> Pass]
    /\ nextId \in Nat \ {0} /\ nextToken \in Nat /\ asked \subseteq Works /\ covered \subseteq Works

(* Files and claims are numbered in the order they are made.                *)
Numbered ==
    /\ nextToken > NoClaim /\ \A j \in DOMAIN jobs : j < nextId /\ jobs[j].token < nextToken
    /\ \A p \in Procs : pass[p].token < nextToken

(* A pass whose claim still holds its job was given all the job covers.     *)
ClaimKnowsWork ==
    \A p \in Procs : Running(p) =>
        /\ pass[p].token # NoClaim
        /\ StillMine(p) => pass[p].work = jobs[pass[p].id].work

SleepInv == SleepTypes /\ Numbered /\ ClaimKnowsWork /\ WorkIsKept

-----------------------------------------------------------------------------
LEMMA InitKeeps == SleepInit => SleepInv
BY SleepAssumption
   DEF SleepInit, SleepInv, SleepTypes, Numbered, ClaimKnowsWork, WorkIsKept, NoPass, NoClaim, Pass, Job, Running

LEMMA StutterKeeps == ASSUME SleepInv, UNCHANGED sleepVars PROVE SleepInv'
BY DEF sleepVars, SleepInv, SleepTypes, Numbered, ClaimKnowsWork, WorkIsKept, Running, StillMine

(* A write puts work into a job that then has no claim.                     *)
LEMMA WriteNewKeeps ==
    ASSUME SleepInv, NEW w \in Works, NEW due, WriteNew(w, due), asked' = asked \cup {w},
           UNCHANGED <<nextToken, covered>>, pass' \in [Procs -> Pass],
           \A p \in Procs : pass'[p].token = pass[p].token /\ pass'[p].id = pass[p].id /\ pass'[p].work = pass[p].work,
           \A p \in Procs : Running(p)' => Running(p)
    PROVE  SleepInv'
<1>1. /\ jobs' = [i \in DOMAIN jobs \cup {nextId} |-> IF i = nextId THEN NewJob(w) ELSE jobs[i]]
      /\ nextId' = nextId + 1
  BY DEF WriteNew, Put
<1>2. NewJob(w) \in Job /\ NewJob(w).token = NoClaim /\ NewJob(w).work = {w}
  BY DEF NewJob, Job, NoClaim
<1>3. SleepTypes'
  BY <1>1, <1>2 DEF SleepInv, SleepTypes
<1>4. Numbered'
  BY <1>1, <1>2 DEF SleepInv, SleepTypes, Numbered, NoClaim, Job, Pass
<1>5. ClaimKnowsWork'
  BY <1>1, <1>2 DEF SleepInv, SleepTypes, Numbered, ClaimKnowsWork, StillMine, Running, NoClaim
<1>6. WorkIsKept'
  <2> SUFFICES ASSUME NEW v \in asked' PROVE v \in covered' \/ \E i \in DOMAIN jobs' : v \in jobs'[i].work
    BY DEF WorkIsKept
  <2>1. CASE v = w
    <3>1. nextId \in DOMAIN jobs' /\ jobs'[nextId].work = {w}
      BY <1>1, <1>2
    <3> QED BY <2>1, <3>1
  <2>2. CASE v \in asked
    <3>1. \A i \in DOMAIN jobs : i # nextId
      BY DEF SleepInv, SleepTypes, Numbered
    <3>2. \A i \in DOMAIN jobs : i \in DOMAIN jobs' /\ jobs'[i] = jobs[i]
      BY <1>1, <3>1
    <3> QED BY <2>2, <3>2 DEF SleepInv, WorkIsKept
  <2> QED BY <2>1, <2>2
<1> QED BY <1>3, <1>4, <1>5, <1>6 DEF SleepInv

LEMMA WriteKeeps ==
    ASSUME SleepInv, NEW w \in Works, NEW due, Write(w, due), asked' = asked \cup {w},
           UNCHANGED <<nextToken, covered>>, pass' \in [Procs -> Pass],
           \A p \in Procs : pass'[p].token = pass[p].token /\ pass'[p].id = pass[p].id /\ pass'[p].work = pass[p].work,
           \A p \in Procs : Running(p)' => Running(p)
    PROVE  SleepInv'
<1>1. CASE WriteNew(w, due) BY <1>1, WriteNewKeeps
<1>2. CASE ~WriteNew(w, due)
  <2>1. PICK j \in DOMAIN jobs : jobs' = Put(j, Absorbed(j, w))
    BY <1>2 DEF Write
  <2>2. /\ DOMAIN jobs' = DOMAIN jobs /\ nextId' = nextId
        /\ jobs' = [i \in DOMAIN jobs |-> IF i = j THEN Absorbed(j, w) ELSE jobs[i]]
    BY <2>1, <1>2 DEF Put, Write
  <2>3. /\ Absorbed(j, w) \in Job /\ Absorbed(j, w).token = NoClaim
        /\ Absorbed(j, w).work = jobs[j].work \cup {w}
    BY DEF Absorbed, Job, NoClaim, SleepInv, SleepTypes
  <2>4. SleepTypes'
    BY <2>2, <2>3 DEF SleepInv, SleepTypes
  <2>5. Numbered'
    BY <2>2, <2>3 DEF SleepInv, SleepTypes, Numbered, NoClaim
  <2>6. ClaimKnowsWork'
    BY <2>2, <2>3 DEF SleepInv, SleepTypes, ClaimKnowsWork, StillMine, Running, NoClaim
  <2>7. WorkIsKept'
    BY <2>2, <2>3 DEF SleepInv, SleepTypes, WorkIsKept
  <2> QED BY <2>4, <2>5, <2>6, <2>7 DEF SleepInv
<1> QED BY <1>1, <1>2

(* A claim gives the pass what the job covers, under a token nobody has.    *)
LEMMA ClaimKeeps == ASSUME SleepInv, NEW p \in Procs, Claim(p) PROVE SleepInv'
<1>1. PICK j \in DOMAIN jobs :
         /\ jobs' = Put(j, [jobs[j] EXCEPT !.token = nextToken, !.stands = TRUE])
         /\ pass' = [pass EXCEPT ![p] = [pc |-> "running", id |-> j, token |-> nextToken, work |-> jobs[j].work,
                                         attempts |-> jobs[j].attempts, over |-> TakeOver(j), ran |-> @.ran]]
  BY DEF Claim
<1> DEFINE job == [jobs[j] EXCEPT !.token = nextToken, !.stands = TRUE]
<1>2. job \in Job /\ job.token = nextToken /\ job.work = jobs[j].work
  BY DEF Job, SleepInv, SleepTypes
<1>3. jobs' = [i \in DOMAIN jobs |-> IF i = j THEN job ELSE jobs[i]]
  BY <1>1 DEF Put
<1>4. nextToken' = nextToken + 1 /\ UNCHANGED <<nextId, asked, covered>>
  BY DEF Claim
<1> HIDE DEF job
<1>5. jobs[j] \in Job /\ j \in Nat
  BY DEF SleepInv, SleepTypes
<1>6. pass'[p] \in Pass /\ pass'[p].token = nextToken /\ pass'[p].id = j /\ pass'[p].work = jobs[j].work
  <2>1. TakeOver(j) \in BOOLEAN
    BY DEF TakeOver
  <2> QED BY <1>1, <1>5, <2>1 DEF SleepInv, SleepTypes, Pass, Job
<1>7. \A q \in Procs : q # p => pass'[q] = pass[q]
  BY <1>1 DEF SleepInv, SleepTypes
<1>8. SleepTypes'
  BY <1>1, <1>2, <1>3, <1>4, <1>6, <1>7 DEF SleepInv, SleepTypes
<1>9. Numbered'
  <2>1. nextToken \in Nat /\ nextToken > 0 /\ nextToken < nextToken + 1
    BY DEF SleepInv, SleepTypes, Numbered, NoClaim
  <2>2. \A i \in DOMAIN jobs : i < nextId /\ jobs[i].token < nextToken /\ jobs[i].token \in Nat
    BY DEF SleepInv, SleepTypes, Numbered, Job
  <2>3. \A q \in Procs : pass[q].token < nextToken /\ pass[q].token \in Nat
    BY DEF SleepInv, SleepTypes, Numbered, Pass
  <2>4. \A i \in DOMAIN jobs' : i < nextId' /\ jobs'[i].token < nextToken'
    BY <1>2, <1>3, <1>4, <2>1, <2>2
  <2>5. \A q \in Procs : pass'[q].token < nextToken'
    BY <1>4, <1>6, <1>7, <2>1, <2>3
  <2> QED BY <1>4, <2>1, <2>4, <2>5 DEF Numbered, NoClaim
<1>10. ClaimKnowsWork'
  BY <1>2, <1>3, <1>4, <1>6, <1>7
     DEF SleepInv, SleepTypes, Numbered, ClaimKnowsWork, StillMine, Running, NoClaim, Job, Pass
<1>11. WorkIsKept'
  BY <1>2, <1>3, <1>4 DEF SleepInv, SleepTypes, WorkIsKept
<1> QED BY <1>8, <1>9, <1>10, <1>11 DEF SleepInv

(* The process is no longer in a pass and the others are as they were.      *)
LEMMA OverIsQuiet ==
    ASSUME SleepInv, NEW p \in Procs, Running(p), pass' = Over(p) \/ pass' = [pass EXCEPT ![p] = NoPass]
    PROVE  /\ pass' \in [Procs -> Pass] /\ pass'[p].token = NoClaim /\ ~Running(p)'
           /\ \A q \in Procs : q # p => pass'[q] = pass[q]
<1>1. /\ pass \in [Procs -> Pass] /\ pass[p] \in Pass /\ NoPass \in Pass /\ NoPass.token = NoClaim /\ NoPass.pc = "idle"
      /\ pass[p].ran \cup {pass[p].id} \in SUBSET Nat
  BY DEF SleepInv, SleepTypes, NoPass, NoClaim, Pass
<1>2. PICK r \in SUBSET Nat : pass' = [pass EXCEPT ![p] = [NoPass EXCEPT !.ran = r]]
  <2>1. CASE pass' = [pass EXCEPT ![p] = NoPass]
    BY <2>1 DEF NoPass
  <2>2. CASE pass' = Over(p) /\ upkeep
    BY <2>2 DEF Over
  <2>3. CASE pass' = Over(p) /\ ~upkeep
    BY <1>1, <2>3 DEF Over
  <2> QED BY <2>1, <2>2, <2>3
<1>3. /\ [NoPass EXCEPT !.ran = r] \in Pass /\ [NoPass EXCEPT !.ran = r].token = NoClaim
      /\ [NoPass EXCEPT !.ran = r].pc = "idle"
  BY <1>1 DEF NoPass, NoClaim, Pass
<1> HIDE DEF NoPass
<1> QED BY <1>1, <1>2, <1>3 DEF Running

(* A pass ends and leaves the queue as it is.                               *)
LEMMA EndKeeps ==
    ASSUME SleepInv, NEW p \in Procs, Running(p), pass' = Over(p) \/ pass' = [pass EXCEPT ![p] = NoPass],
           UNCHANGED <<jobs, nextId, nextToken, asked>>, covered' = covered \/ covered' = covered \cup pass[p].work
    PROVE  SleepInv'
<1>1. pass[p].work \subseteq Works
  BY DEF SleepInv, SleepTypes, Pass
<1>2. SleepTypes' /\ Numbered' /\ WorkIsKept'
  BY OverIsQuiet, <1>1 DEF SleepInv, SleepTypes, Numbered, WorkIsKept, NoClaim
<1>3. ClaimKnowsWork'
  BY OverIsQuiet DEF SleepInv, SleepTypes, ClaimKnowsWork, StillMine, Running
<1> QED BY <1>2, <1>3 DEF SleepInv

LEMMA DoneKeeps == ASSUME SleepInv, NEW p \in Procs, Done(p) PROVE SleepInv'
<1>1. CASE ~StillMine(p)
  BY <1>1, EndKeeps DEF Done
<1>2. CASE StillMine(p)
  <2>1. jobs' = [i \in DOMAIN jobs \ {pass[p].id} |-> jobs[i]] /\ Running(p) /\ pass' = Over(p)
    BY <1>2 DEF Done, Rest
  <2>2. UNCHANGED <<nextId, nextToken, asked>> /\ covered' = covered \cup pass[p].work
    BY DEF Done
  <2>3. pass[p].work \subseteq Works /\ pass[p].work = jobs[pass[p].id].work
    BY <1>2, <2>1 DEF SleepInv, SleepTypes, Pass, ClaimKnowsWork
  <2>4. SleepTypes' /\ Numbered'
    BY <2>1, <2>2, <2>3, OverIsQuiet DEF SleepInv, SleepTypes, Numbered, NoClaim
  <2>5. ClaimKnowsWork'
    BY <2>1, <2>2, OverIsQuiet DEF SleepInv, SleepTypes, ClaimKnowsWork, StillMine, Running
  <2>6. WorkIsKept'
    BY <2>1, <2>2, <2>3 DEF SleepInv, WorkIsKept
  <2> QED BY <2>4, <2>5, <2>6 DEF SleepInv
<1> QED BY <1>1, <1>2

(* What a job of the key takes over from one that failed.                   *)
LEMMA JoinedIsBoth ==
    ASSUME SleepInv, NEW p \in Procs, NEW n \in DOMAIN jobs, Newer(p, n)
    PROVE  /\ Joined(p, n) \in Job /\ Joined(p, n).token = NoClaim
           /\ Joined(p, n).work = jobs[n].work \cup pass[p].work
<1>1. jobs[n] \in Job /\ pass[p] \in Pass
  BY DEF SleepInv, SleepTypes
<1>2. MaxOf(jobs[n].attempts, pass[p].attempts + 1) \in Nat
  BY <1>1 DEF MaxOf, Job, Pass
<1> QED BY <1>1, <1>2 DEF Joined, Job, Pass, Newer

LEMMA FailedKeeps == ASSUME SleepInv, NEW p \in Procs, Failed(p) PROVE SleepInv'
<1>1. /\ Running(p) /\ StillMine(p) /\ pass' = Over(p) /\ UNCHANGED <<nextId, nextToken, asked, covered>>
      /\ jobs[pass[p].id] \in Job /\ pass[p] \in Pass /\ pass[p].work = jobs[pass[p].id].work
  BY DEF Failed, SleepInv, SleepTypes, ClaimKnowsWork, StillMine
<1>2. CASE \E n \in DOMAIN jobs : Newer(p, n) /\ jobs' = Rest(Put(n, Joined(p, n)), pass[p].id)
  <2>1. PICK n \in DOMAIN jobs : Newer(p, n) /\ jobs' = Rest(Put(n, Joined(p, n)), pass[p].id)
    BY <1>2
  <2>2. /\ jobs' = [i \in DOMAIN jobs \ {pass[p].id} |-> IF i = n THEN Joined(p, n) ELSE jobs[i]]
        /\ n # pass[p].id
    BY <2>1 DEF Rest, Put, Newer
  <2>3. SleepTypes'
    BY <1>1, <2>1, <2>2, OverIsQuiet, JoinedIsBoth DEF SleepInv, SleepTypes
  <2>4. Numbered'
    BY <1>1, <2>1, <2>2, OverIsQuiet, JoinedIsBoth DEF SleepInv, SleepTypes, Numbered, NoClaim
  <2>5. ClaimKnowsWork'
    BY <1>1, <2>1, <2>2, OverIsQuiet, JoinedIsBoth DEF SleepInv, SleepTypes, ClaimKnowsWork, StillMine, Running
  <2>6. WorkIsKept'
    BY <1>1, <2>1, <2>2, JoinedIsBoth DEF SleepInv, WorkIsKept
  <2> QED BY <2>3, <2>4, <2>5, <2>6 DEF SleepInv
<1>3. CASE jobs' = Put(pass[p].id, FailedJob(p))
  <2>1. /\ FailedJob(p) \in Job /\ FailedJob(p).token = NoClaim /\ FailedJob(p).work = pass[p].work
    BY <1>1, SleepAssumption DEF FailedJob, GivesUp, Job, Pass, NoClaim
  <2>2. /\ jobs' = [i \in DOMAIN jobs |-> IF i = pass[p].id THEN FailedJob(p) ELSE jobs[i]]
    BY <1>1, <1>3 DEF Put, StillMine
  <2>3. SleepTypes'
    BY <1>1, <2>1, <2>2, OverIsQuiet DEF SleepInv, SleepTypes
  <2>4. Numbered'
    BY <1>1, <2>1, <2>2, OverIsQuiet DEF SleepInv, SleepTypes, Numbered, NoClaim
  <2>5. ClaimKnowsWork'
    BY <1>1, <2>1, <2>2, OverIsQuiet DEF SleepInv, SleepTypes, ClaimKnowsWork, StillMine, Running
  <2>6. WorkIsKept'
    BY <1>1, <2>1, <2>2 DEF SleepInv, WorkIsKept
  <2> QED BY <2>3, <2>4, <2>5, <2>6 DEF SleepInv
<1> QED BY <1>2, <1>3 DEF Failed

LEMMA CrashInFailedKeeps == ASSUME SleepInv, NEW p \in Procs, CrashInFailed(p) PROVE SleepInv'
<1>1. /\ Running(p) /\ pass' = [pass EXCEPT ![p] = NoPass] /\ UNCHANGED <<nextId, nextToken, asked, covered>>
  BY DEF CrashInFailed
<1>2. PICK n \in DOMAIN jobs : Newer(p, n) /\ jobs' = Put(n, Joined(p, n))
  BY DEF CrashInFailed
<1>3. jobs' = [i \in DOMAIN jobs |-> IF i = n THEN Joined(p, n) ELSE jobs[i]]
  BY <1>2 DEF Put
<1>a. /\ pass' \in [Procs -> Pass] /\ pass'[p].token = NoClaim /\ ~Running(p)'
      /\ \A q \in Procs : q # p => pass'[q] = pass[q]
  BY <1>1, OverIsQuiet
<1>b. /\ Joined(p, n) \in Job /\ Joined(p, n).token = NoClaim
      /\ Joined(p, n).work = jobs[n].work \cup pass[p].work
  BY <1>2, JoinedIsBoth
<1>4. SleepTypes'
  BY <1>1, <1>3, <1>a, <1>b DEF SleepInv, SleepTypes
<1>5. Numbered'
  BY <1>1, <1>3, <1>a, <1>b DEF SleepInv, SleepTypes, Numbered, NoClaim
<1>6. ClaimKnowsWork'
  BY <1>1, <1>3, <1>a, <1>b DEF SleepInv, SleepTypes, ClaimKnowsWork, StillMine, Running
<1>7. WorkIsKept'
  BY <1>1, <1>2, <1>3, JoinedIsBoth DEF SleepInv, WorkIsKept
<1> QED BY <1>4, <1>5, <1>6, <1>7 DEF SleepInv

(* The lease of a job passes.                                               *)
LEMMA LapseKeeps == ASSUME SleepInv, NEW j \in DOMAIN jobs, Lapse(j) PROVE SleepInv'
<1> DEFINE job == [jobs[j] EXCEPT !.stands = FALSE]
<1>1. job \in Job /\ job.token = jobs[j].token /\ job.work = jobs[j].work
  BY DEF Job, SleepInv, SleepTypes
<1>2. /\ jobs' = [i \in DOMAIN jobs |-> IF i = j THEN job ELSE jobs[i]]
      /\ UNCHANGED <<pass, nextId, nextToken, asked, covered>>
  BY DEF Lapse, Put
<1> HIDE DEF job
<1>3. SleepTypes' /\ Numbered' /\ WorkIsKept'
  BY <1>1, <1>2 DEF SleepInv, SleepTypes, Numbered, WorkIsKept
<1>4. ClaimKnowsWork'
  BY <1>1, <1>2 DEF SleepInv, ClaimKnowsWork, StillMine, Running
<1> QED BY <1>3, <1>4 DEF SleepInv

LEMMA ForgetKeeps == ASSUME SleepInv, NEW j \in DOMAIN jobs, ForgetGivenUp(j) PROVE SleepInv'
<1>1. /\ jobs' = [i \in DOMAIN jobs \ {j} |-> jobs[i]] /\ covered' = covered \cup jobs[j].work
      /\ UNCHANGED <<pass, nextId, nextToken, asked>> /\ jobs[j].work \subseteq Works
  BY DEF ForgetGivenUp, Rest, SleepInv, SleepTypes, Job
<1>2. SleepTypes' /\ Numbered' /\ WorkIsKept'
  BY <1>1 DEF SleepInv, SleepTypes, Numbered, WorkIsKept
<1>3. ClaimKnowsWork'
  BY <1>1 DEF SleepInv, ClaimKnowsWork, StillMine, Running
<1> QED BY <1>2, <1>3 DEF SleepInv

(* An upkeep pass is asked for: a job is written, or one that runs stands   *)
(* for it.                                                                  *)
LEMMA AskKeeps == ASSUME SleepInv, NEW p \in Procs, NEW w \in Works, AskUpkeep(p, w) PROVE SleepInv'
<1>1. /\ pass' \in [Procs -> Pass]
      /\ \A q \in Procs : pass'[q].token = pass[q].token /\ pass'[q].id = pass[q].id /\ pass'[q].work = pass[q].work
      /\ \A q \in Procs : Running(q)' => Running(q)
  BY DEF AskUpkeep, SleepInv, SleepTypes, Pass, Running
<1>2. UNCHANGED <<nextToken, covered>>
  BY DEF AskUpkeep
<1>3. CASE Write(w, TRUE) /\ asked' = asked \cup {w}
  BY <1>1, <1>2, <1>3, WriteKeeps
<1>4. CASE UNCHANGED <<jobs, dueOrder, nextId, asked>>
  <2>1. SleepTypes' /\ Numbered' /\ WorkIsKept'
    BY <1>1, <1>2, <1>4 DEF SleepInv, SleepTypes, Numbered, WorkIsKept
  <2>2. ClaimKnowsWork'
    BY <1>1, <1>4 DEF SleepInv, ClaimKnowsWork, StillMine
  <2> QED BY <2>1, <2>2 DEF SleepInv
<1> QED BY <1>3, <1>4 DEF AskUpkeep

(* The pass of a process that hangs, or a call that claims nothing.         *)
LEMMA PassKeeps ==
    ASSUME SleepInv, NEW p \in Procs, Hang(p) \/ ClaimsNone(p)
    PROVE  SleepInv'
<1>1. /\ pass' \in [Procs -> Pass] /\ UNCHANGED <<jobs, nextId, nextToken, asked, covered>>
      /\ \A q \in Procs : Running(q)' => /\ Running(q) /\ pass'[q].token = pass[q].token
                                          /\ pass'[q].id = pass[q].id /\ pass'[q].work = pass[q].work
      /\ \A q \in Procs : pass'[q].token \in {pass[q].token, NoClaim}
  <2>1. pass \in [Procs -> Pass] /\ UNCHANGED <<jobs, nextId, nextToken, asked, covered>>
    BY DEF Hang, ClaimsNone, SleepInv, SleepTypes
  <2>2. CASE pass' = [pass EXCEPT ![p].pc = "hung"] /\ pass[p].pc = "running"
    BY <2>1, <2>2 DEF Pass, Running
  <2>3. CASE pass' = [pass EXCEPT ![p] = NoPass]
    BY <2>1, <2>3 DEF Pass, Running, NoPass, NoClaim
  <2> QED BY <2>2, <2>3 DEF Hang, ClaimsNone
<1>2. SleepTypes' /\ Numbered' /\ WorkIsKept'
  BY <1>1 DEF SleepInv, SleepTypes, Numbered, WorkIsKept
<1>3. ClaimKnowsWork'
  BY <1>1 DEF SleepInv, ClaimKnowsWork, StillMine
<1> QED BY <1>2, <1>3 DEF SleepInv

LEMMA NextKeeps == ASSUME SleepInv, SleepNext PROVE SleepInv'
<1>0. pass \in [Procs -> Pass]
  BY DEF SleepInv, SleepTypes
<1>1. ASSUME NEW w \in Works, Enqueue(w) \/ EnqueueAlone(w) PROVE SleepInv'
  <2>1. UNCHANGED <<pass, nextToken, covered>> /\ asked' = asked \cup {w}
    BY <1>1 DEF Enqueue, EnqueueAlone
  <2>2. CASE EnqueueAlone(w)
    BY <1>0, <2>1, <2>2, WriteNewKeeps DEF EnqueueAlone, Running
  <2>3. CASE Enqueue(w)
    BY <1>0, <2>1, <2>3, WriteKeeps DEF Enqueue, Running
  <2> QED BY <1>1, <2>2, <2>3
<1>2. ASSUME NEW p \in Procs, Turn(p) PROVE SleepInv'
  BY <1>2, ClaimKeeps, PassKeeps, AskKeeps DEF Turn
<1>3. ASSUME NEW p \in Procs, Done(p) \/ Failed(p) \/ CrashInFailed(p) \/ Hang(p) PROVE SleepInv'
  BY <1>3, DoneKeeps, FailedKeeps, CrashInFailedKeeps, PassKeeps
<1>4. ASSUME NEW p \in Procs, DoneKept(p) \/ FailedLate(p) \/ LetGo(p) PROVE SleepInv'
  BY <1>4, EndKeeps DEF DoneKept, FailedLate, LetGo
<1>5. ASSUME NEW j \in DOMAIN jobs, Lapse(j) \/ ForgetGivenUp(j) PROVE SleepInv'
  BY <1>5, LapseKeeps, ForgetKeeps
<1>6. ASSUME NEW j \in DOMAIN jobs, BecomesDue(j) PROVE SleepInv'
  BY <1>6 DEF BecomesDue, SleepInv, SleepTypes, Numbered, ClaimKnowsWork, WorkIsKept, Running, StillMine
<1> QED BY <1>1, <1>2, <1>3, <1>4, <1>5, <1>6 DEF SleepNext

(* Work that was written to the queue is in a job on disk until a pass that *)
(* was given it has succeeded (enqueue, claim, done, failed), for any       *)
(* number of processes, hung ones included.                                 *)
THEOREM NothingIsLost == SleepSpec => []WorkIsKept
<1>1. SleepInit => SleepInv BY InitKeeps
<1>2. SleepInv /\ [SleepNext]_sleepVars => SleepInv' BY NextKeeps, StutterKeeps
<1>3. SleepInv => WorkIsKept BY DEF SleepInv
<1> QED BY <1>1, <1>2, <1>3, PTL DEF SleepSpec

-----------------------------------------------------------------------------
(* A pass that took nothing over holds the key's lock and a job that is its *)
(* own, whose claim stands; and no two passes have one claim.               *)
HoldsItsKey(p) ==
    /\ keyLock = p /\ StillMine(p)
    /\ jobs[pass[p].id].stands /\ ~jobs[pass[p].id].gaveUp

RunsAlone(p) == pass[p].pc = "running" /\ ~pass[p].over

ClaimsAreApart == \A p, q \in Procs : Running(p) /\ Running(q) /\ p # q => pass[p].token # pass[q].token

OrderInv == (\A p \in Procs : RunsAlone(p) => HoldsItsKey(p)) /\ ClaimsAreApart /\ GivesUpAtTheLimit

(* No pass begins, and the lock and the job of one that took nothing over   *)
(* are left to it.                                                          *)
LEMMA OrderStays ==
    ASSUME OrderInv, GivesUpAtTheLimit',
           \A q \in Procs : Running(q)' => Running(q) /\ pass'[q].token = pass[q].token,
           \A q \in Procs : RunsAlone(q)' =>
               /\ RunsAlone(q) /\ pass'[q].id = pass[q].id /\ pass'[q].token = pass[q].token
               /\ keyLock' = q /\ pass[q].id \in DOMAIN jobs' /\ jobs'[pass[q].id] = jobs[pass[q].id]
    PROVE  OrderInv'
<1>1. ASSUME NEW p \in Procs, RunsAlone(p)' PROVE HoldsItsKey(p)'
  BY <1>1 DEF OrderInv, HoldsItsKey, StillMine
<1>2. ClaimsAreApart'
  BY DEF OrderInv, ClaimsAreApart
<1> QED BY <1>1, <1>2 DEF OrderInv

(* The passes stay, and so does what one that took nothing over holds.      *)
LEMMA OrderStaysOnDisk ==
    ASSUME OrderInv, GivesUpAtTheLimit', keyLock' = keyLock,
           \A q \in Procs : Running(q)' => Running(q),
           \A q \in Procs : RunsAlone(q)' => RunsAlone(q),
           \A q \in Procs : pass'[q].token = pass[q].token /\ pass'[q].id = pass[q].id,
           \A q \in Procs : RunsAlone(q) => pass[q].id \in DOMAIN jobs' /\ jobs'[pass[q].id] = jobs[pass[q].id]
    PROVE  OrderInv'
<1>1. \A q \in Procs : RunsAlone(q) => keyLock = q
  BY DEF OrderInv, HoldsItsKey
<1> QED BY <1>1, OrderStays

LEMMA LockIsHeld ==
    ASSUME OrderInv, NEW p \in Procs, RunsAlone(p)
    PROVE  /\ pass[p].id \in DOMAIN jobs /\ jobs[pass[p].id].token = pass[p].token /\ ~jobs[pass[p].id].gaveUp
           /\ jobs[pass[p].id].stands /\ keyLock = p /\ keyLock # NoHolder /\ Running(p)
BY SleepAssumption DEF OrderInv, HoldsItsKey, StillMine, RunsAlone, Running

LEMMA WriteKeepsOrder ==
    ASSUME SleepInv, OrderInv, NEW w \in Works, NEW due, Write(w, due) \/ WriteNew(w, due), keyLock' = keyLock,
           \A q \in Procs : Running(q)' => Running(q),
           \A q \in Procs : RunsAlone(q)' => RunsAlone(q),
           \A q \in Procs : pass'[q].token = pass[q].token /\ pass'[q].id = pass[q].id
    PROVE  OrderInv'
<1>1. CASE WriteNew(w, due)
  <2>1. jobs' = [i \in DOMAIN jobs \cup {nextId} |-> IF i = nextId THEN NewJob(w) ELSE jobs[i]] /\ nextId \notin DOMAIN jobs
    BY <1>1 DEF WriteNew, Put, SleepInv, SleepTypes, Numbered
  <2>2. NewJob(w).gaveUp <=> NewJob(w).attempts >= MaxAttempts
    BY SleepAssumption DEF NewJob
  <2>3. GivesUpAtTheLimit'
    BY <2>1, <2>2 DEF OrderInv, GivesUpAtTheLimit
  <2>4. \A q \in Procs : RunsAlone(q) => pass[q].id \in DOMAIN jobs' /\ jobs'[pass[q].id] = jobs[pass[q].id]
    BY <2>1, LockIsHeld
  <2> QED BY <2>3, <2>4, OrderStaysOnDisk
<1>2. CASE ~WriteNew(w, due)
  <2>1. PICK j \in DOMAIN jobs : Waiting(j) /\ jobs' = Put(j, Absorbed(j, w))
    BY <1>2 DEF Write
  <2>2. jobs' = [i \in DOMAIN jobs |-> IF i = j THEN Absorbed(j, w) ELSE jobs[i]]
    BY <2>1 DEF Put
  <2>3. jobs[j] \in Job /\ Absorbed(j, w).gaveUp = jobs[j].gaveUp /\ Absorbed(j, w).attempts = jobs[j].attempts
    BY DEF Absorbed, Job, SleepInv, SleepTypes
  <2>4. GivesUpAtTheLimit'
    BY <2>2, <2>3 DEF OrderInv, GivesUpAtTheLimit
  <2>5. ASSUME NEW q \in Procs, RunsAlone(q) PROVE pass[q].id # j
    <3>1. jobs[pass[q].id].stands /\ jobs[pass[q].id].token # NoClaim /\ keyLock # NoHolder
      BY <2>5, LockIsHeld DEF SleepInv, ClaimKnowsWork
    <3> QED BY <2>1, <3>1 DEF Waiting, ClaimIsFree, LeaseStands
  <2>6. \A q \in Procs : RunsAlone(q) => pass[q].id \in DOMAIN jobs' /\ jobs'[pass[q].id] = jobs[pass[q].id]
    BY <2>2, <2>5, LockIsHeld
  <2> QED BY <2>4, <2>6, OrderStaysOnDisk
<1> QED BY <1>1, <1>2

(* A claim that finds the lock free takes it; one that finds it held takes  *)
(* over a job whose claim has lapsed, which is of no pass that runs alone.  *)
LEMMA ClaimKeepsOrder == ASSUME SleepInv, OrderInv, NEW p \in Procs, Claim(p) PROVE OrderInv'
<1>1. PICK j \in DOMAIN jobs :
         /\ FirstDue(p, j) /\ Claimable(j) /\ jobs' = Put(j, [jobs[j] EXCEPT !.token = nextToken, !.stands = TRUE])
         /\ pass' = [pass EXCEPT ![p] = [pc |-> "running", id |-> j, token |-> nextToken, work |-> jobs[j].work,
                                         attempts |-> jobs[j].attempts, over |-> TakeOver(j), ran |-> @.ran]]
  BY DEF Claim
<1> DEFINE job == [jobs[j] EXCEPT !.token = nextToken, !.stands = TRUE]
<1>2. jobs[j] \in Job /\ job.token = nextToken /\ job.stands /\ job.gaveUp = jobs[j].gaveUp /\ job.attempts = jobs[j].attempts
  BY DEF Job, SleepInv, SleepTypes
<1>3. jobs' = [i \in DOMAIN jobs |-> IF i = j THEN job ELSE jobs[i]]
  BY <1>1 DEF Put
<1> HIDE DEF job
<1>4. /\ ~jobs[j].gaveUp /\ keyLock' = IF keyLock = NoHolder THEN p ELSE keyLock
      /\ pass[p].pc \notin {"running", "hung"}
  BY <1>1 DEF FirstDue, Candidate, Claim, Asking
<1>5. /\ pass'[p].pc = "running" /\ pass'[p].id = j /\ pass'[p].token = nextToken /\ pass'[p].over = TakeOver(j)
      /\ \A q \in Procs : q # p => pass'[q] = pass[q]
  BY <1>1 DEF SleepInv, SleepTypes
<1>6. GivesUpAtTheLimit'
  BY <1>2, <1>3 DEF OrderInv, GivesUpAtTheLimit
<1>7. ClaimsAreApart'
  <2>1. \A q \in Procs : pass[q].token # nextToken
    BY DEF SleepInv, SleepTypes, Numbered, Pass
  <2> QED BY <1>5, <2>1 DEF ClaimsAreApart, OrderInv, Running
<1>8. ASSUME NEW q \in Procs, RunsAlone(q)' PROVE HoldsItsKey(q)'
  <2>1. CASE q = p
    <3>1. keyLock = NoHolder
      BY <1>1, <1>5, <1>8, <2>1 DEF RunsAlone, Claimable
    <3> QED BY <1>2, <1>3, <1>4, <1>5, <2>1, <3>1 DEF HoldsItsKey, StillMine
  <2>2. CASE q # p
    <3>1. RunsAlone(q) /\ pass'[q] = pass[q]
      BY <1>5, <1>8, <2>2 DEF RunsAlone
    <3>2. keyLock = q /\ keyLock # NoHolder /\ jobs[pass[q].id].stands /\ HoldsItsKey(q)
      BY <3>1, LockIsHeld DEF OrderInv
    <3>3. pass[q].id # j
      BY <1>1, <3>2 DEF Claimable, TakeOver
    <3> QED BY <1>3, <1>4, <3>1, <3>2, <3>3 DEF HoldsItsKey, StillMine
  <2> QED BY <2>1, <2>2
<1> QED BY <1>6, <1>7, <1>8 DEF OrderInv

(* A pass ends.  The lock it releases is its own, and the job it writes is  *)
(* one that no other pass has.                                              *)
LEMMA EndKeepsOrder ==
    ASSUME SleepInv, OrderInv, GivesUpAtTheLimit', NEW p \in Procs, Running(p),
           pass' = Over(p) \/ pass' = [pass EXCEPT ![p] = NoPass],
           \/ keyLock' = Released(p)
           \/ keyLock' = NoHolder /\ \A i \in DOMAIN jobs : i = pass[p].id /\ jobs[i].token = pass[p].token,
           \A i \in DOMAIN jobs : \/ i \in DOMAIN jobs' /\ jobs'[i] = jobs[i]
                                  \/ jobs[i].token = pass[p].token
                                  \/ jobs[i].token = NoClaim
    PROVE  OrderInv'
<1>1. ~Running(p)' /\ \A q \in Procs : q # p => pass'[q] = pass[q]
  BY OverIsQuiet
<1>2. ~RunsAlone(p)'
  BY <1>1 DEF RunsAlone, Running
<1>3. ASSUME NEW q \in Procs, q # p, RunsAlone(q)
      PROVE  keyLock' = q /\ pass[q].id \in DOMAIN jobs' /\ jobs'[pass[q].id] = jobs[pass[q].id]
  <2>1. /\ pass[q].id \in DOMAIN jobs /\ jobs[pass[q].id].token = pass[q].token /\ keyLock = q /\ Running(q)
    BY <1>3, LockIsHeld
  <2>2. pass[q].token # pass[p].token /\ pass[q].token # NoClaim
    BY <1>3, <2>1 DEF OrderInv, ClaimsAreApart, SleepInv, ClaimKnowsWork
  <2>3. keyLock' = q
    BY <1>3, <2>1, <2>2 DEF Released
  <2> QED BY <2>1, <2>2, <2>3
<1>4. \A q \in Procs : Running(q)' => Running(q) /\ pass'[q].token = pass[q].token
  BY <1>1 DEF Running
<1>5. \A q \in Procs : RunsAlone(q)' => q # p /\ RunsAlone(q) /\ pass'[q] = pass[q]
  BY <1>1, <1>2 DEF RunsAlone
<1> QED BY <1>3, <1>4, <1>5, OrderStays

LEMMA DoneKeepsOrder == ASSUME SleepInv, OrderInv, NEW p \in Procs, Done(p) PROVE OrderInv'
<1>1. Running(p) /\ pass' = Over(p) /\ keyLock' = IF DOMAIN jobs' = {} THEN NoHolder ELSE Released(p)
  BY DEF Done
<1>2. CASE StillMine(p)
  <2>1. jobs' = [i \in DOMAIN jobs \ {pass[p].id} |-> jobs[i]] /\ jobs[pass[p].id].token = pass[p].token
    BY <1>2 DEF Done, Rest, StillMine
  <2>2. GivesUpAtTheLimit'
    BY <2>1 DEF OrderInv, GivesUpAtTheLimit
  <2>3. \A i \in DOMAIN jobs : (i \in DOMAIN jobs' /\ jobs'[i] = jobs[i]) \/ jobs[i].token = pass[p].token
    BY <2>1
  <2>4. \/ keyLock' = Released(p)
        \/ keyLock' = NoHolder /\ \A i \in DOMAIN jobs : i = pass[p].id /\ jobs[i].token = pass[p].token
    BY <1>1, <2>1
  <2> QED BY <1>1, <2>2, <2>3, <2>4, EndKeepsOrder
<1>3. CASE ~StillMine(p)
  <2>1. jobs' = jobs
    BY <1>3 DEF Done
  <2>2. GivesUpAtTheLimit'
    BY <2>1 DEF OrderInv, GivesUpAtTheLimit
  <2>3. \/ keyLock' = Released(p)
        \/ keyLock' = NoHolder /\ \A i \in DOMAIN jobs : i = pass[p].id /\ jobs[i].token = pass[p].token
    BY <1>1, <2>1
  <2> QED BY <1>1, <2>1, <2>2, <2>3, EndKeepsOrder
<1> QED BY <1>2, <1>3

(* A job that failed gives up at the limit, and one that takes its span     *)
(* over was not given up, nor does it with the attempts of both.            *)
LEMMA JoinedGoesOn ==
    ASSUME SleepInv, OrderInv, NEW p \in Procs, NEW n \in DOMAIN jobs, Newer(p, n), ~GivesUp(p)
    PROVE  ~Joined(p, n).gaveUp /\ ~(Joined(p, n).attempts >= MaxAttempts)
<1>1. jobs[n] \in Job /\ pass[p] \in Pass /\ MaxAttempts \in Nat
  BY SleepAssumption DEF SleepInv, SleepTypes
<1>2. ~jobs[n].gaveUp /\ ~(jobs[n].attempts >= MaxAttempts) /\ ~(pass[p].attempts + 1 >= MaxAttempts)
  BY DEF Newer, GivesUp, OrderInv, GivesUpAtTheLimit
<1>3. /\ Joined(p, n).gaveUp = jobs[n].gaveUp
      /\ Joined(p, n).attempts = MaxOf(jobs[n].attempts, pass[p].attempts + 1)
  BY <1>1 DEF Joined, Job
<1> QED BY <1>2, <1>3 DEF MaxOf

LEMMA FailedKeepsOrder ==
    ASSUME SleepInv, OrderInv, NEW p \in Procs, Failed(p) \/ CrashInFailed(p) PROVE OrderInv'
<1>1. /\ Running(p) /\ StillMine(p) /\ keyLock' = Released(p)
      /\ pass' = Over(p) \/ pass' = [pass EXCEPT ![p] = NoPass]
  BY DEF Failed, CrashInFailed
<1>2. pass[p].id \in DOMAIN jobs /\ jobs[pass[p].id].token = pass[p].token
  BY <1>1 DEF StillMine
<1>3. ASSUME NEW n \in DOMAIN jobs, Newer(p, n), ~GivesUp(p),
             jobs' = Put(n, Joined(p, n)) \/ jobs' = Rest(Put(n, Joined(p, n)), pass[p].id)
      PROVE  OrderInv'
  <2>1. /\ \A i \in DOMAIN jobs : i \notin {n, pass[p].id} => i \in DOMAIN jobs' /\ jobs'[i] = jobs[i]
        /\ \A i \in DOMAIN jobs' : i \in DOMAIN jobs /\ jobs'[i] = IF i = n THEN Joined(p, n) ELSE jobs[i]
        /\ pass[p].id \in DOMAIN jobs' => jobs'[pass[p].id] = jobs[pass[p].id]
    BY <1>2, <1>3 DEF Put, Rest, Newer
  <2>2. GivesUpAtTheLimit'
    BY <1>3, <2>1, JoinedGoesOn DEF OrderInv, GivesUpAtTheLimit
  <2>3. jobs[n].token = NoClaim
    BY <1>3 DEF Newer
  <2> QED BY <1>1, <1>2, <2>1, <2>2, <2>3, EndKeepsOrder
<1>4. CASE jobs' = Put(pass[p].id, FailedJob(p))
  <2>1. jobs' = [i \in DOMAIN jobs |-> IF i = pass[p].id THEN FailedJob(p) ELSE jobs[i]]
    BY <1>2, <1>4 DEF Put
  <2>2. FailedJob(p).gaveUp <=> FailedJob(p).attempts >= MaxAttempts
    BY DEF FailedJob, GivesUp
  <2>3. GivesUpAtTheLimit'
    BY <2>1, <2>2 DEF OrderInv, GivesUpAtTheLimit
  <2>4. \A i \in DOMAIN jobs : (i \in DOMAIN jobs' /\ jobs'[i] = jobs[i]) \/ jobs[i].token = pass[p].token
    BY <1>2, <2>1
  <2> QED BY <1>1, <2>3, <2>4, EndKeepsOrder
<1> QED BY <1>3, <1>4 DEF Failed, CrashInFailed

(* A lease that passes is of no pass that runs, and what is forgotten was   *)
(* given up.                                                                *)
LEMMA TimeKeepsOrder ==
    ASSUME SleepInv, OrderInv, NEW j \in DOMAIN jobs, Lapse(j) \/ ForgetGivenUp(j)
    PROVE  OrderInv'
<1>1. UNCHANGED <<pass, keyLock>>
  BY DEF Lapse, ForgetGivenUp
<1>2. CASE Lapse(j)
  <2> DEFINE job == [jobs[j] EXCEPT !.stands = FALSE]
  <2>1. job.gaveUp = jobs[j].gaveUp /\ job.attempts = jobs[j].attempts
    BY DEF Job, SleepInv, SleepTypes
  <2>2. jobs' = [i \in DOMAIN jobs |-> IF i = j THEN job ELSE jobs[i]]
    BY <1>2 DEF Lapse, Put
  <2> HIDE DEF job
  <2>3. GivesUpAtTheLimit'
    BY <2>1, <2>2 DEF OrderInv, GivesUpAtTheLimit
  <2>4. \A q \in Procs : RunsAlone(q) => pass[q].id \in DOMAIN jobs' /\ jobs'[pass[q].id] = jobs[pass[q].id]
    BY <1>2, <2>2, LockIsHeld DEF Lapse, RunsAlone
  <2> QED BY <1>1, <2>3, <2>4, OrderStaysOnDisk DEF Running, RunsAlone
<1>3. CASE ForgetGivenUp(j)
  <2>1. jobs' = [i \in DOMAIN jobs \ {j} |-> jobs[i]] /\ jobs[j].gaveUp
    BY <1>3 DEF ForgetGivenUp, Rest
  <2>2. GivesUpAtTheLimit'
    BY <2>1 DEF OrderInv, GivesUpAtTheLimit
  <2>3. \A q \in Procs : RunsAlone(q) => pass[q].id \in DOMAIN jobs' /\ jobs'[pass[q].id] = jobs[pass[q].id]
    BY <2>1, LockIsHeld
  <2> QED BY <1>1, <2>2, <2>3, OrderStaysOnDisk DEF Running, RunsAlone
<1> QED BY <1>2, <1>3

(* No pass begins and no job is written.                                    *)
LEMMA QuietKeepsOrder ==
    ASSUME SleepInv, OrderInv, UNCHANGED <<jobs, keyLock>>, NEW p \in Procs,
           \/ pass' = pass
           \/ pass' = [pass EXCEPT ![p] = NoPass]
           \/ pass[p].pc = "running" /\ pass' = [pass EXCEPT ![p].pc = "hung"]
           \/ pass[p].pc = "idle" /\ pass' = [pass EXCEPT ![p].pc = "asked"]
    PROVE  OrderInv'
<1>1. pass \in [Procs -> Pass] /\ NoPass.pc = "idle"
  BY DEF SleepInv, SleepTypes, NoPass
<1> HIDE DEF NoPass
<1>2. GivesUpAtTheLimit'
  BY DEF OrderInv, GivesUpAtTheLimit
<1>3. \A q \in Procs : /\ Running(q)' => Running(q) /\ pass'[q].token = pass[q].token
                       /\ RunsAlone(q)' => RunsAlone(q) /\ pass'[q].id = pass[q].id /\ pass'[q].token = pass[q].token
  BY <1>1 DEF Running, RunsAlone, Pass
<1> QED BY <1>2, <1>3, LockIsHeld, OrderStays

LEMMA NextKeepsOrder == ASSUME SleepInv, OrderInv, [SleepNext]_sleepVars PROVE OrderInv'
<1>1. ASSUME NEW w \in Works, Enqueue(w) \/ EnqueueAlone(w) PROVE OrderInv'
  <2>1. UNCHANGED <<pass, keyLock>> /\ \E due \in BOOLEAN : Write(w, due) \/ WriteNew(w, due)
    BY <1>1 DEF Enqueue, EnqueueAlone
  <2> QED BY <2>1, WriteKeepsOrder DEF Running, RunsAlone
<1>2. ASSUME NEW p \in Procs, NEW w \in Works, AskUpkeep(p, w) PROVE OrderInv'
  <2>1. pass' = [pass EXCEPT ![p].pc = "asked"] /\ pass[p].pc = "idle" /\ keyLock' = keyLock /\ pass \in [Procs -> Pass]
    BY <1>2 DEF AskUpkeep, SleepInv, SleepTypes
  <2>2. CASE Write(w, TRUE)
    <3>1. \A q \in Procs : pass'[q].token = pass[q].token /\ pass'[q].id = pass[q].id
      BY <2>1 DEF Running, RunsAlone, Pass
    <3>2. \A q \in Procs : (Running(q)' => Running(q)) /\ (RunsAlone(q)' => RunsAlone(q))
      BY <2>1 DEF Running, RunsAlone, Pass
    <3> QED BY <2>1, <2>2, <3>1, <3>2, WriteKeepsOrder
  <2>3. CASE UNCHANGED jobs
    BY <2>1, <2>3, QuietKeepsOrder
  <2> QED BY <1>2, <2>2, <2>3 DEF AskUpkeep
<1>3. ASSUME NEW p \in Procs, Claim(p) \/ Done(p) \/ Failed(p) \/ CrashInFailed(p) PROVE OrderInv'
  BY <1>3, ClaimKeepsOrder, DoneKeepsOrder, FailedKeepsOrder
<1>4. ASSUME NEW p \in Procs, DoneKept(p) \/ FailedLate(p) \/ LetGo(p) PROVE OrderInv'
  <2>1. pass' = Over(p) \/ pass' = [pass EXCEPT ![p] = NoPass]
    BY <1>4 DEF DoneKept, FailedLate, LetGo
  <2>2. Running(p) /\ jobs' = jobs /\ keyLock' = Released(p)
    BY <1>4 DEF DoneKept, FailedLate, LetGo
  <2>3. GivesUpAtTheLimit'
    BY <2>2 DEF OrderInv, GivesUpAtTheLimit
  <2> QED BY <2>1, <2>2, <2>3, EndKeepsOrder
<1>5. ASSUME NEW p \in Procs, Hang(p) \/ ClaimsNone(p) PROVE OrderInv'
  BY <1>5, QuietKeepsOrder DEF Hang, ClaimsNone
<1>6. ASSUME NEW j \in DOMAIN jobs, Lapse(j) \/ ForgetGivenUp(j) PROVE OrderInv'
  BY <1>6, TimeKeepsOrder
<1>7. CASE (\E j \in DOMAIN jobs : BecomesDue(j)) \/ UNCHANGED sleepVars
  <2>1. UNCHANGED <<jobs, keyLock, pass>>
    BY <1>7 DEF BecomesDue, sleepVars
  <2> QED BY <2>1 DEF OrderInv, HoldsItsKey, StillMine, RunsAlone, ClaimsAreApart, GivesUpAtTheLimit, Running
<1> QED BY <1>1, <1>2, <1>3, <1>4, <1>5, <1>6, <1>7 DEF SleepNext, Turn

(* The due order lists jobs that are on disk.                               *)
QueueInv == dueOrder \in Seq(DOMAIN jobs) /\ keyLock \in Procs \cup {NoHolder}

LEMMA ListsAreTyped ==
    ASSUME NEW S, NEW s \in Seq(S), NEW T, ToSet(s) \subseteq T
    PROVE  s \in Seq(T)
<1>1. \A i \in DOMAIN s : s[i] \in T
  BY DEF ToSet
<1> QED BY <1>1

LEMMA LaterIsListed ==
    ASSUME NEW S, NEW s \in Seq(S), NEW j
    PROVE  LeavingOut(s, j) \in Seq(S \ {j}) /\ LeavingOut(s, j) \in Seq(S)
<1>1. LeavingOut(s, j) \in Seq(S) /\ ToSet(LeavingOut(s, j)) = ToSet(s) \ {j}
  BY OthersAreKept
<1>2. ToSet(LeavingOut(s, j)) \subseteq S \ {j}
  BY <1>1, ElementsAreTyped
<1> QED BY <1>1, <1>2, ListsAreTyped

(* A write adds a job, or brings one forward that is there.                 *)
LEMMA WriteKeepsQueue ==
    ASSUME QueueInv, NEW w, NEW due, Write(w, due) \/ WriteNew(w, due)
    PROVE  dueOrder' \in Seq(DOMAIN jobs')
<1>1. CASE WriteNew(w, due)
  <2>1. DOMAIN jobs' = DOMAIN jobs \cup {nextId} /\ (dueOrder' = dueOrder \/ dueOrder' = Append(dueOrder, nextId))
    BY <1>1 DEF WriteNew, Put
  <2>2. dueOrder \in Seq(DOMAIN jobs \cup {nextId})
    BY ElementsAreTyped, ListsAreTyped DEF QueueInv
  <2> QED BY <2>1, <2>2
<1>2. CASE Write(w, due) /\ ~WriteNew(w, due)
  <2>1. PICK j \in DOMAIN jobs : jobs' = Put(j, Absorbed(j, w)) /\ dueOrder' = Sooner(j, due)
    BY <1>2 DEF Write
  <2>2. DOMAIN jobs' = DOMAIN jobs /\ (dueOrder' = dueOrder \/ dueOrder' = Append(dueOrder, j))
    BY <2>1 DEF Put, Sooner
  <2> QED BY <2>1, <2>2 DEF QueueInv
<1> QED BY <1>1, <1>2

LEMMA NextKeepsQueue == ASSUME SleepInv, QueueInv, [SleepNext]_sleepVars PROVE QueueInv'
<1>1. ASSUME NEW w \in Works, Enqueue(w) \/ EnqueueAlone(w) PROVE QueueInv'
  <2>1. keyLock' = keyLock /\ \E due \in BOOLEAN : Write(w, due) \/ WriteNew(w, due)
    BY <1>1 DEF Enqueue, EnqueueAlone
  <2> QED BY <2>1, WriteKeepsQueue DEF QueueInv
<1>2. ASSUME NEW p \in Procs, NEW w \in Works, AskUpkeep(p, w) PROVE QueueInv'
  BY <1>2, WriteKeepsQueue DEF AskUpkeep, QueueInv
<1>3. ASSUME NEW p \in Procs, Claim(p) PROVE QueueInv'
  <2>1. DOMAIN jobs' = DOMAIN jobs /\ dueOrder' = dueOrder /\ (keyLock' = p \/ keyLock' = keyLock)
    BY <1>3 DEF Claim, Put
  <2> QED BY <2>1 DEF QueueInv
<1>4. ASSUME NEW p \in Procs, Done(p) PROVE QueueInv'
  <2>1. keyLock' \in Procs \cup {NoHolder}
    BY <1>4 DEF Done, Released, QueueInv
  <2>2. CASE StillMine(p)
    <3>1. DOMAIN jobs' = DOMAIN jobs \ {pass[p].id} /\ dueOrder' = LeavingOut(dueOrder, pass[p].id)
      BY <1>4, <2>2 DEF Done, Rest, Later
    <3> QED BY <2>1, <3>1, LaterIsListed DEF QueueInv
  <2>3. CASE ~StillMine(p)
    <3>1. jobs' = jobs /\ dueOrder' = dueOrder
      BY <1>4, <2>3 DEF Done
    <3> QED BY <2>1, <3>1 DEF QueueInv
  <2> QED BY <2>2, <2>3
<1>5. ASSUME NEW p \in Procs, Failed(p) PROVE QueueInv'
  <2>1. keyLock' \in Procs \cup {NoHolder} /\ pass[p].id \in DOMAIN jobs
    BY <1>5 DEF Failed, Released, QueueInv, StillMine
  <2>2. CASE \E n \in DOMAIN jobs : /\ jobs' = Rest(Put(n, Joined(p, n)), pass[p].id)
                                    /\ dueOrder' = LeavingOut(Later(n), pass[p].id)
    <3>1. PICK n \in DOMAIN jobs : /\ jobs' = Rest(Put(n, Joined(p, n)), pass[p].id)
                                   /\ dueOrder' = LeavingOut(Later(n), pass[p].id)
      BY <2>2
    <3>2. DOMAIN jobs' = DOMAIN jobs \ {pass[p].id}
      BY <3>1 DEF Rest, Put
    <3>3. Later(n) \in Seq(DOMAIN jobs)
      BY LaterIsListed DEF QueueInv, Later
    <3>4. dueOrder' \in Seq(DOMAIN jobs \ {pass[p].id})
      BY <3>1, <3>3, LaterIsListed
    <3> QED BY <2>1, <3>2, <3>4 DEF QueueInv
  <2>3. CASE jobs' = Put(pass[p].id, FailedJob(p)) /\ dueOrder' = Later(pass[p].id)
    <3>1. DOMAIN jobs' = DOMAIN jobs
      BY <2>1, <2>3 DEF Put
    <3>2. dueOrder' \in Seq(DOMAIN jobs)
      BY <2>3, LaterIsListed DEF QueueInv, Later
    <3> QED BY <2>1, <3>1, <3>2 DEF QueueInv
  <2> QED BY <1>5, <2>2, <2>3 DEF Failed
<1>6. ASSUME NEW p \in Procs, CrashInFailed(p) PROVE QueueInv'
  <2>1. keyLock' \in Procs \cup {NoHolder}
    BY <1>6 DEF CrashInFailed, Released, QueueInv
  <2>2. PICK n \in DOMAIN jobs : jobs' = Put(n, Joined(p, n)) /\ dueOrder' = Later(n)
    BY <1>6 DEF CrashInFailed
  <2>3. DOMAIN jobs' = DOMAIN jobs
    BY <2>2 DEF Put
  <2>4. dueOrder' \in Seq(DOMAIN jobs)
    BY <2>2, LaterIsListed DEF QueueInv, Later
  <2> QED BY <2>1, <2>3, <2>4 DEF QueueInv
<1>7. ASSUME NEW p \in Procs, ClaimsNone(p) \/ DoneKept(p) \/ FailedLate(p) \/ LetGo(p) \/ Hang(p) PROVE QueueInv'
  BY <1>7 DEF ClaimsNone, DoneKept, FailedLate, LetGo, Hang, Released, QueueInv
<1>8. ASSUME NEW j \in DOMAIN jobs, Lapse(j) PROVE QueueInv'
  BY <1>8 DEF Lapse, Put, QueueInv
<1>9. ASSUME NEW j \in DOMAIN jobs, BecomesDue(j) PROVE QueueInv'
  BY <1>9 DEF BecomesDue, QueueInv
<1>10. ASSUME NEW j \in DOMAIN jobs, ForgetGivenUp(j) PROVE QueueInv'
  <2>1. DOMAIN jobs' = DOMAIN jobs \ {j} /\ dueOrder' = LeavingOut(dueOrder, j) /\ keyLock' = keyLock
    BY <1>10 DEF ForgetGivenUp, Rest, Later
  <2> QED BY <2>1, LaterIsListed DEF QueueInv
<1>11. CASE UNCHANGED sleepVars
  BY <1>11 DEF sleepVars, QueueInv
<1> QED BY <1>1, <1>2, <1>3, <1>4, <1>5, <1>6, <1>7, <1>8, <1>9, <1>10, <1>11 DEF SleepNext, Turn

LEMMA SleepIsTyped == ASSUME SleepInv, QueueInv PROVE SleepTypeOK
<1>1. DOMAIN jobs \subseteq 1 .. nextId - 1
  BY DEF SleepInv, SleepTypes, Numbered
<1> QED BY <1>1 DEF SleepInv, SleepTypes, QueueInv, SleepTypeOK, Pass

(* Two passes of a key run together only if one of them took its job over   *)
(* from a pass that hung (claim, the lock of the key), and a job gives up   *)
(* at its last attempt (failed), for any number of processes and jobs.      *)
THEOREM PassesRunOneByOne == SleepSpec => [](SleepTypeOK /\ OneRunsAtATime /\ GivesUpAtTheLimit)
<1>1. SleepInit => OrderInv
  BY DEF SleepInit, OrderInv, RunsAlone, ClaimsAreApart, GivesUpAtTheLimit, Running, NoPass
<1>2. OrderInv => OneRunsAtATime /\ GivesUpAtTheLimit
  BY DEF OrderInv, OneRunsAtATime, RunsAlone, HoldsItsKey
<1>3. SleepInit => SleepInv BY InitKeeps
<1>4. SleepInv /\ [SleepNext]_sleepVars => SleepInv' BY NextKeeps, StutterKeeps
<1>5. SleepInv /\ OrderInv /\ [SleepNext]_sleepVars => OrderInv'
  BY NextKeepsOrder
<1>6. SleepInit => QueueInv
  BY DEF SleepInit, QueueInv
<1>7. SleepInv /\ QueueInv /\ [SleepNext]_sleepVars => QueueInv'
  BY NextKeepsQueue
<1>8. SleepInv /\ QueueInv => SleepTypeOK
  BY SleepIsTyped
<1> QED BY <1>1, <1>2, <1>3, <1>4, <1>5, <1>6, <1>7, <1>8, PTL DEF SleepSpec
=============================================================================
