------------------------------- MODULE Questions ----------------------------
(***************************************************************************)
(* Durable questions (harness-runtime control/human_input.rs over          *)
(* harness-store-sqlite store/run.rs): a turn persists its question and    *)
(* ends; the interactive session answers it from its panel, and `ha input` *)
(* asks, answers and lists from another terminal.  Whoever writes holds    *)
(* the store's writer lock; the session holds it from the start of the     *)
(* turn that carries the answer to the end of that turn.                   *)
(***************************************************************************)
EXTENDS Naturals

CONSTANTS
    Scopes,         \* the dedupe scopes: one request of one run
    Answers,        \* what can be answered (their hashes tell them apart)
    Commands,       \* what another terminal does: "ask", "answer", "cancel"
    MaxNow,         \* bound on the clock
    None            \* no deadline, no answer, no question

ASSUME QuestionAssumption ==
    /\ Commands \subseteq {"ask", "answer", "cancel"} /\ MaxNow \in Nat
    /\ None \notin Answers /\ None \notin Scopes /\ None \notin Nat

VARIABLES
    row,            \* the table questions, by scope
    now,            \* the clock
    lock,           \* whether the session holds the writer lock
    paused,         \* the scopes a turn has ended with
    panel,          \* the question on the session's screen
    work,           \* the answer the session is carrying to the store
    told,           \* what `ha input answer` reported, with the answer given
    ran             \* the answers that turns ran on

questionVars == <<row, now, lock, paused, panel, work, told, ran>>

NoRow == [state |-> "none", answer |-> None, at |-> 0, deadline |-> None, own |-> FALSE]
Idle == [pc |-> "idle", scope |-> None, text |-> None]

QuestionInit ==
    /\ row = [s \in Scopes |-> NoRow] /\ now = 0 /\ lock = FALSE
    /\ paused = {} /\ panel = None /\ work = Idle /\ told = {} /\ ran = {}

-----------------------------------------------------------------------------
(* One transaction each.                                                    *)

(* The same scope never opens a second question.                            *)
OpenQuestion(q, deadline, own) ==
    IF q.state = "none" THEN [state |-> "open", answer |-> None, at |-> 0, deadline |-> deadline, own |-> own] ELSE q

PastDeadline(q, t) == q.deadline # None /\ q.deadline <= t

(* A mutant: a second answer is taken for the first one repeated.           *)
OutcomeByState(q, a, t) ==
    CASE q.state = "none" -> "not_found"
      [] q.state = "answered" -> "duplicate"
      [] q.state \in {"expired", "canceled"} -> "expired"
      [] q.state = "open" /\ PastDeadline(q, t) -> "expired"
      [] OTHER -> "answered"

Outcome(q, a, t) ==
    CASE q.state = "none" -> "not_found"
      [] q.state = "answered" -> IF q.answer = a THEN "duplicate" ELSE "conflict"
      [] q.state \in {"expired", "canceled"} -> "expired"
      [] q.state = "open" /\ PastDeadline(q, t) -> "expired"
      [] OTHER -> "answered"

(* answer_question: what the row becomes.                                   *)
AnswerQuestion(q, a, t) ==
    CASE q.state = "open" /\ PastDeadline(q, t) -> [q EXCEPT !.state = "expired"]
      [] q.state = "open" /\ ~PastDeadline(q, t) -> [q EXCEPT !.state = "answered", !.answer = a, !.at = t]
      [] OTHER -> q

CancelQuestion(q) == IF q.state = "open" THEN [q EXCEPT !.state = "canceled"] ELSE q

-----------------------------------------------------------------------------
(* Another terminal: each command opens the writer, which the session must  *)
(* not hold, and closes it again.                                           *)

CommandAsks(s, deadline) ==
    /\ "ask" \in Commands /\ ~lock
    /\ row' = [row EXCEPT ![s] = OpenQuestion(@, deadline, FALSE)]
    /\ UNCHANGED <<now, lock, paused, panel, work, told, ran>>

CommandAnswers(s, a) ==
    /\ "answer" \in Commands /\ ~lock
    /\ row' = [row EXCEPT ![s] = AnswerQuestion(@, a, now)]
    /\ told' = told \cup {[scope |-> s, answer |-> a, outcome |-> Outcome(row[s], a, now)]}
    /\ UNCHANGED <<now, lock, paused, panel, work, ran>>

CommandCancels(s) ==
    /\ "cancel" \in Commands /\ ~lock /\ row[s].state # "none"
    /\ row' = [row EXCEPT ![s] = CancelQuestion(@)]
    /\ UNCHANGED <<now, lock, paused, panel, work, told, ran>>

-----------------------------------------------------------------------------
(* The interactive session.                                                 *)

(* A turn asks and ends with its question on the screen, or is cut off      *)
(* before: then the pause is retried and finds its question.                *)
TurnAsks(s) ==
    /\ ~lock /\ work = Idle /\ panel = None
    /\ s \notin paused /\ (row[s].state = "none" \/ row[s].own)
    /\ row' = [row EXCEPT ![s] = OpenQuestion(@, None, TRUE)]
    /\ \/ panel' = s /\ paused' = paused \cup {s}
       \/ panel' = None /\ paused' = paused
    /\ UNCHANGED <<now, lock, work, told, ran>>

UserAnswers(a) ==
    /\ panel # None /\ panel' = None
    /\ work' = [pc |-> "open", scope |-> panel, text |-> a]
    /\ UNCHANGED <<row, now, lock, paused, told, ran>>

(* The turn that carries the answer takes the writer, or says it cannot.    *)
OpenStore ==
    /\ work.pc = "open"
    /\ \/ lock' = TRUE /\ work' = [work EXCEPT !.pc = "read"]
       \/ work' = Idle /\ lock' = lock
    /\ UNCHANGED <<row, now, paused, panel, told, ran>>

(* The question is read and must be of this task and session.               *)
ReadQuestion ==
    /\ work.pc = "read"
    /\ IF row[work.scope].own THEN work' = [work EXCEPT !.pc = "answer"] /\ lock' = lock
                              ELSE work' = Idle /\ lock' = FALSE
    /\ UNCHANGED <<row, now, paused, panel, told, ran>>

(* The answer is committed, or the transaction fails and the turn with it;  *)
(* what the store says of the answer is not looked at.                      *)
Answer ==
    /\ work.pc = "answer"
    /\ \/ /\ row' = [row EXCEPT ![work.scope] = AnswerQuestion(@, work.text, now)]
          /\ work' = [work EXCEPT !.pc = "run"] /\ lock' = lock
       \/ row' = row /\ work' = Idle /\ lock' = FALSE
    /\ UNCHANGED <<now, paused, panel, told, ran>>

RunTurn ==
    /\ work.pc = "run"
    /\ ran' = ran \cup {[scope |-> work.scope, answer |-> work.text]}
    /\ work' = Idle /\ lock' = FALSE
    /\ UNCHANGED <<row, now, paused, panel, told>>

(* The host stops anywhere; the panel is not of the store.                  *)
Crash ==
    /\ panel' = None /\ work' = Idle /\ lock' = FALSE
    /\ UNCHANGED <<row, now, paused, told, ran>>

Tick == now < MaxNow /\ now' = now + 1 /\ UNCHANGED <<row, lock, paused, panel, work, told, ran>>

QuestionNext ==
    \/ \E s \in Scopes :
         \/ TurnAsks(s) \/ CommandCancels(s)
         \/ \E d \in (1..MaxNow) \cup {None} : CommandAsks(s, d)
         \/ \E a \in Answers : CommandAnswers(s, a)
    \/ \E a \in Answers : UserAnswers(a)
    \/ OpenStore \/ ReadQuestion \/ Answer \/ RunTurn \/ Crash \/ Tick

QuestionSpec == QuestionInit /\ [][QuestionNext]_questionVars

-----------------------------------------------------------------------------
Rows == [state : {"none", "open", "answered", "expired", "canceled"}, answer : Answers \cup {None},
         at : Nat, deadline : Nat \cup {None}, own : BOOLEAN]

QuestionTypeOK ==
    /\ row \in [Scopes -> Rows] /\ now \in Nat /\ lock \in BOOLEAN
    /\ paused \subseteq Scopes /\ panel \in Scopes \cup {None}
    /\ work \in [pc : {"open", "read", "answer", "run"}, scope : Scopes, text : Answers] \cup {Idle}
    /\ told \subseteq [scope : Scopes, answer : Answers,
                       outcome : {"not_found", "duplicate", "conflict", "expired", "answered"}]
    /\ ran \subseteq [scope : Scopes, answer : Answers]

(* Whoever was told its answer is the stored one still finds it stored,     *)
(* whatever was asked, answered and canceled since, and from wherever       *)
(* (answer_question: "The stored answer is the record").                    *)
ToldIsStored ==
    \A m \in told : m.outcome \in {"answered", "duplicate"} =>
        row[m.scope].state = "answered" /\ row[m.scope].answer = m.answer

(* An answer that came at or after the deadline is not stored, and every    *)
(* stored answer has its time ("an expired ... answer is never consent").   *)
AnsweredInTime ==
    \A s \in Scopes : row[s].state = "answered" =>
        row[s].answer \in Answers /\ row[s].at <= now /\ (row[s].deadline # None => row[s].at < row[s].deadline)

(* The first answer wins: a question that was answered, expired or canceled *)
(* keeps its state and its answer for ever.                                 *)
FirstAnswerWins ==
    [][\A s \in Scopes : row[s].state \notin {"none", "open"} => row'[s] = row[s]]_questionVars

(* Another terminal has settled the question.                               *)
SettledElsewhere(s) == row[s].state = "canceled" \/ \E m \in told : m.scope = s /\ m.outcome = "answered"

(* A turn runs on an answer only if the store holds that answer, through    *)
(* failed commits, crashes and retried pauses, unless another terminal has  *)
(* settled the question (human_input.rs: "a different payload is a          *)
(* conflict").                                                              *)
TurnRunsOnStored ==
    \A m \in ran : (row[m.scope].state = "answered" /\ row[m.scope].answer = m.answer) \/ SettledElsewhere(m.scope)

(* The stored answer is the record: the first one, in its time, told and    *)
(* run on as it is stored (answer_question, human_input.rs).                *)
QuestionSafe ==
    /\ [](QuestionTypeOK /\ ToldIsStored /\ AnsweredInTime /\ TurnRunsOnStored)
    /\ FirstAnswerWins
=============================================================================
