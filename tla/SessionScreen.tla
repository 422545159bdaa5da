---------------------------- MODULE SessionScreen ---------------------------
(***************************************************************************)
(* The interactive session as its controller sees it                       *)
(* (harness-cli host/application/controller.rs) beside the service that    *)
(* runs the turns, the approval gate and the children's question host      *)
(* (service.rs).  The service reports through one channel of events, in    *)
(* order; the controller handles an event, a typed line or a key at a time.*)
(*                                                                         *)
(* The phase of the controller is a copy of what the service does.  Panels *)
(* are opened for the requests of the running turn and of background       *)
(* children, which outlive it.                                             *)
(***************************************************************************)
EXTENDS Naturals, Sequences, FiniteSets, SequencesExt, Lists

CONSTANTS
    Children,       \* delegated agents running in the background
    MaxAsks,        \* bound on the requests of one agent
    MaxTyped,       \* bound on the lines the user types
    MaxLookups,     \* bound on the background lookups of the idle session
    Doings          \* what may happen: "question" (of the turn itself), "all" (allow the
                    \* rest of the turn), "interrupt"

Root == "root"

ASSUME ScreenAssumption ==
    /\ Root \notin Children /\ IsFiniteSet(Children)
    /\ MaxAsks \in Nat /\ MaxTyped \in Nat /\ MaxLookups \in Nat /\ Doings \subseteq {"question", "all", "interrupt"}

VARIABLES
    ui,             \* the controller
    turns,          \* turns spawned and not over, each told to stop or not: the first
                    \* holds the writer gate, the others wait for it
    ending,         \* how far the end of the first turn is, what it stopped with, and
                    \* whether a turn ever said it broke before it was over
    inbox,          \* steered into the running turn and not read yet
    child,          \* what each child is doing
    waiting,        \* the requests somebody waits on
    asked,          \* requests made so far, by agent
    lookups,        \* lookups under way, and made so far
    events,         \* the channel to the controller
    sent,           \* what reached a model, and how
    typed           \* lines typed so far

screenVars == <<ui, turns, ending, inbox, child, waiting, asked, lookups, events, sent, typed>>

Running == [at |-> "no", stopped |-> FALSE, early |-> FALSE]

NoRequest == [by |-> "nobody", kind |-> "none", n |-> 0]

ScreenInit ==
    /\ ui = [phase |-> "ready", approval |-> NoRequest, approvals |-> <<>>, question |-> NoRequest,
             questions |-> <<>>, before |-> "none", held |-> FALSE, queue |-> <<>>, notices |-> <<>>, grant |-> FALSE]
    /\ turns = <<>> /\ ending = Running /\ inbox = {} /\ child = [c \in Children |-> "running"]
    /\ waiting = {} /\ asked = [a \in Children \cup {Root} |-> 0] /\ lookups = [open |-> 0, made |-> 0]
    /\ events = <<>> /\ sent = <<>> /\ typed = 0

Event(kind, about) == [kind |-> kind, about |-> about]

Typed(n) == [from |-> "user", id |-> n]
ReportOf(c) == [from |-> "child", id |-> c]

-----------------------------------------------------------------------------
(* The controller's own functions.                                          *)

HasActiveRun(u) == u.phase \in {"running", "approval", "canceling"}

PanelOpen(u) == u.approval # NoRequest \/ u.question # NoRequest

(* A mutant: only a session in which nothing is queued is free.             *)
FreeWhenNothingWaits(u) == ~HasActiveRun(u) /\ ~PanelOpen(u) /\ u.queue = <<>>

FreeForAutomaticTurn(u) == ~HasActiveRun(u) /\ ~PanelOpen(u)

OfferQuestion(u, q) ==
    IF PanelOpen(u)
      THEN [u EXCEPT !.questions = Append(@, q)]
      ELSE [u EXCEPT !.question = q, !.phase = "input", !.before = IF q.by = Root THEN @ ELSE u.phase]

(* A mutant: a request replaces the panel that is open.                     *)
OfferApprovalAnyway(u, r) == [u EXCEPT !.approval = r, !.phase = "approval"]

OfferApproval(u, r) ==
    IF PanelOpen(u) THEN [u EXCEPT !.approvals = Append(@, r)]
                    ELSE [u EXCEPT !.approval = r, !.phase = "approval"]

NextWaiting(u) ==
    CASE PanelOpen(u) -> u
      [] ~PanelOpen(u) /\ u.approvals # <<>> -> OfferApproval([u EXCEPT !.approvals = Tail(@)], Head(u.approvals))
      [] ~PanelOpen(u) /\ u.approvals = <<>> /\ u.questions # <<>> ->
            OfferQuestion([u EXCEPT !.questions = Tail(@)], Head(u.questions))
      [] OTHER -> u

FinishRun(u) ==
    [u EXCEPT !.approval = NoRequest, !.approvals = <<>>,
              !.phase = IF u.question # NoRequest THEN "input" ELSE "ready"]

-----------------------------------------------------------------------------
(* The service.                                                             *)

Said(texts, as) == [i \in 1..Len(texts) |-> [text |-> texts[i], as |-> as]]

(* submit: a turn is spawned, and waits for the one that runs.              *)
Submit(texts, as) ==
    /\ turns' = Append(turns, FALSE)
    /\ sent' = sent \o Said(texts, as)

(* The loop of the first turn runs.                                         *)
TurnWorks == turns # <<>> /\ ending.at = "no" /\ \A q \in waiting : q.by # Root

(* The turn or a child asks; a turn with a grant does not.                  *)
AsksApproval(a) ==
    LET r == [by |-> a, kind |-> "approval", n |-> asked[a] + 1] IN
    /\ IF a = Root THEN TurnWorks /\ ~Head(turns) ELSE child[a] = "running"
    /\ asked[a] < MaxAsks /\ \A q \in waiting : q.by # a
    /\ ~ui.grant
    /\ waiting' = waiting \cup {r} /\ asked' = [asked EXCEPT ![a] = @ + 1]
    /\ events' = Append(events, Event("approval", r))
    /\ UNCHANGED <<ui, turns, ending, inbox, child, lookups, sent, typed>>

ChildAsks(c) ==
    LET r == [by |-> c, kind |-> "question", n |-> asked[c] + 1] IN
    /\ child[c] = "running" /\ asked[c] < MaxAsks /\ \A q \in waiting : q.by # c
    /\ waiting' = waiting \cup {r} /\ asked' = [asked EXCEPT ![c] = @ + 1]
    /\ events' = Append(events, Event("question", r))
    /\ UNCHANGED <<ui, turns, ending, inbox, child, lookups, sent, typed>>

(* No answer in time: the panel is told first, then the agent goes on.      *)
ApprovalTimesOut(r) ==
    /\ r \in waiting /\ r.kind = "approval"
    /\ waiting' = waiting \ {r} /\ events' = Append(events, Event("expired", r))
    /\ UNCHANGED <<ui, turns, ending, inbox, child, asked, lookups, sent, typed>>

(* The loop reads what was steered into it.                                 *)
TurnReads ==
    /\ TurnWorks
    /\ \E t \in inbox : inbox' = inbox \ {t} /\ sent' = Append(sent, [text |-> t, as |-> "steer"])
    /\ UNCHANGED <<ui, turns, ending, child, waiting, asked, lookups, events, typed>>

(* The end of run_turn.  The loop is over: its outcome is fixed, and its own *)
(* question is announced - or an error, when the store does not give the     *)
(* question back (Ok(None) | Err(_)); the turn goes on all the same.         *)
LoopEnds(asks) ==
    LET q == [by |-> Root, kind |-> "question", n |-> asked[Root] + 1] IN
    /\ TurnWorks
    /\ \/ ~asks /\ UNCHANGED <<asked, events>> /\ ending' = [ending EXCEPT !.at = "told", !.stopped = Head(turns)]
       \/ /\ asks /\ "question" \in Doings /\ ~Head(turns) /\ asked[Root] < MaxAsks
          /\ asked' = [asked EXCEPT ![Root] = @ + 1]
          /\ \E read \in BOOLEAN :
               /\ events' = Append(events, IF read THEN Event("question", q) ELSE Event("error", FALSE))
               /\ ending' = [at |-> "told", stopped |-> FALSE, early |-> ending.early \/ ~read]
    /\ UNCHANGED <<ui, turns, inbox, child, waiting, lookups, sent, typed>>

(* active_inbox.take(): nothing enters the turn from here on.               *)
InboxCloses ==
    /\ ending.at = "told" /\ ending' = [ending EXCEPT !.at = "closed"]
    /\ UNCHANGED <<ui, turns, inbox, child, waiting, asked, lookups, events, sent, typed>>

(* carry_unread_messages, one of them.                                      *)
CarryUnread ==
    /\ ending.at = "closed"
    /\ \E t \in inbox : inbox' = inbox \ {t} /\ events' = Append(events, Event("unread", t))
    /\ UNCHANGED <<ui, turns, ending, child, waiting, asked, lookups, sent, typed>>

(* The writer and the store are released, then the terminal event is sent.  *)
TurnEnds ==
    /\ ending.at = "closed" /\ inbox = {}
    /\ turns' = Tail(turns) /\ events' = Append(events, Event("terminal", ending.stopped))
    /\ ending' = [Running EXCEPT !.early = ending.early]
    /\ UNCHANGED <<ui, inbox, child, waiting, asked, lookups, sent, typed>>

(* A turn that cannot start (its store, its settings) says so and is over;  *)
(* some (MCP setup, compaction, refine, a file action) send the terminal    *)
(* event behind the error.                                                  *)
TurnBreaks(twice) ==
    /\ TurnWorks /\ inbox = {}
    /\ events' = Append(events, Event("error", FALSE))
    /\ \/ ~twice /\ turns' = Tail(turns) /\ ending' = ending
       \/ twice /\ turns' = turns /\ ending' = [at |-> "closed", stopped |-> FALSE, early |-> TRUE]
    /\ UNCHANGED <<ui, inbox, child, waiting, asked, lookups, sent, typed>>

ChildEnds(c) ==
    /\ child[c] # "gone" /\ \A q \in waiting : q.by # c
    /\ child' = [child EXCEPT ![c] = "gone"]
    /\ events' = Append(events, Event("settled", ReportOf(c)))
    /\ UNCHANGED <<ui, turns, ending, inbox, waiting, asked, lookups, sent, typed>>

(* A lookup in the background of the idle session (/resume) fails.          *)
LookupFails ==
    /\ lookups.open > 0 /\ lookups' = [lookups EXCEPT !.open = @ - 1]
    /\ events' = Append(events, Event("error", FALSE))
    /\ UNCHANGED <<ui, turns, ending, inbox, child, waiting, asked, sent, typed>>

-----------------------------------------------------------------------------
(* dispatch: a line goes to the open question, into the running turn, or    *)
(* starts a turn.                                                           *)

(* submit_question_answer.                                                  *)
SubmitQuestionAnswer(u, t) ==
    LET closed == [u EXCEPT !.question = NoRequest] IN
    IF u.question.by = Root
      THEN /\ ui' = [closed EXCEPT !.phase = "running"]
           /\ Submit(<<t>>, "answer")
           /\ UNCHANGED <<inbox, waiting>>
      ELSE /\ ui' = NextWaiting([closed EXCEPT !.before = "none",
                      !.phase = IF u.before = "none" THEN "running" ELSE u.before])
           /\ waiting' = waiting \ {u.question}
           /\ sent' = sent \o Said(<<t>>, IF u.question \in waiting THEN "answer" ELSE "too late")
           /\ UNCHANGED <<turns, inbox>>

InboxOpen == turns # <<>> /\ ending.at # "closed"

(* dispatch_while_running: steered, or queued when the turn's inbox is not  *)
(* open (yet).                                                              *)
DispatchWhileRunning(u, t) ==
    /\ \/ u.phase = "running" /\ InboxOpen /\ inbox' = inbox \cup {t} /\ ui' = u
       \/ ui' = [u EXCEPT !.queue = Append(@, t)] /\ inbox' = inbox
    /\ UNCHANGED <<turns, waiting, sent>>

(* fresh_run; the reports held back by a Ctrl-C ride along.                 *)
StartTurn(u, t) ==
    LET folded == IF u.held THEN u.notices ELSE <<>> IN
    /\ ui' = [u EXCEPT !.phase = "running", !.held = FALSE, !.notices = IF u.held THEN <<>> ELSE @]
    /\ Submit(<<t>> \o folded, "turn")
    /\ UNCHANGED <<inbox, waiting>>

(* A mutant: a line that arrives while the controller is busy starts a turn. *)
DispatchAtOnce(u, t) ==
    IF u.phase = "input" /\ u.question # NoRequest THEN SubmitQuestionAnswer(u, t) ELSE StartTurn(u, t)

Dispatch(u, t) ==
    CASE u.phase = "input" /\ u.question # NoRequest -> SubmitQuestionAnswer(u, t)
      [] HasActiveRun(u) -> DispatchWhileRunning(u, t)
      [] OTHER -> StartTurn(u, t)

(* Nothing is dispatched: the controller becomes u.                         *)
Becomes(u) == ui' = u /\ UNCHANGED <<turns, inbox, waiting, sent>>

RunNextQueued(u) == Dispatch([u EXCEPT !.queue = Tail(@)], Head(u.queue))

ReadNextNotice(u) == Dispatch([u EXCEPT !.notices = Tail(@)], Head(u.notices))

-----------------------------------------------------------------------------
(* apply_event, one arm per event.                                          *)

Take(kind) ==
    /\ events # <<>> /\ Head(events).kind = kind /\ events' = Tail(events)
    /\ UNCHANGED <<ending, child, asked, lookups, typed>>

OnApproval == Take("approval") /\ Becomes(OfferApproval(ui, Head(events).about))

OnExpired ==
    LET r == Head(events).about IN
    /\ Take("expired")
    /\ Becomes(IF ui.approval = r
                 THEN NextWaiting([ui EXCEPT !.approval = NoRequest, !.phase = IF @ = "approval" THEN "running" ELSE @])
                 ELSE [ui EXCEPT !.approvals = LeavingOut(@, r)])

OnQuestion == Take("question") /\ Becomes(OfferQuestion(ui, Head(events).about))

OnUnread == Take("unread") /\ Becomes([ui EXCEPT !.queue = Append(@, Head(events).about)])

(* deliver_notice.                                                          *)
OnSettled ==
    LET t == Head(events).about IN
    /\ Take("settled")
    /\ IF FreeForAutomaticTurn(ui) /\ ~ui.held /\ ui.notices = <<>>
         THEN Dispatch(ui, t)
         ELSE Becomes([ui EXCEPT !.notices = Append(@, t)])

(* The turn is over: what waits runs next, unless the user stopped it.      *)
OnTerminal ==
    LET u == [FinishRun(ui) EXCEPT !.held = @ \/ Head(events).about, !.grant = FALSE] IN
    /\ Take("terminal")
    /\ CASE ~u.held /\ u.queue # <<>> -> RunNextQueued(u)
         [] ~u.held /\ u.queue = <<>> /\ u.notices # <<>> -> ReadNextNotice(u)
         [] OTHER -> Becomes(u)

(* RecoverableError.                                                        *)
OnError == Take("error") /\ Becomes([FinishRun(ui) EXCEPT !.grant = FALSE])

(* deliver_heartbeats: what waits for nothing but a free session starts.    *)
DeliverWaiting ==
    /\ FreeForAutomaticTurn(ui) /\ ~ui.held
    /\ \/ ui.queue # <<>> /\ RunNextQueued(ui)
       \/ ui.queue = <<>> /\ ui.notices # <<>> /\ ReadNextNotice(ui)
    /\ UNCHANGED <<ending, child, asked, lookups, events, typed>>

(* deliver_waiting_steers: the turn opened its inbox.                       *)
DeliverWaitingSteers ==
    /\ ui.phase = "running" /\ InboxOpen /\ ui.queue # <<>>
    /\ inbox' = inbox \cup {Head(ui.queue)} /\ ui' = [ui EXCEPT !.queue = Tail(@)]
    /\ UNCHANGED <<turns, ending, child, waiting, asked, lookups, events, sent, typed>>

-----------------------------------------------------------------------------
(* The user.                                                                *)

(* While an approval waits a line is an answer to it, and any other line is *)
(* refused.                                                                 *)
UserTypes ==
    /\ typed < MaxTyped /\ ui.phase # "approval"
    /\ typed' = typed + 1 /\ Dispatch(ui, Typed(typed + 1))
    /\ UNCHANGED <<ending, child, asked, lookups, events>>

(* answer: yes or no once, or yes for the rest of the turn.                 *)
UserAnswers(all) ==
    /\ ui.phase = "approval" /\ ui.approval # NoRequest /\ (all => "all" \in Doings)
    /\ waiting' = waiting \ {ui.approval}
    /\ ui' = [NextWaiting([ui EXCEPT !.approval = NoRequest, !.phase = "running"]) EXCEPT !.grant = @ \/ all]
    /\ UNCHANGED <<turns, ending, inbox, child, asked, lookups, events, sent, typed>>

(* interrupt, service.cancel: the turn and the children are stopped, what   *)
(* they ask is refused.                                                     *)
Interrupt ==
    LET refused == {r \in waiting : r.kind = "approval"} IN
    /\ "interrupt" \in Doings /\ HasActiveRun(ui)
    /\ ui' = [ui EXCEPT !.phase = "canceling"]
    /\ turns' = [i \in DOMAIN turns |-> turns[i] \/ i = Len(turns)] /\ waiting' = {}
    /\ child' = [c \in Children |-> IF child[c] = "running" THEN "stopping" ELSE child[c]]
    /\ events' = events \o [i \in 1..Cardinality(refused) |-> Event("expired", SetToSeq(refused)[i])]
    /\ UNCHANGED <<ending, inbox, asked, lookups, sent, typed>>

(* /resume, in an idle session.                                             *)
UserLooksUp ==
    /\ ~HasActiveRun(ui) /\ ui.question = NoRequest /\ lookups.made < MaxLookups
    /\ lookups' = [open |-> lookups.open + 1, made |-> lookups.made + 1]
    /\ UNCHANGED <<ui, turns, ending, inbox, child, waiting, asked, events, sent, typed>>

HandleEvent == OnApproval \/ OnExpired \/ OnQuestion \/ OnUnread \/ OnSettled \/ OnTerminal \/ OnError

TurnMoves == (\E b \in BOOLEAN : LoopEnds(b)) \/ InboxCloses \/ CarryUnread \/ TurnEnds

ScreenNext ==
    \/ \E a \in Children \cup {Root} : AsksApproval(a)
    \/ \E c \in Children : ChildAsks(c) \/ ChildEnds(c)
    \/ \E r \in waiting : ApprovalTimesOut(r)
    \/ TurnReads \/ TurnMoves
    \/ \E b \in BOOLEAN : TurnBreaks(b) \/ UserAnswers(b)
    \/ HandleEvent \/ DeliverWaiting \/ DeliverWaitingSteers
    \/ UserTypes \/ Interrupt \/ UserLooksUp \/ LookupFails

(* The event loop drains the channel and looks at what waits on every pass; *)
(* a turn goes to its end and an approval times out.  The user owes nothing. *)
ScreenSpec ==
    /\ ScreenInit /\ [][ScreenNext]_screenVars
    /\ WF_screenVars(HandleEvent) /\ WF_screenVars(DeliverWaiting)
    /\ WF_screenVars(TurnMoves)
    /\ WF_screenVars(\E r \in waiting : ApprovalTimesOut(r))

-----------------------------------------------------------------------------
Requests == [by : Children \cup {Root}, kind : {"approval", "question"}, n : 1..MaxAsks]
Texts == [from : {"user"}, id : 1..MaxTyped] \cup [from : {"child"}, id : Children]

ScreenTypeOK ==
    /\ ui.phase \in {"ready", "running", "approval", "input", "canceling"}
    /\ ui.approval \in Requests \cup {NoRequest} /\ ui.question \in Requests \cup {NoRequest}
    /\ ui.before \in {"none", "ready", "running", "canceling"}
    /\ ui.approvals \in Seq(Requests) /\ ui.questions \in Seq(Requests)
    /\ ui.queue \in Seq(Texts) /\ ui.notices \in Seq(Texts) /\ inbox \subseteq Texts
    /\ waiting \subseteq Requests /\ turns \in Seq(BOOLEAN)
    /\ ending \in [at : {"no", "told", "closed"}, stopped : BOOLEAN, early : BOOLEAN]
    /\ ending.at # "no" => turns # <<>>
    /\ ui.grant \in BOOLEAN /\ ui.held \in BOOLEAN

Ending == \E i \in DOMAIN events : events[i].kind \in {"terminal", "error"}

(* Nothing but the turns themselves has reached the controller so far: no   *)
(* child asked or reported, no lookup was made, no turn ended with a        *)
(* question, none said it broke and then ended.  What each does to the phase *)
(* is told in README.md.                                                    *)
Undisturbed ==
    /\ \A c \in Children : child[c] # "gone" /\ asked[c] = 0
    /\ lookups.made = 0 /\ ~ending.early
    /\ \A i \in DOMAIN events : events[i].kind # "question"
    /\ ui.question = NoRequest /\ ui.questions = <<>>
    /\ \A i \in DOMAIN sent : sent[i].as # "answer"

(* The controller says a run is active only while a turn runs, or its end   *)
(* is on its way to the screen (AppPhase::has_active_run).                  *)
RunningHasATurn == Undisturbed /\ ui.phase \in {"running", "canceling"} => turns # <<>> \/ Ending

(* A second turn is never started beside a running one (has_active_run: "a  *)
(* second input must not be admitted").                                     *)
OneTurnAtATime == Undisturbed => Len(turns) <= 1

(* The grant for a turn is over when the turn is (ChannelApprovalGate: "it  *)
(* cannot outlive the turn it was given for").                              *)
GrantWithinTurn == Undisturbed /\ ui.grant => turns # <<>> \/ Ending

(* Everything typed and every child's report is in exactly one place: on    *)
(* its way, queued, in the turn's inbox, or sent - once.                    *)
Copies(t) ==
    LET In(seq) == Cardinality({i \in DOMAIN seq : seq[i] = t}) IN
    In(ui.queue) + In(ui.notices) + Cardinality(inbox \cap {t})
      + Cardinality({i \in DOMAIN events : events[i].kind \in {"unread", "settled"} /\ events[i].about = t})
      + Cardinality({i \in DOMAIN sent : sent[i].text = t})

Kept ==
    /\ \A n \in 1..typed : Copies(Typed(n)) = 1
    /\ \A c \in Children : child[c] = "gone" => Copies(ReportOf(c)) = 1

(* While somebody waits on it, an open panel stays open and a request behind *)
(* it keeps its place, whatever else is asked, expires or is answered: only  *)
(* the end of a turn or an error takes it away (offer_question, next_waiting).           *)
Open(u) == {u.approval, u.question}
Behind(u) == ToSet(u.approvals) \cup ToSet(u.questions)

AskKept ==
    [][\A r \in waiting \cap waiting' :
          \/ events # <<>> /\ Head(events).kind \in {"terminal", "error"}
          \/ /\ r \in Open(ui) => r \in Open(ui')
             /\ r \in Behind(ui) => r \in Open(ui') \cup Behind(ui')]_screenVars

(* What the user queued is sent after the active run, unless the user       *)
(* stopped the run (dispatch_while_running: "sent after the active run      *)
(* finishes").                                                              *)
QueuedIsSent == (Undisturbed /\ ui.queue # <<>>) ~> (ui.queue = <<>> \/ ui.held \/ ~Undisturbed)

(* What the controller shows is so, and what was typed, asked or reported   *)
(* is kept (dispatch, next_waiting, finish_run).                            *)
ScreenSafe ==
    /\ [](ScreenTypeOK /\ RunningHasATurn /\ GrantWithinTurn /\ Kept)
    /\ AskKept
=============================================================================
