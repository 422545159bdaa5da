--------------------------- MODULE MCStoreQueues ---------------------------
(* The questions of a store, and the durable queue of background passes: a  *)
(* behaviour is about one of them, in one scenario.                         *)
EXTENDS Questions, SleepQueue

VARIABLE part

QuestionParts ==
    {[of |-> "questions", scopes |-> {1}, elsewhere |-> TRUE],
     [of |-> "questions", scopes |-> Scopes, elsewhere |-> FALSE]}

QueueParts ==
    {[of |-> "queue", upkeep |-> FALSE, procs |-> {1, 2}, works |-> 1..3, hang |-> FALSE],
     [of |-> "queue", upkeep |-> FALSE, procs |-> Procs, works |-> 1..2, hang |-> TRUE],
     [of |-> "queue", upkeep |-> TRUE, procs |-> {1, 2}, works |-> 1..2, hang |-> TRUE],
     [of |-> "queue", upkeep |-> TRUE, procs |-> {1, 2}, works |-> 1..3, hang |-> FALSE]}

MCStoreVars == <<questionVars, sleepVars, part>>

MCStoreInit ==
    /\ QuestionInit /\ SleepInit /\ part \in QuestionParts \cup QueueParts
    /\ upkeep = (part.of = "queue" /\ part.upkeep)

(* Where nobody is elsewhere, the session is alone at the store.            *)
OnlyQuestions ==
    /\ part.of = "questions"
    /\ \A s \in Scopes \ part.scopes : row'[s] = NoRow
    /\ part.elsewhere \/ (told' = {} /\ \A s \in Scopes : row'[s].own \/ row'[s].state = "none")
    /\ UNCHANGED <<sleepVars, part>>

OnlyQueue ==
    /\ part.of = "queue"
    /\ \A p \in Procs \ part.procs : pass'[p] = NoPass
    /\ asked' \subseteq part.works
    /\ part.hang \/ \A p \in Procs : pass'[p].pc # "hung" /\ (DoneKept(p) => Done(p))
    /\ UNCHANGED <<questionVars, part>>

QueueWorks == part.of = "queue"

(* The fairness of SleepSpec.                                               *)
MCStoreSpec ==
    /\ MCStoreInit
    /\ [][(QuestionNext /\ OnlyQuestions) \/ (SleepNext /\ OnlyQueue)]_MCStoreVars
    /\ \A p \in Procs :
          /\ WF_MCStoreVars(QueueWorks /\ Turn(p) /\ UNCHANGED upkeep /\ OnlyQueue)
          /\ WF_MCStoreVars(QueueWorks /\ PassEnds(p) /\ UNCHANGED upkeep /\ OnlyQueue)
    /\ WF_MCStoreVars(QueueWorks /\ (\E j \in DOMAIN jobs : Lapse(j)) /\ UNCHANGED upkeep /\ OnlyQueue)
    /\ WF_MCStoreVars(QueueWorks /\ (\E j \in DOMAIN jobs : BecomesDue(j)) /\ UNCHANGED upkeep /\ OnlyQueue)
=============================================================================
