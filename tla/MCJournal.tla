------------------------------ MODULE MCJournal -----------------------------
(* Two sessions of one task.  A behaviour belongs to one scenario, so that   *)
(* each question gets the bounds it needs: the calls of tools by two writers *)
(* beside runtime events, decisions beside recoveries, and recoveries across *)
(* two sessions and hosts.                                                   *)
EXTENDS SessionJournal

CONSTANTS s1, s2, e1, e2, w1, w2

VARIABLE scenario

Scenarios ==
    {[kinds |-> {"intent", "receipt", "runtime"}, calls |-> {e1, e2}, writers |-> {w1, w2},
      sessions |-> {s1, s2}, recovered |-> {}, events |-> 4, hosts |-> 2, stored |-> 0],
     [kinds |-> {"decision", "runtime"}, calls |-> {}, writers |-> {w1, w2},
      sessions |-> {s1}, recovered |-> {s1}, events |-> 4, hosts |-> 1, stored |-> 2],
     [kinds |-> {"intent", "receipt", "note"}, calls |-> {e1}, writers |-> {w1},
      sessions |-> {s1, s2}, recovered |-> {s1, s2}, events |-> 3, hosts |-> 2, stored |-> 1]}

(* The next state is one of the scenario's.                                  *)
InScenario ==
    /\ gen' <= scenario.hosts
    /\ \A s \in Sessions :
         /\ Len(journal'[s]) <= IF s \in scenario.sessions THEN scenario.events ELSE 0
         /\ Cardinality(snapshots'[s]) <= scenario.stored
    /\ \A w \in Writers : op'[w].stage \in {"read", "commit"} =>
         /\ w \in scenario.writers /\ op'[w].kind \in scenario.kinds
         /\ Len(journal'[op'[w].session]) + Cardinality({v \in Writers : op'[v] # NoOp}) <= scenario.events
         /\ op'[w].kind \in {"intent", "receipt"} => op'[w].of \in scenario.calls
    /\ recovery'.stage # "idle" => recovery'.session \in scenario.recovered

MCJournalInit == JournalInit /\ scenario \in Scenarios
MCJournalNext == JournalNext /\ InScenario /\ UNCHANGED scenario
MCJournalSpec == MCJournalInit /\ [][MCJournalNext]_<<journalVars, scenario>>
=============================================================================
