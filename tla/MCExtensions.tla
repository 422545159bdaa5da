---------------------------- MODULE MCExtensions ----------------------------
(* The transport of one extension process, and the host's record of one     *)
(* extension.  A behaviour is about one of them, in one scenario.  The      *)
(* transport has a call `a`, a call `l` of a lease, and a call `big` of a    *)
(* lease whose frame is larger than the pipe; the host is given three       *)
(* operations, which begin in the order of their names.                     *)
EXTENDS ExtensionTransport, ExtensionHost

CONSTANTS a, l, big

VARIABLE part

TransportParts ==
    {[of |-> "transport", calls |-> {a, l}, cancels |-> {}, faults |-> {"crash", "drop"}, messages |-> 1],
     [of |-> "transport", calls |-> {a}, cancels |-> Cancelers, faults |-> {"crash", "drop", "deadline", "shutdown"}, messages |-> 1],
     [of |-> "transport", calls |-> {a, big}, cancels |-> Cancelers, faults |-> {}, messages |-> 0],
     [of |-> "transport", calls |-> {l, big}, cancels |-> Cancelers, faults |-> {"deadline"}, messages |-> 0],
     [of |-> "transport", calls |-> {a, l, big}, cancels |-> {}, faults |-> {}, messages |-> 0]}

HostParts ==
    {[of |-> "host", holders |-> Holders, together |-> FALSE, kinds |-> Kinds],
     [of |-> "host", holders |-> {}, together |-> TRUE, kinds |-> Kinds \ {"drain"}]}

MCExtensionVars == <<transportVars, hostVars, part>>

MCExtensionInit == TransportInit /\ HostInit /\ part \in TransportParts \cup HostParts

Transports == part.of = "transport"

OnlyTransport ==
    /\ \A c \in Calls \ part.calls : call'[c].pc = "none"
    /\ \A k \in Cancelers \ part.cancels : cancel'[k].pc = "none"
    /\ "shutdown" \notin part.faults => closer' = "none"
    /\ "drop" \notin part.faults => \A c \in Calls : call'[c].pc # "dropped"
    /\ "deadline" \notin part.faults => \A c \in Calls : call'[c].pc # "terminate"
    /\ "crash" \notin part.faults => ~(process' # process /\ faulted' # faulted)
    /\ messages' <= part.messages
    /\ UNCHANGED <<hostVars, part>>

(* Where no deadline passes, it is because the plugin reads and answers in  *)
(* time; elsewhere it owes nothing.                                         *)
InTime == "deadline" \notin part.faults

OnlyHost ==
    /\ part.of = "host"
    /\ \A v, w \in Workers : v < w /\ op[v].pc = "none" => op'[w].pc = "none"
    /\ \A w \in Workers : op'[w].kind \in part.kinds \cup {NoProcess}
    /\ \A h \in Holders \ part.holders : holder'[h] = NoLease
    /\ part.together \/ (~overlapped' /\ ~replaced')
    /\ UNCHANGED <<transportVars, part>>

Working ==
    \/ \E c \in Calls : CallStep(c)
    \/ \E k \in Cancelers : CancelStep(k)
    \/ Kill \/ DrainAll \/ ReaderStep

Locking == (\E c \in Calls : LockWriter(c)) \/ (\E k \in Cancelers : CancelLock(k)) \/ ReplyLock

Answering == \E c \in Calls : PluginAnswers(c)

(* The fairness of TransportSpec, and of a plugin in time.  Nobody takes a  *)
(* step for ever, so that fairness to all of them together is fairness to   *)
(* each.                                                                    *)
MCExtensionSpec ==
    /\ MCExtensionInit
    /\ [][(Transports /\ TransportNext /\ OnlyTransport) \/ (HostNext /\ OnlyHost)]_MCExtensionVars
    /\ WF_MCExtensionVars(Transports /\ Working /\ OnlyTransport)
    /\ SF_MCExtensionVars(Transports /\ Locking /\ OnlyTransport)
    /\ WF_MCExtensionVars(Transports /\ InTime /\ PluginReads /\ OnlyTransport)
    /\ WF_MCExtensionVars(Transports /\ InTime /\ Answering /\ OnlyTransport)
=============================================================================
