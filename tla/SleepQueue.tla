------------------------------ MODULE SleepQueue ----------------------------
(***************************************************************************)
(* The durable queue of background memory passes (harness-cli sleep.rs),   *)
(* for the jobs of one key.  Every change to the queue is made under the   *)
(* queue's lock and is one step here; a pass runs under a claim, a lease   *)
(* and the key's lock file.  Processes crash, passes are dropped, fail or  *)
(* hang.  Work is what the jobs cover: turns to review, or an upkeep pass  *)
(* that was asked for.                                                     *)
(***************************************************************************)
EXTENDS Naturals, Sequences, Lists

CONSTANTS
    Procs,
    Works,
    MayHang,        \* processes whose pass may hang past MAX_RUN
    MayKeep,        \* processes that may fail to remove a job that is done
    MaxAttempts,    \* max_attempts
    MaxIds,         \* bound: job files
    MaxTokens,      \* bound: claims
    NoHolder

ASSUME SleepAssumption ==
    /\ MaxAttempts \in Nat \ {0} /\ MaxIds \in Nat /\ MaxTokens \in Nat
    /\ MayHang \cup MayKeep \subseteq Procs /\ NoHolder \notin Procs

VARIABLES
    jobs,           \* the job files, by identifier
    dueOrder,       \* the jobs whose next_at passed, in that order
    upkeep,         \* whether the key is of an upkeep pass, else of reviews
    keyLock,        \* who holds the key's lock file
    pass,           \* what each process runs
    nextId, nextToken,
    asked,          \* work that was written to the queue
    covered         \* work a pass that succeeded was given

sleepVars == <<upkeep, jobs, dueOrder, keyLock, pass, nextId, nextToken, asked, covered>>

NoClaim == 0
NoPass == [pc |-> "idle", id |-> 0, token |-> NoClaim, work |-> {}, attempts |-> 0, over |-> FALSE, ran |-> {}]

SleepInit ==
    /\ upkeep \in BOOLEAN /\ jobs = [i \in {} |-> {}] /\ dueOrder = <<>> /\ keyLock = NoHolder /\ pass = [p \in Procs |-> NoPass]
    /\ nextId = 1 /\ nextToken = 1 /\ asked = {} /\ covered = {}

Put(j, job) == [i \in DOMAIN jobs \cup {j} |-> IF i = j THEN job ELSE jobs[i]]
Rest(f, j) == [i \in DOMAIN f \ {j} |-> f[i]]
IsDue(j) == \E n \in DOMAIN dueOrder : dueOrder[n] = j

Later(j) == LeavingOut(dueOrder, j)
NewJob(w) == [work |-> {w}, attempts |-> 0, gaveUp |-> FALSE, token |-> NoClaim, stands |-> FALSE]

LeaseStands(j) == jobs[j].token # NoClaim /\ jobs[j].stands

(* claim_is_free: never claimed, past its lease, or the key's lock is gone. *)
ClaimIsFree(j) == ~LeaseStands(j) \/ keyLock = NoHolder

(* The job an enqueue is coalesced into.                                    *)
Waiting(j) == ~jobs[j].gaveUp /\ ClaimIsFree(j)

MaxOf(a, b) == IF a >= b THEN a ELSE b

(* The claim it is coalesced over is void.                                  *)
Absorbed(j, w) == [jobs[j] EXCEPT !.work = @ \cup {w}, !.token = NoClaim, !.stands = FALSE]

(* absorb: new turns that are due bring a review forward, an upkeep pass    *)
(* keeps its backoff.                                                       *)
Sooner(j, due) ==
    IF due /\ ~upkeep /\ ~IsDue(j) THEN Append(dueOrder, j) ELSE dueOrder

WriteNew(w, due) ==
    /\ nextId <= MaxIds /\ jobs' = Put(nextId, NewJob(w)) /\ nextId' = nextId + 1
    /\ dueOrder' = IF due THEN Append(dueOrder, nextId) ELSE dueOrder

Write(w, due) ==
    \/ /\ \E j \in DOMAIN jobs : Waiting(j) /\ jobs' = Put(j, Absorbed(j, w)) /\ dueOrder' = Sooner(j, due)
       /\ UNCHANGED nextId
    \/ (\A j \in DOMAIN jobs : ~Waiting(j)) /\ WriteNew(w, due)

(* enqueue of a review, at a turn's end or for later (not_before).          *)
Enqueue(w) ==
    /\ ~upkeep /\ w \notin asked /\ asked' = asked \cup {w}
    /\ \E due \in BOOLEAN : Write(w, due)
    /\ UNCHANGED <<keyLock, pass, nextToken, covered>>

(* enqueue_now at a session's end while the queue is busy: a file of its    *)
(* own.                                                                     *)
EnqueueAlone(w) ==
    /\ ~upkeep /\ w \notin asked /\ asked' = asked \cup {w} /\ WriteNew(w, TRUE)
    /\ UNCHANGED <<keyLock, pass, nextToken, covered>>

(* An upkeep pass that runs stands for the one asked for.                   *)
RunsAlready == \E j \in DOMAIN jobs : ~ClaimIsFree(j)
GaveUpAlready == \E j \in DOMAIN jobs : jobs[j].gaveUp

(* claim_upkeep: the enqueue, at the end of any turn the pass is due at, and *)
(* then the claim.                                                          *)
AskUpkeep(p, w) ==
    /\ upkeep /\ pass[p].pc = "idle" /\ ~GaveUpAlready /\ pass' = [pass EXCEPT ![p].pc = "asked"]
    /\ \/ RunsAlready /\ UNCHANGED <<jobs, dueOrder, nextId, asked>>
       \/ ~RunsAlready /\ Write(w, TRUE) /\ asked' = asked \cup {w}
    /\ UNCHANGED <<keyLock, nextToken, covered>>

(* What claim looks at: a call of run_due runs a job once.                  *)
Candidate(p, j) == ~jobs[j].gaveUp /\ j \notin pass[p].ran

(* The candidate that is due first.                                         *)
FirstDue(p, j) ==
    \E n \in DOMAIN dueOrder : /\ dueOrder[n] = j /\ Candidate(p, j)
                              /\ \A k \in 1..n - 1 : ~Candidate(p, dueOrder[k])

(* A mutant: the lock of the key is not looked at.                          *)
TakenAnyway(j) == TRUE

(* The job of a pass that hung past the lease of its claim.                 *)
TakeOver(j) == keyLock # NoHolder /\ jobs[j].token # NoClaim /\ ~jobs[j].stands

Claimable(j) == keyLock = NoHolder \/ TakeOver(j)

Asking(p) == pass[p].pc = IF upkeep THEN "asked" ELSE "idle"

(* claim: of the job that is due first, which decides for its key; whoever  *)
(* holds the lock keeps it.                                                 *)
Claim(p) ==
    /\ Asking(p) /\ nextToken <= MaxTokens
    /\ \E j \in DOMAIN jobs :
          /\ FirstDue(p, j) /\ Claimable(j) /\ jobs' = Put(j, [jobs[j] EXCEPT !.token = nextToken, !.stands = TRUE])
          /\ pass' = [pass EXCEPT ![p] = [pc |-> "running", id |-> j, token |-> nextToken, work |-> jobs[j].work,
                                          attempts |-> jobs[j].attempts, over |-> TakeOver(j), ran |-> @.ran]]
    /\ keyLock' = IF keyLock = NoHolder THEN p ELSE keyLock
    /\ nextToken' = nextToken + 1 /\ UNCHANGED <<dueOrder, nextId, asked, covered>>

(* Nothing can be claimed: the call ends.                                   *)
ClaimsNone(p) ==
    /\ Asking(p) /\ pass[p] # NoPass /\ (\A j \in DOMAIN jobs : FirstDue(p, j) => ~Claimable(j))
    /\ pass' = [pass EXCEPT ![p] = NoPass]
    /\ UNCHANGED <<jobs, dueOrder, keyLock, nextId, nextToken, asked, covered>>

-----------------------------------------------------------------------------
(* The pass.                                                                *)

Running(p) == pass[p].pc \in {"running", "hung"}

(* still_mine: the job is there and this claim holds it.                    *)
StillMine(p) == pass[p].id \in DOMAIN jobs /\ jobs[pass[p].id].token = pass[p].token

Released(p) == IF keyLock = p THEN NoHolder ELSE keyLock

(* The pass is over; the call of run_due it was of goes on.                 *)
Over(p) == [pass EXCEPT ![p] = [NoPass EXCEPT !.ran = IF upkeep THEN {} ELSE pass[p].ran \cup {pass[p].id}]]

(* done: the job goes, unless another claim took it over; the lock file     *)
(* goes with the key's last job.                                            *)
Done(p) ==
    /\ Running(p) /\ pass' = Over(p) /\ covered' = covered \cup pass[p].work
    /\ IF StillMine(p) THEN jobs' = Rest(jobs, pass[p].id) /\ dueOrder' = Later(pass[p].id)
                       ELSE UNCHANGED <<jobs, dueOrder>>
    /\ keyLock' = IF DOMAIN jobs' = {} THEN NoHolder ELSE Released(p)
    /\ UNCHANGED <<nextId, nextToken, asked>>

(* done, when the queue cannot be locked or the file not removed.           *)
DoneKept(p) ==
    /\ p \in MayKeep /\ Running(p) /\ pass' = Over(p) /\ covered' = covered \cup pass[p].work
    /\ keyLock' = Released(p) /\ UNCHANGED <<jobs, dueOrder, nextId, nextToken, asked>>

GivesUp(p) == pass[p].attempts + 1 >= MaxAttempts

FailedJob(p) ==
    [work |-> pass[p].work, attempts |-> pass[p].attempts + 1, gaveUp |-> GivesUp(p),
     token |-> NoClaim, stands |-> FALSE]

(* A job of the key that came in meanwhile.                                 *)
Newer(p, n) == n # pass[p].id /\ ~jobs[n].gaveUp /\ jobs[n].token = NoClaim

(* A mutant: the newer job does not take the span of the one that failed.   *)
CountsOnly(p, n) == [jobs[n] EXCEPT !.attempts = MaxOf(@, pass[p].attempts + 1)]

(* It takes the span of the one that failed, and its backoff.               *)
Joined(p, n) == [jobs[n] EXCEPT !.work = @ \cup pass[p].work, !.attempts = MaxOf(@, pass[p].attempts + 1)]

(* failed, of a claim that still holds its job.                             *)
Failed(p) ==
    /\ Running(p) /\ StillMine(p) /\ pass' = Over(p) /\ keyLock' = Released(p)
    /\ \/ /\ ~GivesUp(p)
          /\ \E n \in DOMAIN jobs : /\ Newer(p, n) /\ jobs' = Rest(Put(n, Joined(p, n)), pass[p].id)
                                    /\ dueOrder' = LeavingOut(Later(n), pass[p].id)
       \/ /\ GivesUp(p) \/ \A n \in DOMAIN jobs : ~Newer(p, n)
          /\ jobs' = Put(pass[p].id, FailedJob(p)) /\ dueOrder' = Later(pass[p].id)
    /\ UNCHANGED <<nextId, nextToken, asked, covered>>

(* The process dies between the two writes of a failure.                    *)
CrashInFailed(p) ==
    /\ Running(p) /\ StillMine(p) /\ ~GivesUp(p) /\ pass' = [pass EXCEPT ![p] = NoPass] /\ keyLock' = Released(p)
    /\ \E n \in DOMAIN jobs : Newer(p, n) /\ jobs' = Put(n, Joined(p, n)) /\ dueOrder' = Later(n)
    /\ UNCHANGED <<nextId, nextToken, asked, covered>>

(* failed, of a claim that was superseded, writes nothing.                  *)
FailedLate(p) ==
    /\ Running(p) /\ ~StillMine(p) /\ pass' = Over(p) /\ keyLock' = Released(p)
    /\ UNCHANGED <<jobs, dueOrder, nextId, nextToken, asked, covered>>

(* The process dies or the run is canceled: the queue is left as it is.     *)
LetGo(p) ==
    /\ Running(p) /\ pass' = [pass EXCEPT ![p] = NoPass] /\ keyLock' = Released(p)
    /\ UNCHANGED <<jobs, dueOrder, nextId, nextToken, asked, covered>>

(* MAX_RUN passes: the claim is no longer renewed.                          *)
Hang(p) ==
    /\ p \in MayHang /\ pass[p].pc = "running" /\ pass' = [pass EXCEPT ![p].pc = "hung"]
    /\ UNCHANGED <<jobs, dueOrder, keyLock, nextId, nextToken, asked, covered>>

(* run_due goes from one claim to the next at once: leases and backoffs are *)
(* of minutes and do not pass in between.                                   *)
TimePasses == \A p \in Procs : pass[p].pc = "idle" => pass[p].ran = {}

(* The lease of a claim passes that nobody renews: a running pass does,     *)
(* every RENEW_EVERY, six times in a lease.                                 *)
Lapse(j) ==
    /\ TimePasses /\ LeaseStands(j)
    /\ \A p \in Procs : ~(pass[p].pc = "running" /\ pass[p].token = jobs[j].token)
    /\ jobs' = Put(j, [jobs[j] EXCEPT !.stands = FALSE])
    /\ UNCHANGED <<dueOrder, keyLock, pass, nextId, nextToken, asked, covered>>

(* next_at passes.                                                          *)
BecomesDue(j) ==
    /\ TimePasses /\ ~IsDue(j) /\ ~jobs[j].gaveUp /\ dueOrder' = Append(dueOrder, j)
    /\ UNCHANGED <<jobs, keyLock, pass, nextId, nextToken, asked, covered>>

(* forget_given_up: the pass succeeded another way.                         *)
ForgetGivenUp(j) ==
    /\ upkeep /\ jobs[j].gaveUp /\ jobs' = Rest(jobs, j) /\ dueOrder' = Later(j) /\ covered' = covered \cup jobs[j].work
    /\ UNCHANGED <<keyLock, pass, nextId, nextToken, asked>>

Turn(p) == Claim(p) \/ ClaimsNone(p) \/ \E w \in Works : AskUpkeep(p, w)
PassEnds(p) == pass[p].pc = "running" /\ (Done(p) \/ Failed(p) \/ FailedLate(p))

SleepNext ==
    /\ UNCHANGED upkeep
    /\ \/ \E w \in Works : Enqueue(w) \/ EnqueueAlone(w)
       \/ \E p \in Procs :
             \/ Turn(p) \/ Done(p) \/ DoneKept(p) \/ Failed(p) \/ CrashInFailed(p) \/ FailedLate(p) \/ LetGo(p)
             \/ Hang(p)
       \/ \E j \in DOMAIN jobs : Lapse(j) \/ BecomesDue(j) \/ ForgetGivenUp(j)

(* A process has further turns, which claim what is due; a pass that does not hang *)
(* ends; time passes.                                                       *)
SleepSpec ==
    /\ SleepInit /\ [][SleepNext]_sleepVars
    /\ \A p \in Procs : WF_sleepVars(Turn(p)) /\ WF_sleepVars(PassEnds(p))
    /\ WF_sleepVars(\E j \in DOMAIN jobs : Lapse(j)) /\ WF_sleepVars(\E j \in DOMAIN jobs : BecomesDue(j))

-----------------------------------------------------------------------------
Job == [work : SUBSET Works, attempts : Nat, gaveUp : BOOLEAN, token : Nat, stands : BOOLEAN]

SleepTypeOK ==
    /\ DOMAIN jobs \subseteq 1 .. nextId - 1 /\ \A j \in DOMAIN jobs : jobs[j] \in Job
    /\ dueOrder \in Seq(DOMAIN jobs) /\ keyLock \in Procs \cup {NoHolder} /\ nextId \in Nat /\ nextToken \in Nat
    /\ pass \in [Procs -> [pc : {"idle", "asked", "running", "hung"}, id : Nat, token : Nat, work : SUBSET Works, attempts : Nat, over : BOOLEAN, ran : SUBSET Nat]]
    /\ asked \subseteq Works /\ covered \subseteq Works

(* Nothing is lost: work that was written to the queue is in a job on disk  *)
(* until a pass that was given it has succeeded, whatever was coalesced,    *)
(* superseded, taken over or cut off meanwhile.                             *)
WorkIsKept == \A w \in asked : w \in covered \/ \E j \in DOMAIN jobs : w \in jobs[j].work

(* "One job of a key runs at a time, across processes": two passes whose    *)
(* claims are renewed run together only when one of them took its job over  *)
(* from a pass that hung.                                                   *)
OneRunsAtATime ==
    \A p, q \in Procs : pass[p].pc = "running" /\ pass[q].pc = "running" /\ p # q => pass[p].over \/ pass[q].over

(* A job gives up at its last attempt and not before, and counts no attempt *)
(* after.                                                                   *)
GivesUpAtTheLimit == \A j \in DOMAIN jobs : jobs[j].gaveUp <=> jobs[j].attempts >= MaxAttempts

GivenUp(w) == \E j \in DOMAIN jobs : jobs[j].gaveUp /\ w \in jobs[j].work

Hangs == \E p \in Procs : pass[p].pc = "hung"

(* Work that was asked for is done or given up in the end, unless a pass    *)
(* hangs: a job waits for its backoff and for the pass that runs.           *)
WorkIsDone == \A w \in Works : w \in asked ~> w \in covered \/ GivenUp(w) \/ nextToken > MaxTokens \/ Hangs

(* The passes of a key run one after the other, and the work of each comes  *)
(* to an end (claim, finish, fail).                                         *)
PassesAreOrderly == [](SleepTypeOK /\ OneRunsAtATime /\ GivesUpAtTheLimit) /\ WorkIsDone
=============================================================================
