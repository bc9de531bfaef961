--------------------------- MODULE QueueDispatch ---------------------------
(***************************************************************************)
(* Which waiting turn gets which worker (client_state.rs claim_next_match- *)
(* ing, client_state/runner_dispatch.rs, turn_runner.rs claim).  The queue *)
(* is FIFO per worker; a run caps how many of its tasks are active; a      *)
(* runner that cannot claim its own turn may yield and serve a parked one. *)
(*                                                                         *)
(* How a row gets its process is RunnerSlots' subject.  Here a runner slot *)
(* either holds a live runner or is free, and owner None is a runner that  *)
(* has died or exited.  A task has at most one queued turn, so rows are    *)
(* indexed by task.                                                        *)
(***************************************************************************)
EXTENDS Integers, Sequences, FiniteSets, Absence

CONSTANTS
    Tasks, Workers, Slots,
    Fit,         \* task -> workers whose pin and capabilities match
    Members,     \* the tasks of the run; the others belong to none
    Cap,         \* the run's max_parallel
    Ceiling,     \* worker -> slots, in the configuration and on the host
    MaxTurns,    \* task -> its turns: the first one and max_followups
    MaxDeaths,   \* bound: runner deaths
    MaxForeign,  \* bound: arrivals of another client's turn on a worker
    MaxCancels,  \* bound: cancellations
    QueueLoads   \* bound: what a behaviour starts with, see QueueLoad

ASSUME DispatchAssumption ==
    /\ None \notin Tasks \cup Workers \cup Slots
    /\ Fit \in [Tasks -> SUBSET Workers]
    /\ Members \subseteq Tasks /\ IsFiniteSet(Members)
    /\ Cap \in Nat \ {0} /\ Ceiling \in [Workers -> Nat \ {0}]
    /\ MaxTurns \in [Tasks -> Nat \ {0}]
    /\ {MaxDeaths, MaxForeign, MaxCancels} \subseteq Nat

\* A behaviour has some of the tasks yet to submit, the others were closed before
\* it began, and has used up some of its bounds.
QueueLoad == [tasks : SUBSET Tasks, deaths : 0..MaxDeaths, arrivals : 0..MaxForeign,
              cancels : 0..MaxCancels]

ASSUME QueueLoadsAssumption == QueueLoads \subseteq QueueLoad

VARIABLES
    queue,    \* tasks with a row, oldest first
    rows,     \* the row of each task
    status,   \* the local task status
    turns,    \* turns started so far
    home,     \* the worker that has accepted the task's first turn
    host,     \* the worker a turn is running on
    over,     \* tasks whose accepted turn the host has finished
    spent,    \* parked because the restart budget is used up
    step,     \* where each slot's runner stands
    serves,   \* the task it serves
    idle,     \* the workers its last probe found idle
    donor,    \* the task it has yielded
    foreign,  \* worker -> turns of other clients
    deaths, arrivals, cancels

queueVars == <<queue, rows, status, turns, home, host, over, spent, step, serves, idle, donor,
               foreign, deaths, arrivals, cancels>>

Rest == [st |-> "none", owner |-> None, worker |-> None, cancel |-> FALSE]
QueueRow == [st : {"none", "waiting", "parked", "dispatching"}, owner : Slots \cup {None},
             worker : Workers \cup {None}, cancel : BOOLEAN]
Pcs  == {"off", "wait", "look", "yield", "taken", "run", "live", "end", "next"}

Local == <<status, turns, home, host, over, spent>>
World == <<foreign, deaths, arrivals, cancels>>
Runner == <<step, serves, idle, donor>>

QueueInit ==
    /\ queue = <<>> /\ rows = [t \in Tasks |-> Rest]
    /\ turns = [t \in Tasks |-> 0]
    /\ home = [t \in Tasks |-> None] /\ host = [t \in Tasks |-> None]
    /\ over = {} /\ spent = {}
    /\ step = [s \in Slots |-> "off"] /\ serves = [s \in Slots |-> None]
    /\ idle = [s \in Slots |-> {}] /\ donor = [s \in Slots |-> None]
    /\ foreign = [w \in Workers |-> 0]
    /\ \E load \in QueueLoads :
         /\ status = [t \in Tasks |-> IF t \in load.tasks THEN "new" ELSE "closed"]
         /\ deaths = load.deaths /\ arrivals = load.arrivals /\ cancels = load.cancels

-----------------------------------------------------------------------------
(* Reading the queue *)

Position(t) == CHOOSE i \in 1..Len(queue) : queue[i] = t
Older(t) == {u \in Tasks : \E i \in 1..(Position(t) - 1) : queue[i] = u}

Waiting(t)  == rows[t].st = "waiting"
Parked(t)   == rows[t].st = "parked"
Dispatched(t) == rows[t].st = "dispatching"
Accepted(t) == host[t] # None \/ t \in over

\* A follow-up is pinned to the worker that holds the session.
EligibleFor(t, w) == IF home[t] # None THEN w = home[t] ELSE w \in Fit[t]

\* run_has_capacity: every other task of the run that is dispatching or Active
\* takes a place.  A follow-up is Active before it is dispatched.
Sibling_DispatchedOnly(t, u) == u # t /\ Dispatched(u)
Sibling(t, u) == u # t /\ (Dispatched(u) \/ status[u] = "active")

RunHasCapacity(t) == t \in Members => Cardinality({u \in Members : Sibling(t, u)}) < Cap

\* A parked turn that a waiting runner could execute.
Runnable(t) ==
    /\ ~rows[t].cancel /\ t \notin spent
    /\ status[t] \in {"queued", "active"}
    /\ ~Accepted(t)

\* blocks_queue_claim: an older row that could take the worker keeps it.
Blocks_WaitingOnly(u, w) ==
    /\ ~rows[u].cancel /\ EligibleFor(u, w) /\ RunHasCapacity(u)
    /\ Waiting(u) /\ rows[u].owner # None
Blocks(u, w) ==
    /\ ~rows[u].cancel /\ EligibleFor(u, w) /\ RunHasCapacity(u)
    /\ \/ Waiting(u) /\ rows[u].owner # None
       \/ Parked(u) /\ Runnable(u)

Occupancy(w) == Cardinality({u \in Tasks : Dispatched(u) /\ rows[u].worker = w})

\* claim_next_matching, for one turn: the workers it may be dispatched to.
Claimable(t, seen) ==
    {w \in seen : /\ Occupancy(w) < Ceiling[w]
                  /\ ~rows[t].cancel /\ EligibleFor(t, w) /\ RunHasCapacity(t)
                  /\ \A u \in Older(t) : ~Blocks(u, w)}

\* worker_for_reassignment wants a worker without any dispatched turn.
Assignable(t, seen) ==
    {w \in seen : /\ RunHasCapacity(t) /\ EligibleFor(t, w) /\ Occupancy(w) = 0
                  /\ \A u \in Older(t) : ~Blocks(u, w)}

StepTo(s, l) == step' = [step EXCEPT ![s] = l]
Serve(s, t, l) == StepTo(s, l) /\ serves' = [serves EXCEPT ![s] = t]
Leave(s) == Serve(s, None, "off")

RowOut(t) == queue' = SelectSeq(queue, LAMBDA u : u # t) /\ rows' = [rows EXCEPT ![t] = Rest]

-----------------------------------------------------------------------------
(* Submission and follow-up *)

Enqueued(t, s) ==
    /\ queue' = Append(queue, t)
    /\ IF s = None
       THEN /\ \A p \in Slots : step[p] # "off"
            /\ rows' = [rows EXCEPT ![t] = [Rest EXCEPT !.st = "parked"]]
            /\ UNCHANGED Runner
       ELSE /\ step[s] = "off"
            /\ rows' = [rows EXCEPT ![t] = [Rest EXCEPT !.st = "waiting", !.owner = s]]
            /\ Serve(s, t, "wait") /\ UNCHANGED <<idle, donor>>

SubmitTask(t, s) ==
    /\ status[t] = "new"
    /\ Enqueued(t, s)
    /\ status' = [status EXCEPT ![t] = "queued"]
    /\ turns' = [turns EXCEPT ![t] = 1]
    /\ UNCHANGED <<home, host, over, spent, World>>

\* max_followups.
FollowupLeft(t) == turns[t] < MaxTurns[t]

\* say marks the task Active and enqueues its turn after that; reconcile goes on
\* with a say that was interrupted in between.
Say(t) ==
    /\ status[t] = "open" /\ rows[t].st = "none" /\ FollowupLeft(t)
    /\ status' = [status EXCEPT ![t] = "active"]
    /\ turns' = [turns EXCEPT ![t] = @ + 1]
    /\ UNCHANGED <<queue, rows, home, host, over, spent, Runner, World>>

EnqueueFollowup(t, s) ==
    /\ status[t] = "active" /\ rows[t].st = "none"
    /\ Enqueued(t, s)
    /\ UNCHANGED <<Local, World>>

-----------------------------------------------------------------------------
(* The claim loop of a runner *)

\* How far an accepted turn has come: its final status may be stored already.
Stage(t) == IF status[t] = "active" THEN "live" ELSE "end"

\* A turn its host has already accepted goes back to its worker, whatever the
\* queue looks like by now.
ResumeAccepted(s) ==
    LET t == serves[s] IN
    /\ step[s] = "wait" /\ Accepted(t)
    /\ rows' = [rows EXCEPT ![t].st = "dispatching", ![t].worker = home[t]]
    /\ StepTo(s, Stage(t))
    /\ UNCHANGED <<queue, Local, serves, idle, donor, World>>

CancelWaiting(s) ==
    LET t == serves[s] IN
    /\ step[s] = "wait" /\ ~Accepted(t) /\ rows[t].cancel
    /\ status' = [status EXCEPT ![t] = IF home[t] = None THEN "closed" ELSE "open"]
    /\ RowOut(t) /\ Leave(s)
    /\ UNCHANGED <<turns, home, host, over, spent, idle, donor, World>>

HasRoom(w) == Cardinality({u \in Tasks : host[u] = w}) + foreign[w] < Ceiling[w]

Observe(s) ==
    /\ step[s] = "wait" /\ ~Accepted(serves[s]) /\ ~rows[serves[s]].cancel
    /\ idle' = [idle EXCEPT ![s] = {w \in Workers : HasRoom(w)}]
    /\ StepTo(s, "look")
    /\ UNCHANGED <<queue, rows, Local, serves, donor, World>>

\* Which of the workers ranks first depends on affinity, memory and disk.
ClaimWorker(s) ==
    LET t == serves[s] IN
    /\ step[s] = "look"
    /\ \E w \in Claimable(t, idle[s]) :
         rows' = [rows EXCEPT ![t].st = "dispatching", ![t].worker = w]
    /\ StepTo(s, "run")
    /\ idle' = [idle EXCEPT ![s] = {}]
    /\ UNCHANGED <<queue, Local, serves, donor, World>>

ClaimFails(s) ==
    /\ step[s] = "look" /\ Claimable(serves[s], idle[s]) = {}
    /\ StepTo(s, "yield")
    /\ UNCHANGED <<queue, rows, Local, serves, idle, donor, World>>

\* The parked turns that a runner waiting with t may serve instead.  A donor
\* that has become claimable meanwhile keeps its turn.
Recipients(seen) ==
    {u \in Tasks : Parked(u) /\ Runnable(u) /\ Assignable(u, seen) # {}}
Reassignable(t, seen) ==
    IF Runnable(t) /\ Assignable(t, seen) = {} THEN Recipients(seen) ELSE {}

\* claim_parked_filtered_for_waiting_runner: the donor's row is parked and the
\* oldest recipient dispatched in one publication.
Yielded(r) == [r EXCEPT !.st = "parked", !.owner = None]

Reassign(s) ==
    LET t == serves[s] IN
    /\ step[s] = "yield"
    /\ \E u \in Reassignable(t, idle[s]) : \E w \in Assignable(u, idle[s]) :
         /\ \A v \in Reassignable(t, idle[s]) : Position(u) <= Position(v)
         /\ rows' = [rows EXCEPT ![t] = Yielded(@),
                               ![u] = [@ EXCEPT !.st = "dispatching", !.owner = s, !.worker = w]]
         /\ Serve(s, u, "taken")
    /\ donor' = [donor EXCEPT ![s] = t]
    /\ UNCHANGED <<queue, Local, idle, World>>

KeepWaiting(s) ==
    /\ step[s] = "yield" /\ Reassignable(serves[s], idle[s]) = {}
    /\ StepTo(s, "wait")
    /\ idle' = [idle EXCEPT ![s] = {}]
    /\ UNCHANGED <<queue, rows, Local, serves, donor, World>>

LaunchPermit(s) ==
    /\ step[s] = "taken"
    /\ StepTo(s, "run")
    /\ donor' = [donor EXCEPT ![s] = None] /\ idle' = [idle EXCEPT ![s] = {}]
    /\ UNCHANGED <<queue, rows, Local, serves, World>>

\* release_waiting_runner_reassignment: the recipient may not be launched.  A
\* donor that is no longer as it was left is an error, and the runner exits.
LaunchRefused(s) ==
    LET t == donor[s] IN
    /\ step[s] = "taken"
    /\ IF Parked(t)
       THEN /\ rows' = [rows EXCEPT
                          ![serves[s]] = [@ EXCEPT !.st = "parked", !.owner = None, !.worker = None],
                          ![t] = [@ EXCEPT !.st = "waiting", !.owner = s]]
            /\ Serve(s, t, "wait")
       ELSE rows' = [rows EXCEPT ![serves[s]].owner = None] /\ Leave(s)
    /\ donor' = [donor EXCEPT ![s] = None] /\ idle' = [idle EXCEPT ![s] = {}]
    /\ UNCHANGED <<queue, Local, World>>

-----------------------------------------------------------------------------
(* Execution *)

CancelDispatched(s) ==
    LET t == serves[s] IN
    /\ step[s] = "run" /\ rows[t].cancel
    /\ status' = [status EXCEPT ![t] = IF home[t] = None THEN "closed" ELSE "open"]
    /\ RowOut(t) /\ Leave(s)
    /\ UNCHANGED <<turns, home, host, over, spent, idle, donor, World>>

\* The host's lease decides, whatever the probe had said.
HostAccepts(s) ==
    LET t == serves[s] IN
    /\ step[s] = "run" /\ ~rows[t].cancel /\ HasRoom(rows[t].worker)
    /\ host' = [host EXCEPT ![t] = rows[t].worker]
    /\ home' = [home EXCEPT ![t] = rows[t].worker]
    /\ status' = [status EXCEPT ![t] = "active"]
    /\ StepTo(s, "live")
    /\ UNCHANGED <<queue, rows, turns, over, spent, serves, idle, donor, World>>

HostRefuses(s) ==
    LET t == serves[s] IN
    /\ step[s] = "run" /\ ~rows[t].cancel /\ ~HasRoom(rows[t].worker)
    /\ rows' = [rows EXCEPT ![t] = [@ EXCEPT !.st = "waiting", !.owner = None, !.worker = None]]
    /\ Leave(s)
    /\ UNCHANGED <<queue, Local, idle, donor, World>>

HostEnds(t) ==
    /\ host[t] # None
    /\ host' = [host EXCEPT ![t] = None] /\ over' = over \cup {t}
    /\ UNCHANGED <<queue, rows, status, turns, home, spent, Runner, World>>

\* The final status is stored before the row is removed.
SaveStatus(s) ==
    LET t == serves[s] IN
    /\ step[s] = "live" /\ t \in over
    /\ \E st \in {"open", "closed"} : status' = [status EXCEPT ![t] = st]
    /\ StepTo(s, "end")
    /\ UNCHANGED <<queue, rows, turns, home, host, over, spent, serves, idle, donor, World>>

Retire(s) ==
    LET t == serves[s] IN
    /\ step[s] = "end"
    /\ RowOut(t) /\ over' = over \ {t}
    /\ Serve(s, None, "next")
    /\ UNCHANGED <<status, turns, home, host, spent, idle, donor, World>>

\* start_next_parked, and the start of parked turns by reconcile and commands.
NextParked(s) ==
    LET Ready == {t \in Tasks : Parked(t) /\ t \notin spent} IN
    /\ step[s] \in {"next", "off"} /\ Ready # {}
    /\ \E t \in Ready : /\ \A u \in Ready : Position(t) <= Position(u)
                        /\ rows' = [rows EXCEPT ![t] = [@ EXCEPT !.st = "waiting", !.owner = s]]
                        /\ Serve(s, t, "wait")
    /\ UNCHANGED <<queue, Local, idle, donor, World>>

NoneParked(s) ==
    /\ step[s] = "next" /\ \A t \in Tasks : Parked(t) => t \in spent
    /\ Leave(s)
    /\ UNCHANGED <<queue, rows, Local, idle, donor, World>>

-----------------------------------------------------------------------------
(* Death, recovery, cancellation, other clients *)

RunnerDies(s) ==
    /\ step[s] # "off" /\ deaths < MaxDeaths
    /\ deaths' = deaths + 1
    /\ rows' = IF serves[s] = None THEN rows ELSE [rows EXCEPT ![serves[s]].owner = None]
    /\ Leave(s)
    /\ donor' = [donor EXCEPT ![s] = None] /\ idle' = [idle EXCEPT ![s] = {}]
    /\ UNCHANGED <<queue, Local, foreign, arrivals, cancels>>

Orphan_WaitingOnly(t) == Waiting(t) /\ rows[t].owner = None
Orphan(t) == rows[t].st \in {"waiting", "dispatching"} /\ rows[t].owner = None

\* A replacement goes on where the row says.
Replace(t, s) ==
    /\ Orphan(t) /\ step[s] = "off"
    /\ rows' = [rows EXCEPT ![t].owner = s]
    /\ Serve(s, t, IF Waiting(t) THEN "wait"
                   ELSE IF Accepted(t) THEN Stage(t) ELSE "run")
    /\ UNCHANGED <<queue, Local, idle, donor, World>>

\* Reconcile takes the host's final status over before the turn is drained.
RefreshStatus(t) ==
    /\ Orphan(t) /\ t \in over /\ status[t] = "active"
    /\ \E st \in {"open", "closed"} : status' = [status EXCEPT ![t] = st]
    /\ UNCHANGED <<queue, rows, turns, home, host, over, spent, Runner, World>>

\* The restart budget is used up; an operator may reset it.
ParkSpent(t) ==
    /\ Orphan(t) /\ deaths > 0
    /\ rows' = [rows EXCEPT ![t] = [@ EXCEPT !.st = "parked", !.worker = None]]
    /\ spent' = spent \cup {t}
    /\ UNCHANGED <<queue, status, turns, home, host, over, Runner, World>>

ResetBudget ==
    /\ spent # {} /\ spent' = {}
    /\ UNCHANGED <<queue, rows, status, turns, home, host, over, Runner, World>>

Cancel(t) ==
    /\ rows[t].st # "none" /\ ~rows[t].cancel /\ cancels < MaxCancels
    /\ cancels' = cancels + 1
    /\ rows' = [rows EXCEPT ![t].cancel = TRUE]
    /\ UNCHANGED <<queue, Local, Runner, foreign, deaths, arrivals>>

\* A cancelled turn without a runner is retired by reconcile.
CancelUnowned(t) ==
    /\ rows[t].cancel /\ ~Accepted(t)
    /\ Parked(t) \/ (Waiting(t) /\ rows[t].owner = None)
    /\ status' = [status EXCEPT ![t] = IF home[t] = None THEN "closed" ELSE "open"]
    /\ RowOut(t) /\ spent' = spent \ {t}
    /\ UNCHANGED <<turns, home, host, over, Runner, World>>

ForeignArrives(w) ==
    /\ arrivals < MaxForeign /\ HasRoom(w)
    /\ arrivals' = arrivals + 1 /\ foreign' = [foreign EXCEPT ![w] = @ + 1]
    /\ UNCHANGED <<queue, rows, Local, Runner, deaths, cancels>>

ForeignLeaves(w) ==
    /\ foreign[w] > 0 /\ foreign' = [foreign EXCEPT ![w] = @ - 1]
    /\ UNCHANGED <<queue, rows, Local, Runner, deaths, arrivals, cancels>>

Waiter(s) ==
    \/ ResumeAccepted(s) \/ CancelWaiting(s) \/ Observe(s) \/ ClaimWorker(s) \/ ClaimFails(s)
    \/ Reassign(s) \/ KeepWaiting(s) \/ LaunchPermit(s) \/ LaunchRefused(s)

Executor(s) ==
    \/ CancelDispatched(s) \/ HostAccepts(s) \/ HostRefuses(s) \/ SaveStatus(s)
    \/ Retire(s) \/ NextParked(s) \/ NoneParked(s)

QueueNext ==
    \/ \E t \in Tasks, s \in Slots \cup {None} : SubmitTask(t, s) \/ EnqueueFollowup(t, s)
    \/ \E t \in Tasks : \/ Say(t) \/ HostEnds(t) \/ RefreshStatus(t) \/ ParkSpent(t)
                        \/ Cancel(t) \/ CancelUnowned(t)
    \/ \E s \in Slots : Waiter(s) \/ Executor(s) \/ RunnerDies(s)
    \/ \E t \in Tasks, s \in Slots : Replace(t, s)
    \/ \E w \in Workers : ForeignArrives(w) \/ ForeignLeaves(w)
    \/ ResetBudget

QueueSpec == QueueInit /\ [][QueueNext]_queueVars

\* Runners poll, hosts bound every turn by a timeout, reconcile and the
\* controller's tick come round again, a launch is not refused for ever.
QueueFairness ==
    /\ \A s \in Slots :
         /\ WF_queueVars(ResumeAccepted(s) \/ CancelWaiting(s) \/ Observe(s))
         /\ WF_queueVars(ClaimWorker(s) \/ ClaimFails(s) \/ Reassign(s) \/ KeepWaiting(s))
         /\ WF_queueVars(LaunchPermit(s) \/ LaunchRefused(s)) /\ SF_queueVars(LaunchPermit(s))
         /\ WF_queueVars(Executor(s))
    /\ \A t \in Tasks :
         /\ WF_queueVars(HostEnds(t)) /\ WF_queueVars(CancelUnowned(t))
         /\ SF_queueVars(\E s \in Slots : Replace(t, s)) /\ WF_queueVars(RefreshStatus(t))
         /\ WF_queueVars(\E s \in Slots \cup {None} : EnqueueFollowup(t, s))
    /\ \A w \in Workers : WF_queueVars(ForeignLeaves(w))

QueueFair == QueueSpec /\ QueueFairness

-----------------------------------------------------------------------------
(* Properties *)

\* The queue, the task statuses and the runners have their types.
QueueTypeOK ==
    /\ queue \in Seq(Tasks) /\ rows \in [Tasks -> QueueRow]
    /\ status \in [Tasks -> {"new", "queued", "active", "open", "closed"}]
    /\ turns \in [Tasks -> Nat] /\ \A t \in Tasks : turns[t] <= MaxTurns[t]
    /\ home \in [Tasks -> Workers \cup {None}] /\ host \in [Tasks -> Workers \cup {None}]
    /\ over \subseteq Tasks /\ spent \subseteq Tasks
    /\ step \in [Slots -> Pcs] /\ serves \in [Slots -> Tasks \cup {None}]
    /\ idle \in [Slots -> SUBSET Workers] /\ donor \in [Slots -> Tasks \cup {None}]
    /\ foreign \in [Workers -> 0..MaxForeign]
    /\ deaths \in 0..MaxDeaths /\ arrivals \in 0..MaxForeign /\ cancels \in 0..MaxCancels

\* A run never has more turns dispatched or running on hosts than max_parallel,
\* although a turn may change hands, be parked while it runs, or be resumed
\* without asking for capacity.
RunCapKept ==
    Cardinality({t \in Members : (Dispatched(t) /\ t \notin over) \/ host[t] # None}) <= Cap

Overtaken(u, w) ==
    /\ ~rows[u].cancel /\ EligibleFor(u, w) /\ RunHasCapacity(u) /\ ~Accepted(u)
    /\ \/ Waiting(u) /\ rows[u].owner # None
       \/ Parked(u) /\ u \notin spent
\* The older of two rows that could use a worker gets it: when a turn is newly
\* dispatched to a worker, no older executable turn that has room in its run and
\* fits that worker is passed over.
OlderFirst ==
    [][\A t \in Tasks :
         ~Dispatched(t) /\ Dispatched(t)' /\ ~Accepted(t)
            => \A u \in Older(t) : ~Overtaken(u, rows'[t].worker)]_queueVars

InQueue(t) == rows[t].st \in {"waiting", "parked"}
\* Every queued turn is dispatched or retired at last, unless its restart budget
\* is spent: under a run cap as long as no runner fails and its tasks say no
\* follow-up, and with a failing runner as long as the slots suffice for the turns.
TurnDispatched == \A t \in Tasks : InQueue(t) ~> (~InQueue(t) \/ t \in spent)
=============================================================================
