# A TLA+ development of mac-worker

mac-worker sends coding tasks over SSH to spare Macs.  A laptop (or an opt-in
remote controller) owns a queue of *turns*; each turn is carried by a detached
runner process, which submits a *job* to a helper on a worker Mac, follows it,
imports its result and retires the row.  Nothing in the system is a long-lived
server that could be trusted to remember: every process may die between any two
writes, every state lives in small files replaced atomically under `flock`, and
every command first repairs what an earlier process left behind.  That is what
this development is about: the protocols between processes that share files,
what a crash between two of their steps leaves, and whether the repairs put it
right.

## 1. Inventory

Paths are under `src/src/`.

| part | state it keeps | operations | what is hard | what makes it correct |
|---|---|---|---|---|
| Runner slots and handoff (`client_state.rs`, `turn_runner.rs`, `job.rs`) | a row per queued turn: state, owner, runner reservation (reserver, token, child), failure streak; the task record's runner | reserve, spawn, bind, complete, adopt, claim, steal, park, unpark, cancel, retire, reconcile | launchers race; any process dies at any step; process absence may be unconfirmed | at most one runner may execute a turn; runners fit the slots; a turn is never left with nobody to move it |
| Runner journal (`runner_log.rs`) | a log file and a checkpoint with a pending intent | open, recover, append, complete, follow | death, I/O error or power loss between intent, bytes, fsync and commit | bytes appear whole and in order; acceptance is never forgotten; nothing printed is lost |
| Queue and dispatch (`client_state.rs`, `scheduler*.rs`, `turn_runner.rs`) | queue order, run caps, task status, runner per row | enqueue, probe, claim, yield, refuse, release, retire, reconcile | stale probes; a waiting runner gives its process to a parked turn; caps count other tasks | FIFO among turns that can use the worker; the cap holds; every turn is dispatched in the end |
| Submission (`task_client.rs`, `prepared_submit.rs`, `transfer_repo.rs`) | record, prompt, row, pins, recovery marker | submit, hand over, roll back, recover | a death or a failure at each of about ten steps; recovery next to a live submitter | nothing orphaned; what a runner adopted is never undone; every marker resolved |
| Batch DAG (`dag.rs`, `task_client.rs`) | graph file, index of pending graphs, node states, bindings, pins | create, advance, bind, claim, submit, block | several threads and processes advance one graph; parents change after they looked final | a child starts from what its parent delivered; no node is forgotten, none submitted twice |
| Host jobs (`job_service.rs`, `supervisor.rs`, `turn.rs`, `lease.rs`, `host_store.rs`, `task_store.rs`) | leases and slots, job directories and index, status, payload, locks, task status | acquire, submit, query, cancel, resolve, launch, supervise, publish, clean, release, close | requests and the supervisor share locks; either dies; late requests; reboots | one agent per worktree; no agent outlives its lease; every turn is published before its slot is free |
| Drain valve (`controller/drain.rs`) | lock file, flag, pause history | drain, undrain, disable, open store, admit | launchers share the lock operators need alone; files are lost or damaged | an acknowledged drain fences every later handoff |
| Auto-integration (`integration/`) | the owner's record of a turn's cycle with its revision, the host's record and stop proof, the target branch at origin | drive, fetch, push, observe, repair, import, stop, re-drive | a push whose answer is lost, requests that arrive late, an operator who stops or follows up meanwhile, pushes of others | a turn's result lands once; a confirmed stop holds; the owner believes only what is on the branch; a cycle comes to rest |
| Origin outbox (`outbox.rs`) | an intent per turn, the due index, pins, a ledger per branch | commit, sweep, scan, pump, classify, retry | intent, index and push are separate writes; the index is cleared without the intent's lock | an owed publication is never forgotten; what is reported delivered is on the branch; every one is delivered or given up |
| Controller requests (`controller/store.rs`, `execute.rs`, `envelope.rs`) | the laptop's envelope, receipts, rows with phase and result, a cursor | send, prepare, publish, execute, save, acknowledge, retire, tick | lost answers, repeated and late requests, deaths between effect and result, damaged rows | each request takes effect once, where it was aimed; its saved result is true; every published one is settled |
| Events and notifications (`controller/events/`) | segments, cursors, a bounded publisher | publish, read, retire, notify | dropped hints, retired segments | a missed hint only delays |
| Garbage collection (`gc.rs`) | an inventory of tasks, jobs, refs and mirrors; candidates | collect, look again, close, delete, maintain | the inventory is stale when applied; turns and the outbox do not wait for a pass | nothing a lease holds, an open task needs or a publication owes is deleted |
| Active-task index (`client_state/active_tasks.rs`) | a derived index | rebuild, read | the index is behind the records | nothing active is left out |
| Rooted file system (`rooted_fs.rs`) | files, temporaries; per removal an operation directory, an intent, a quarantine and a decision | replace; remove, resume, retry | a dozen renames per removal, a death between any two, peers that resume the same removal, a name that is taken again | only the entry on record is removed; success is told of erased entries only; what a death leaves is cleared |

The rest (agents, transport, dashboard, session transfer, setup, configuration)
is parsing, rendering and sequential I/O; `PROJECT.json` lists each part with
the reason it is left out.

How the parts meet: `Submission` ends where `RunnerSlots` begins (the row and
its first runner); `RunnerSlots` and `QueueDispatch` are two views of one queue,
the first of the runner's identity, the second of the worker it is sent to; the
runner that has dispatched a turn talks to `HostJob` and writes `RunnerLog`;
`BatchDag` calls a submission for each ready node and reads the task states that
runners leave; `DrainGate` stands before every handoff.  At the end of a turn
`HostJob` publishes what `Outbox` has to deliver (`Delivery` is what `HostGc`
needs to know of it), and a finished turn with a policy begins a cycle of
`Integration`.  `ControllerRequests` carries an operator's say, cancel, close and
submit to the machine that owns the task.  The modules share the
source's names but no variables: each takes its neighbours as a nondeterministic
environment that does what the neighbour's own module shows it can do.

## 2. Modules

Every module states in its header what it abstracts; `PROJECT.json` maps every
definition to its lines.

* **RunnerSlots** (proofs in **RunnerSlotsProofs**).  One record per queue row
  (`row`), the journal's flock and acceptance (`log`), the task record's
  `runner`, and per process a program counter with what it has read (`want`,
  `tok`, `kid`): a step is a critical section of the queue lock or a system call
  between two of them.  Launchers (`start_runner_with_reservation`, `reconcile`)
  and runners (`turn_runner`) are separate processes.  `seen` is the set of dead
  processes whose absence a caller cannot confirm.
* **RunnerLog** (proofs in **StorageProofs**), with the payload in **JournalData** and the abstract journal in
  **TurnJournal**: appends are one atomic step there; in RunnerLog an append is
  intent, fsync, bytes one at a time, fsync, commit.  `synced` and `dur` are
  what a power loss leaves.
* **QueueDispatch** (proofs in **LaunchProofs**).  Tasks with follow-ups in a queue, runner slots, workers
  with capacity, a run with `max_parallel`.  Probes are remembered (`idle`) and
  may be stale when used.
* **Submission** (proofs in **CommandProofs**).  An ordinary task and one submitted for a DAG node; every
  durable write of `submit`, the rollback and `reconcile` is an action.
* **BatchDag** (proofs in **BatchDagProofs**).  Nodes with `depends_on` and `from:` edges; threads of processes
  advance the graph while turns end, imports fail, people say more and close.
* **HostJob** (proofs in **HostProofs**).  Requests (one per SSH command) and supervisors with the locks
  they hold, jobs with their directory, index entry, status, payload, lease.
* **DrainGate** (proofs in **LaunchProofs**).  The three files, launchers and
  operators with their flock.
* **Outbox** (proofs in **OutboxProofs**), and **Delivery**, what it promises of a
  publication.  `intent`,
  `due`, `pinned` and `ledger` are the files; the supervisor that commits, the
  pump (the watcher or `outbox --once`, one at a time) and an operator who retries
  interleave between any two writes.  A commit is the turn it belongs to, and
  `behind` says which commits descend from which.  `DeliveriesKept` is the
  refinement: the state of an intent, seen through `retains_objects`, is a
  behaviour of Delivery.
* **HostGc** (proofs in **HostProofs**) extends Delivery, so that a publication may be accepted, delivered,
  given up or retried at any moment of a pass.  A pass reads leases, records and
  refs one task at a time, then looks at each candidate again before it deletes.
  Ages are 0, "a week" and "a month".
* **ControllerRequests** (proofs in **CommandProofs**).  A laptop that sends a request up to `MaxSends` times
  and may lose any connection; handlers that queue for the request's lock; the
  leader's tick with its cursor; one task with turns, each of which says who
  appended and who stopped it.
* **Integration** (proofs in **IntegrationProofs**).  `rec` is replaced by a compare-and-swap on its revision;
  the driver and an operator's command take one step per save or request; the
  host answers one request at a time; a request whose sender is gone may still
  arrive (`late`).  `origin` is the sequence of pushes to the target branch.
* **OwnedCleanup** (proofs in **StorageProofs**), and **Removal**, what it promises of a name.  `public` is the
  file at the name; `boot` (the operation directory), `slot`, `stage`, `intent`,
  `quarantine`, `staged` and `decision` are the traces of its removal.  Processes
  remove, resume or retry; the locks of the operation directory and of the intent
  are derived from where they stand (`Publishing`, `Resuming`).  `dir` is the
  generation fence: the identity of the operation directory a process is bound to.
  A step is one rename, unlink or publication; each scan of the namespace is atomic.
  `KeepsPromise` is the refinement: the traces, read as "marked" and "hidden", are
  a behaviour of Removal.
* **MC…** modules give sets, symmetry and the small graphs for TLC.  **MCLaunch**,
  **MCHost** and **MCStorage** check several modules in one run: RunnerSlots,
  QueueDispatch and DrainGate; HostJob and HostGc; RunnerLog and OwnedCleanup.  Those modules share no state, so `part`
  picks the module a behaviour works on and the others stay as they began.
  **Absence** declares `None`, which the modules of such a run share.

## 3. Runs

`expect: pass` means that TLC explores every state of the instance, within
four minutes on two cores.  A `violation` run shows a disagreement
between what the repository says and what the code does (section 6).

| run | properties | shows |
|---|---|---|
| launch | DrainFence, PauseFence | valve: a store that exists or is opened for the first time, two operators, two crashes, two losses: an acknowledged drain or pause holds |
| | OneRunnerPerTurn, ExecutorAlone, WithinSlots | slots: launchers race over a turn, or two turns compete for one slot, with deaths and unconfirmed absences |
| | RunCapKept, OlderFirst | queue: three turns, two slots, two workers, a cancellation and a death or another client |
| liveness | TurnSettles | one turn and two faults, or two turns and one slot: a queued turn is retired or parked with a spent budget, except through the two holes the property names (section 6) |
| progress | TurnDispatched | every queued turn is dispatched, retired or out of budget: under a cap with fewer slots than turns; with a death and a cancellation; with another client |
| storage | NeverCorrupt, ShownIsKept, AppendsAreAtomic, PendingCompletes | journal: deaths and I/O errors at every step of an append, or a power loss: the journal is recoverable and in order, keeps what a reader printed, implements TurnJournal, and commits every published intent |
| | Truthful, KeepsPromise, ResidueCleared | removal: two processes and a death or a moved parent, or one process and two of these, while others create the name anew: it implements Removal, success means erased, and the traces of a death go |
| submit_crash | NothingOrphaned, AdoptedWorkKept, MarkersResolved, SubmittedRuns | deaths or failures anywhere in a submission, its rollback and its recovery, one process at work at a time |
| dag_order | BoundToAccepted, OneSubmitter, Settles | a chain with an integrating middle node and a `from:` base, advanced by two processes, with a follow-up or a fault |
| host_run | AgentCovered, PublishedBeforeRelease, LiveTurnKept | jobs: two turns of a task, two requests of every kind, one fault or two dead supervisors |
| | OwedKept, OpenTaskWhole, LeasedUntouched | collection: one task with its turns, publication and closes against passes, one of which may die |
| host_slots | SlotComesBack | two tasks while the number of slots changes, or one turn with any one fault |
| outbox | OwedIsIndexed, DeliveriesKept, DeliverySettles | two turns in a line or a fork, pushes of others, an operator's retry and two faults: an owed delivery stays in the index, the outbox implements Delivery, everything is delivered or given up |
| requests | EffectsFenced, ResultsTrue, RequestSettles | pairs of say, cancel, close and submit, each sent twice, and one lost answer, death or damaged row |
| integration | StopHolds, OneMergePerSource, IntegratedIsTrue, CycleSettles | a turn, a follow-up and a re-drive with the pushes, stops and upsets of `Troubles` |
| host_close ✗ | InstallationFirst | close policy `done` and a supervisor that dies before it publishes |

Every property of a passing run has a mutant in `PROJECT.json`: the same module
with one definition changed the way a plausible bug would, for which TLC finds
the property violated.

### Bounds

All bounds are constants.  They are chosen so that each race has its two sides
and each repair something to repair after a first repair was interrupted.

Everything at its bound at once is beyond TLC.  Most modules therefore have a
constant `Loads` (in RunnerLog and BatchDag `Spent`), a set of starting points:
which of the turns, tasks or jobs are still to come, which processes run, and how
much of each bound is already used up.  `Init` picks one of them, so that a single
instance covers, for example, two turns with two launchers and no fault as well as
one turn with two faults.  The proofs hold for every `Loads`.

* RunnerSlots: two turns, two launchers, two runner processes whose identities
  are reused, one slot, `ParkAfter` 2 (the code parks after a fixed streak; two
  failures tell "first" from "last"), two faults, two tokens (a token is fresh
  when nobody remembers it).  `RaceLoads`: two turns with two launchers and no
  fault, or with one launcher and two faults; one turn with two launchers and
  one fault.  `FairLoads` (for `liveness`): one launcher and two faults with one
  turn, or no fault with two.
* RunnerLog: two writers, streams of two units, at most one extra line; two
  faults or a power loss, not both.  A unit stands for a run of bytes: a torn
  write stops after any unit.
* OwnedCleanup: one name (removals of two names share only the scan), two files
  that can be there, two processes and one trouble or one process and two
  (`RemoverLoads`).  `Operations` has two identities per process and one more, so that
  a new operation directory always finds one that nobody remembers.
* QueueDispatch: three tasks, two workers with one place each, two slots, cap 1,
  one follow-up, at most one death (`MaxDeaths`), foreign turn and cancellation;
  `QueueLoads` and
  `FairLoads` say which of them come together.
* Submission: two tasks (the second a DAG node's), two processes and one fault,
  or one task, three processes and two faults.  `MaxWorking` 1 says that no two
  processes work on submissions at once (section 6).
* BatchDag: a chain of three nodes, two processes, one follow-up or one fault.
* HostJob: two jobs, one or two requests, as many supervisors as jobs plus faults,
  one or two slots; the fault record says how many faults are left and of which
  kinds.
* DrainGate: one launcher, two operators, two crashes, two losses.
* Outbox: two turns; `MaxAttempts` 2 (the code's limit is larger; two tell a retry
  from the last attempt), one command of an operator, two faults among deaths,
  network and I/O failures and pushes of others.
* HostGc: one task in one project (candidates of several tasks only queue behind
  one another), three ages, one pass that dies.
* ControllerRequests: two requests, two attempts each, windows of one name per
  tick, so that rotation matters; one trouble.
* Integration: two candidates, one retry per phase, two turns, one re-drive; the
  combinations of pushes of others, cancels and upsets in `Troubles`: one of each
  of two kinds, or two of one and one of another.

Deadlock is checked in HostJob, HostGc, Outbox, ControllerRequests and
Integration; Integration has a `Rest` step for the moment when nothing is left to
do until somebody asks for something.  In the other modules a behaviour
may legitimately end (everything retired, budgets of faults and follow-ups used
up), and the cfg says so.

### Fairness

Fairness is only ever assumed of steps that the code takes by itself or that its
documentation asks somebody to repeat:

* a live process takes its next step (WF), and a blocked `flock` is granted to a
  process that is offered it again and again (SF);
* reconciliation is repeated: each command and each tick of the controller runs
  it, so a repair that is enabled again and again is done (SF on the repairs of
  RunnerSlots, each kind for some row, and of Submission; WF on passes of BatchDag);
* a host's turn ends (it has a deadline) and a refusing host does not refuse for
  ever (QueueDispatch), a supervisor that lives times its agent out and a client
  asks for every job again and again (HostJob);
* whoever opens a directory resumes the removals pending there (OwnedCleanup);
* the outbox's watcher is started again by launchd, and a backoff ends (Outbox);
* the leader keeps ticking, whoever else has gone (ControllerRequests);
* the driver of a cycle is scheduled again as `runner.rs` schedules it, a host
  answers a request that is waited for, and a turn ends and is imported
  (Integration); that a late request arrives, or that anybody stops, follows up or
  re-drives, is not assumed;
* nothing is assumed of crashes, faults, people or the order of processes.

## 4. Proofs

tlapm checks eight modules: `RunnerSlotsProofs`, `LaunchProofs` (DrainGate and
QueueDispatch), `OutboxProofs`, `CommandProofs` (ControllerRequests and Submission),
`BatchDagProofs`, `IntegrationProofs`, `StorageProofs` (RunnerLog and OwnedCleanup) and
`HostProofs` (HostJob and HostGc).  A theorem
holds for every value of the constants that the module's ASSUME admits: any
numbers of turns, processes, requests, retries and faults, and any set of starting
points.  Each inductive invariant was checked by TLC on a small instance before it
was proved.

**RunnerSlots: TypeCorrect and OneRunner.**  For any sets of turns and
processes, any slot limit, budget and number of faults (`ConstantsAssumption`:
the sets are disjoint, `None` is in none of them, the numbers are naturals),
`Spec => []TypeOK` and `Spec => []OneRunnerPerTurn`.  `OneRunnerPerTurn` speaks
of who *could* execute: the owner of a row and a child that holds the row's
token.  It is not inductive, because it says nothing of processes that have
taken a token and not used it.  The strengthening `TokenInv` follows the token:
`RowShape` (a row's reservation has its parts), `CarriesToken` and `TokensApart`
(a live process carries the token it was spawned with, and no two runners carry
the same), `OwnerCarriesToken` (a live owner of a reserved row carries its
token), `ReserverAlone` (while a launcher is in the handoff nobody else is at
its row with its token).  `TypeInv` adds to `TypeOK` that a busy process works on
a turn.  The proof has one step per action; frame lemmas (`CalmProcs`,
`CalmRow`) settle the many steps that leave rows or tokens alone.

**DrainGate: DrainFences and PauseFences.**  `Spec => []DrainFence` and
`Spec => []PauseFence` for any number of launchers, operators, crashes and losses.
Both properties speak of a store that was opened before the behaviour began
(`~fresh`; a first drain does not wait for a permit given before there was a lock
file, section 6).  `FreshKept` says that this never changes, and the invariant is
`fresh \/ GateInv`.  `GateInv` adds to the types the exclusion that flock gives
(`Excluded`), that every permit is a lock (`Locked`), what a writer that has
written its flag may count on until it answers (`Written`), and that the files
still say what was acknowledged (`Kept`: the flag is on *or lost*, the history
open *or damaged*).

**RunnerSlots: ExecutorStaysAlone and SlotsAreACeiling.**  `Spec => []ExecutorAlone`
and `Spec => []WithinSlots`, from `SlotsInv`, which adds three parts to `TypeInv`
and `TokenInv`.  `FlockInv`: a runner between adoption and retirement holds the
journal's flock.  `RunInv`: the turn of a running executor has a row, and no
other process claims it, whether as its owner, with its token, or as a launcher about to
spawn with that token.  `SeatInv`: the turns that have a permit, or a working runner
that owns their row, are no more than the limit.  The code counts *occupants* (rows, and processes it
cannot confirm gone) when it reserves, and not seats; the argument is an injection
of the seated turns into what was counted.  Besides `ConstantsAssumption` this needs
`JobsAssumption`: the turns of a behaviour are finitely many.

**QueueDispatch: RunCapHolds and OldestIsFirst.**  `QueueSpec => []RunCapKept` and
`QueueSpec => OlderFirst` for any tasks, workers, runner slots, ceilings, deaths, foreign
turns and cancellations; only the members of the run have to be finitely many
(`DispatchAssumption`).  Neither property follows from the guard that it resembles: a
claim counts task states and rows, `RunCapKept` counts turns dispatched or on a host, and in between
lie a runner that gave its process to a parked turn, one that was refused, one that
died, and the follow-up of a turn.  `DispatchInv` ties the three together: a runner
owns the row of the turn it serves, and its place says what that row is and whether
the host has the turn (`Serving`); row, task state and host agree (`Tied`).  From it,
every dispatched member is among the siblings that `run_has_capacity` counts, and a
step that dispatches one more admits no other (`Admission`).  `OlderFirst` is about a
step: whatever it overtakes would have blocked it (`OverlookedBlocks`).

**Outbox: OutboxTypes, OwedStaysIndexed and OutboxKeepsPromises.**
`OwedIsIndexed` alone is not inductive: the index is cleared without the intent's
lock, by a pump that has read the intent before.  `SettledRead` says what that
reading is still worth (the intent is settled, or an operator has revived it), and
`HandsFree` that a pump between two intents holds none.  `OutboxKeepsPromises` is the
refinement `Spec => DeliveriesKept`: every step of the outbox is a step of `Delivery`
or leaves its view alone.  It rests on `LandInv`: ledger, tip and the outcome that a
pump has in hand name only commits that the branch has contained, with all that
is behind them; so an intent is marked delivered only when it is.  That the pump's
choice of the first listed intent exists (`LeastNumber`) uses the well-foundedness of
the naturals.

**ControllerRequests: RequestTypes, EffectsStayFenced and ResultsStayTrue.**  For any
number of requests, attempts and troubles, and any tick size.  `EffectsFenced` relates
a turn to the view its request froze when it was prepared, and `ResultsTrue` a saved
result to the task; in between lie a handler's copy of the row, its lock, the effect
and the save, each of which may be repeated by the leader.  `RequestInv` therefore
says where a request stands (`Stages`), that a frozen view is of this task at or
before now (`Snaps`), what state and closing marks go together (`TaskState`), that
whoever left a mark on the task is a published request of that kind (`Marks`), and
that a result which a handler holds or has saved is true and stays so (`Outcomes`).
The task changes in few ways (`TaskMove`), and every other step changes the requests
only (`RequestMove`).

**Submission: NothingIsOrphaned, AdoptedWorkIsKept and OneWorkerIsEnough.**  For any
tasks, processes, deaths and failed steps.  The first two have the form
`Spec /\ []OnePerTask => []...`: they are about the behaviours in which no two
processes work on the submission of one task.  The code does not exclude that, and
with it `AdoptedWorkKept` is false (section 6), so the condition is part of the
statement; any number of processes may be at work on different tasks.
`OneWorkerIsEnough` shows that `MaxWorking` 1, which `submit_crash` has, implies the
condition.  The invariant has a part per task and a part per process.  `Whole` says
how record, prompt, row, refs and host of a task hang together (a row with a runner
belongs to a record without intent or mark; such a record has its refs), and
`Reached` what a submission, a rollback or a reconciliation may count on at each of
its steps, including the row that a rollback has set aside and may put back
(`back`).  `WorkerStep` reduces each step to its own task.

**BatchDag: DagTypes, OneSubmitterOnly and ChildrenBoundToAccepted.**  For any finite or
infinite acyclic graph, any threads and processes.  `OneSubmitter` needs that two
passes at one node's submission belong to one process (`OneProcess`) and that a pass
holds its node's claim until the node is settled (`Passes`); `BoundToAccepted` needs
that a commit which is about to be pinned is already what the parent was closed with,
and that a closed parent does not move any more (`Bindings`, `Intents`).

**Integration: IntegrationTypes, StopsHold, OneMerge and IntegratedTrue.**  For any
number of turns, epochs, candidates, retries, stops, pushes of others and upsets, and
any number of late requests.  The three properties speak of the owner's record, the
host's record and the branch at origin, which are never read together: each process
knows the others through answers that may be old.  `IntegrationInv` says how the
turns that records and requests are about stand to the host's own (`Turns`), what a
process may conclude when its revision is still current (`Knows`), what the owner, an
answer in hand and a confirmed stop promise of host and branch (`Believes`), and how
the host's record bounds what of a cycle is on the branch (`Merges`).  `Grows` is the
key: a merge that is on the branch stays there, and a cycle that the host has given
up stays given up.  What was believed of an earlier state is therefore true of the next, and a
step has to be examined only for the new belief it creates.  Every step is the owner's
(`OwnerMove`), the host's (`HostMove`) or the world's.

**RunnerLog: LogTypes, PrintedStays, AlwaysResumable and JournalIsAtomic.**  For any
number of writers, streams, lines and failures.  `PrintedStays` (`ShownIsKept`) needs no
condition on failures.  Its invariant `LogInv` says that one writer at a time is past
the flock (`Locked`), what the checkpoint says where a writer stands (`Standing`), and
that whatever a checkpoint, visible or durable, calls committed is on disk
(`Backed`), as is what is shown (`Printed`).  `AlwaysResumable` (`NeverCorrupt`) and
`JournalIsAtomic` (the refinement `AppendsAreAtomic`) assume `OneTrouble`: writers fail or the
machine does, in any number, but not both; with both they are false (the undurable
intent of section 6).  `JournalInv` adds that the visible checkpoint fits the log
(`Fits`, which also remembers that a pending intent is an append the committed state
allowed) and, where the machine may fail, that the durable checkpoint is the visible
one, or a publication is under way and both stand for the same state (`Caught`).  The
refinement follows case by case: a step that keeps the visible checkpoint either shows
nothing or lets the pending append take effect, and so do the three that publish.

**OwnedCleanup: SuccessIsTrue and RemovalIsKept.**  For any finite number of processes,
any files, troubles and starting points.  `SuccessIsTrue` (`Truthful`) needs to know
where a file is that somebody set out to remove: at its name, hidden in a slot or the
quarantine, or erased (`Whereabouts`); that nothing is hidden without an intent on
record (`OnDisk`); that one process at a time publishes an intent and one carries it
out (`OneAtATime`); and that whoever works on a removal has a target (`Knows`).  Together
they are `RemoverInv`.  `RemovalIsKept` is the refinement `KeepsPromise`: `Look`, `Back`
and `Publish` put a file on record, a turn of `resume_cleanup` hides, erases or puts
back the file on record and no other, `Retire` clears the record last, and every other
step, deaths included, leaves the view of `Removal` alone.  That a fresh identity
exists (`FreshExists`) is a count: each process remembers two at most.

**HostGc: GcTypes, OwedIsKept, OpenTaskIsWhole, LeasedIsUntouched and
OwedIsNotForgotten.**  For any number of turns and passes that die; nothing is assumed
of the constants.  A pass deletes by an inventory that it read before, so the
invariant (`Rest`) says what of an old reading is still true when it is used.  The
pass holds the installation lock, so the leases it read are the leases of now
(`LeasesFrozen`).  A task that it saw settled has no lease and cannot become active
again, and one without a record has none still or was overtaken (`InventoryHolds`).
Candidates come from that inventory (`CandidatesSound`), and the second look binds
until the deletion, except for what an operator retries (`LookBinds`).  `Working` ties
records to leases, jobs, workspaces and branches, and `PrunedUnheld` says that git
prunes only what nothing holds.  `OwedIsNotForgotten` is about a step: a publication that
is owed does not vanish with the record of its task.

**HostJob: HostTypes, LiveTurnsAreKept, AcceptedJobsAreLeased, AgentsAreCovered and
TurnsArePublished.**  For any number of jobs, requests, supervisors and slots.  The first
three hold whatever fails.  `Base` is what the locks give: who holds which lock
where (`LocksHeld`), one lease per task (`OneLease`), what a process at each point of
its way may count on (`Stages`), and that a job goes one way (`OneWay`).
`LiveTurnsAreKept` follows, since who ends a job has seen its recorded supervisor dead
under the job's lock.  `AcceptedJobsAreLeased` adds the submission on its way to the
index (`LeaseInv`): a job whose acceptance is durable keeps its slot until it ends.  The other two assume something of the faults that a behaviour starts with, because
without it they are false (section 6):
`AgentsAreCovered` (`AgentCovered`) that the launch and the wait of a turn do not both
fail (*Failed wait*), `TurnsArePublished` (`PublishedBeforeRelease`) that there is one
fault or there are only dead supervisors and failed waits, in any number (*Payload
before publication*), and that the fault is neither a failed publication (a
cancellation and the reconciliation of an orphan go on without it) nor a late
preparation (it makes the task active again after its turn has ended).  The loads of
`host_run` satisfy both.  `AgentsRecorded` says that a running
agent is the recorded child of the recorded supervisor of a leased turn, and that
whoever is about to end a job has seen that it has none.  `TurnKept` says where a
turn that is not yet published can be found: in the payload, or with a process that
holds the job's lock and will not die before it has published it (`Keeper`); `Placed`
says where each process stands towards that.

Out of the prover's reach, and therefore only model-checked: every liveness property
(`TurnSettles`, `TurnDispatched`, `PendingCompletes`, `ResidueCleared`,
`MarkersResolved`, `SubmittedRuns`, `Settles`, `SlotComesBack`, `DeliverySettles`,
`RequestSettles`, `CycleSettles`), since they need fairness.  Every safety property,
action property and refinement that a passing run checks is stated by a theorem.

## 5. Hazards

`PROJECT.json` lists, per line of code, what is hard to test there and the
property that would show it going wrong.  Those without a property carry a note:
either the thing does go wrong and section 6 says how, or the part is in the plan
below.

## 6. Where the repository says one thing and the code does another

One disagreement is a `violation` run, with the quotation in `PROJECT.json`:

* `host_close`: a request that recovers the turn of a dead supervisor runs the
  publisher under the installation lock; with close policy `done` the publisher
  asks for that lock again.

The others were met while the modules were written.  The modules show them, and
the properties of the passing runs are stated or bounded around them:

* *Restart budget* (`turn_runner.rs:728`).  The journal's length stands for
  acceptance, so the second failure *before* acceptance is charged.  RunnerSlots
  models it; no property says otherwise.
* *Stranded handoff* (`client_state.rs:1335`).  A bound child that dies while its
  reserver lives (the controller's leader) leaves the turn pending until that
  process exits; a cancelled dispatch that was never accepted is skipped and its
  replacement refused.  These are `Stranded` and `CancelOrphan`, the two holes
  that `TurnSettles` names.
* *Undurable intent* (`runner_log.rs:318`).  Recovery appends the bytes of an
  intent that may not be durable; a power loss after a writer's death can then
  leave the log longer than its committed length.  `storage` has deaths or a
  power loss.
* *Follow-ups under a cap* (`client_state.rs:2963`).  `max_parallel + 1` follow-ups
  said before any is dispatched each count the others as active.  In `progress`
  the members of the run are not followed up.
* *Last slot* (`client_state.rs:2060`).  A new turn takes the last runner slot and
  waits for the worker that an orphaned, accepted turn occupies, which waits for
  the slot.  `progress` has a death only where the slots suffice.
* *Rollback beside a live submitter* (`task_client.rs:3667`).  A reconciliation
  that judged a submission unfinished undoes it after the submitter has handed it
  over.  With `MaxWorking` 2 TLC finds `AdoptedWorkKept` violated; `submit_crash`
  has one process at work at a time.
* *Superseded parent* (`dag.rs:460`).  An integrated parent that is closed
  without Done keeps its children waiting: `Superseded`, a hole of `Settles`.
* *Stale pin* (`task_client.rs:6418`).  `bind_ready_for_dag` pins the parent's
  commit with a create-only ref and records the binding afterwards.  A death in
  between leaves the pin; once a follow-up gives the open, integrated parent
  another head, every later pass fails there, and no pending graph of the laptop
  advances.  The preview promises "Configured parents unlock children after
  integration success and current result import, including requested never
  parents that stay Open." (`task_client.rs:5863`).  `StalePin` is the other hole
  of `Settles`.
* *Payload before publication* (`job_service.rs:2092`).  A reconciliation that
  dies after it removed the payload, after a supervisor had died, leaves the
  turn active for good: two faults that `host_run` does not combine.
* *Failed wait* (`supervisor.rs:2436`).  When an ambiguous launch is followed by a
  failed wait, the lease of a running agent is released: likewise two faults.
* *First drain* (`controller/drain.rs:521`).  A permit given before the lock file
  exists is not fenced by the first drain: the condition `~fresh`.
* *Repeated stop* (`integration/host.rs:249`).  A `Revoke` of a cycle that the host
  has already stopped replaces the acknowledged tombstone by a fresh one before it
  looks whether it can be acknowledged again.  If the task is active by then, or
  the helper dies there, the host is left with an open stop of a cycle that its
  owner has finished with, and refuses every later cycle of the task.  The design
  (`docs/superpowers/specs/2026-10-03-auto-integration-design.md:276`) says of
  `revoked` "Host has acknowledged stop/restoration or target already committed;
  never resume old epoch".  `HostJammed` is what `CycleSettles` excepts.
* *Say beside a re-drive*.  A follow-up that is appended after it looked at the
  integration record leaves a re-driven cycle to be refused at the host behind the
  newer turn; it ends revoked or blocked, and the newer turn's cycle is staged
  after that.
* *A pass overtaken by a turn* (`gc.rs:1191`).  The inventory reads records before
  refs.  A task recorded in between has refs and, to this pass, no record: they
  count as those of a deleted task, and the second look of `apply_branch` reads the
  inventory and not the disk for a task it did not see.  Its delivery pins go, and
  with the mirror's maintenance the commit may.  The design
  (`docs/superpowers/specs/2026-09-10-origin-outbox.md:112`) keeps "**every** delivery
  pin for the task while `retains()` is true".  `OwedKept` and `OpenTaskWhole`
  except `overtaken`; what an operator retries after a pass judged it given up is
  `revived`.  A close that discards a task whose publication was delivered leaves its
  pins without a record until a pass collects them.
* *Retried behind a sweep* (`outbox.rs:1122`).  A sweep or a scan that read a failed
  intent clears the due entry of the one an operator has just retried; it is met
  again when the watcher next starts.  `OwedIsIndexed` excepts `revived`.
* *Ledger behind an intent* (`outbox.rs:836`).  A death between the delivered intent
  and the ledger leaves the older turns that it supersedes retrying until they are
  given up, although the branch contains their commits.
* *Name taken during a removal* (`rooted_fs.rs:11146`).  A file created at a name
  whose removal has reached the quarantine makes every resumption fail with ESTALE
  until that file goes: the removed entry stays in quarantine and the directory's
  evidence stays pending.  `ResidueCleared` excepts it.
* *Rejected, then done* (`controller/store.rs:583`).  "A rejected preparation is final
  for the client, so no retry will ever publish a row behind this receipt."  An
  earlier attempt of the same request that was still waiting for the lock may be
  prepared after the rejection, when the reason for it is gone, and publish.
  `ResultsTrue` speaks of saved rejections, which are final.
* *Error before the row is loaded* (`controller/store.rs:566`).  A failure to lock or
  read is answered as a plain error, not as a resumable one, although a row that was
  published before will be carried out by the leader.
* *Cancelled, then rejected* (`task_client.rs:5375`).  A cancel that took effect and
  died before its result was saved, followed by another command's turn, is saved as
  "task changed before cancel".  `ResultsTrue` says of a rejected cancel nothing
  about the turn it was for.

## 7. Plan

Done, in this order: RunnerSlots, RunnerLog, QueueDispatch, Submission, BatchDag,
HostJob, DrainGate, Outbox with Delivery, HostGc, ControllerRequests, Integration,
OwnedCleanup with Removal; the safety proofs of RunnerSlots, DrainGate, Outbox (with
its refinement), ControllerRequests, BatchDag, Integration, RunnerLog (with its
refinement), HostJob, HostGc, QueueDispatch, OwnedCleanup (with its refinement) and
Submission.

Next modules: **PauseBudget** (the pause windows of `drain.rs` and the deadlines of a
record in `integration/coordinator.rs`, which need a clock), the auxiliary turns of
an integration, **AtomicReplace** (`rooted_fs.rs`), which justifies the atomic
replacements that the other modules assume, and **EventJournal**, whose recovery
uses the removals of OwnedCleanup.

## 8. Not modelled

Durations (except as "a deadline may pass"), text, JSON and paths; SSH beyond
lost and late answers; git beyond refs, pins and heads; the choice among idle
workers; agents beyond "a process group that ends"; operator interaction; and
the parts listed as `not_modelled` in `PROJECT.json`.

Of the parts that are modelled:

* Integration: conflicts and the turns that resolve or verify a merge (Prepare,
  AcceptTurn, Build), pauses and admission budgets, the settlement of a closed task,
  and the reservation of a target branch, which orders the cycles of several tasks
  (for one task the lease of the push at origin decides).  Every turn is assumed to
  produce a commit, and a `git push` to die with its helper.
* ControllerRequests: batches, integrate requests and the bindings of a re-drive,
  conflicts of payload digests, the bootstrap of stores older than the request
  kernel, the close of a first turn that still waits, the pruning of envelopes.
* Outbox: the generation of a ledger, several target branches (they do not
  interact), worker identity beyond "this host or not".
* OwnedCleanup: the contents of a removed directory (erased in one step), probes
  of the file system's capabilities beyond the trace they leave, several names.  An
  inode number is not used again, which is what APFS guarantees.
* HostGc: records of older protocols, warnings, what herdr is told.
