---------------------------- MODULE RunnerSlots ----------------------------
(***************************************************************************)
(* Ownership of queued task turns on the queue owner's machine.            *)
(*                                                                         *)
(* Every `worker` command and every detached `worker runner` is a process  *)
(* that shares one durable queue (queue/state.json), one task record and   *)
(* one runner journal per turn.  A launcher reserves a runner slot on a    *)
(* queue row, spawns a detached runner that carries the reservation token, *)
(* binds the child to the reservation and hands the row over.  A runner    *)
(* takes the row over, claims it, executes the turn under the journal      *)
(* flock, retires the row and starts the oldest parked one.  Reconcile     *)
(* adopts the rows of dead owners and restarts them.  Any process may die  *)
(* between two steps.                                                      *)
(*                                                                         *)
(* One action is one transaction of the code: a mutation under the queue   *)
(* lock, a check under the journal flock, or a spawn.  Covered: client_-   *)
(* state.rs (reservations, park/unpark, adopt, cancel, retire), turn_-     *)
(* runner.rs (claim, run_mode, start_runner_with_reservation) and the      *)
(* reconcile, submit and cancel paths of task_client.rs that touch a row.  *)
(* Not covered here: which worker a claim selects (QueueDispatch),         *)
(* attached runs, drain permits, submission rollback.                      *)
(***************************************************************************)
EXTENDS Integers, FiniteSets, Absence

CONSTANTS
    Jobs,        \* task turns; every turn belongs to a task of its own
    Launchers,   \* processes of the CLI or the controller (submit, reconcile, cancel)
    Runners,     \* identities of detached runner processes, not running at first
    SlotLimit,   \* configured_runner_slots
    ParkAfter,   \* REPLACEMENT_FAILURE_PARK_AFTER
    Tokens,      \* reservation tokens
    MaxFaults,   \* bound: process deaths, failed spawns and runner errors
    Loads        \* bound: what a behaviour starts with, see Load

Procs == Launchers \cup Runners

ASSUME ConstantsAssumption ==
    /\ Launchers \cap Runners = {}
    /\ None \notin Procs
    /\ SlotLimit \in Nat \ {0}
    /\ ParkAfter \in Nat \ {0}
    /\ None \notin Tokens
    /\ MaxFaults \in Nat

ASSUME JobsAssumption == IsFiniteSet(Jobs)

\* A behaviour has some of the turns yet to submit (the others ended before it
\* began), some of the launchers running, and some of the faults already spent:
\* one instance covers many turns with few faults and one turn with many.
Load == [turns : SUBSET Jobs, running : SUBSET Launchers, spent : 0..MaxFaults]

ASSUME LoadsAssumption == Loads \subseteq Load

VARIABLES
    row,      \* the queue row of a turn
    nextId,   \* next queue id
    turn,     \* "new": not submitted, "open": pending, "closed": terminal status
    runner,   \* the task record's runner field
    log,      \* the turn's runner journal and its flock
    pc,       \* where each process stands
    at,       \* the turn a process works on
    tok,      \* the reservation token it reserved or was spawned with
    kid,      \* the child a launcher spawned
    want,     \* the row it expects to find unchanged
    via,      \* which caller entered start_runner_with_reservation
    faults    \* faults so far

vars == <<row, nextId, turn, runner, log, pc, at, tok, kid, want, via, faults>>
local == <<at, tok, kid, want, via>>

-----------------------------------------------------------------------------
(* Data *)

NoRes == [by |-> None, tok |-> None, child |-> None]
NoRow == [st |-> "absent", id |-> 0, owner |-> None, enq |-> None,
          cancel |-> FALSE, res |-> NoRes, fails |-> 0]

Reservation == [by : Procs \cup {None}, tok : Tokens \cup {None}, child : Procs \cup {None}]
Row == [st : {"absent", "waiting", "dispatching", "parked"}, id : Nat,
        owner : Procs \cup {None}, enq : Procs \cup {None}, cancel : BOOLEAN,
        res : Reservation, fails : 0..ParkAfter]
\* used: the journal holds some line; late: it holds an `exited after acceptance`.
Log == [holder : Procs \cup {None}, accepted : BOOLEAN, done : BOOLEAN,
        used : BOOLEAN, late : BOOLEAN]
NoLog == [holder |-> None, accepted |-> FALSE, done |-> FALSE, used |-> FALSE, late |-> FALSE]

LaunchPcs == {"start", "acquired", "ready", "permit", "spawned", "bound",
              "fenced", "park", "failed"}
RunnerPcs == {"claim", "owned", "admit", "exec", "run", "next", "err", "exit"}
OtherPcs  == {"idle", "adopting", "retiring", "finalizing", "dead"}

Queued(j)   == row[j].st # "absent"
Reserved(j) == row[j].res # NoRes
Alive(p)    == pc[p] # "dead"
Idle(p)     == p \in Launchers /\ pc[p] = "idle"

\* A live process is always observed; a dead one counts until the observer has
\* seen it absent for RUNNER_ABSENCE_CONFIRMATION: `seen` is the set of dead
\* processes this observer still finds Unverifiable.
Dead == {p \in Procs : pc[p] = "dead"}
Counts(p, seen) == p # None /\ (Alive(p) \/ p \in seen)
Exited(p, seen) == p \in Dead \ seen

ActingHolder(j, seen) ==
    IF \/ row[j].st = "dispatching"
       \/ row[j].st = "waiting" /\ row[j].owner # row[j].enq
    THEN IF Counts(row[j].owner, seen) THEN row[j].owner ELSE None
    ELSE None

LiveRunnerOfTurn(j, seen) == turn[j] = "open" /\ Counts(runner[j], seen)

\* Distinct live task runners and acting queue holders; the reserver does not
\* count itself when it recovers its own row or is a finishing runner.
Occupants(p, j, exclude, seen) ==
    LET skip    == IF exclude THEN {p} ELSE {}
        runners == {runner[k] : k \in {i \in Jobs : Counts(runner[i], seen)}}
        recovered(k) == /\ k = j /\ ActingHolder(k, seen) = p
                        /\ ~Reserved(k) /\ ~LiveRunnerOfTurn(k, seen)
        holders == {ActingHolder(k, seen) :
                      k \in {i \in Jobs : ActingHolder(i, seen) # None /\ ~recovered(i)}}
    IN  (runners \cup holders) \ skip

\* Each reservation takes up one more slot, whoever made it.
Occupied(p, j, exclude, seen) ==
    Cardinality(Occupants(p, j, exclude, seen)) + Cardinality({k \in Jobs : Reserved(k)})

Goto(p, l) == pc' = [pc EXCEPT ![p] = l]
Park(r)    == [r EXCEPT !.st = "parked", !.owner = None, !.res = NoRes]
Free_Always(j) == TRUE
Free(j)    == log[j].holder = None

\* The process ends: the kernel drops its journal flock and nothing of its
\* memory survives.
Unlocked(p) == [j \in Jobs |-> IF log[j].holder = p THEN [log[j] EXCEPT !.holder = None]
                                                   ELSE log[j]]
Forget(p) == /\ at'   = [at EXCEPT ![p] = None]
             /\ tok'  = [tok EXCEPT ![p] = None]
             /\ kid'  = [kid EXCEPT ![p] = None]
             /\ want' = [want EXCEPT ![p] = NoRow]
             /\ via'  = [via EXCEPT ![p] = "none"]

\* A launcher's command returns; a finishing runner exits.
Return(p) == /\ Goto(p, IF p \in Launchers THEN "idle" ELSE "dead")
             /\ Forget(p)

\* The queue file, the task records, the journals and the processes have their
\* types: what QueueState and the runner journal validate when they are read.
TypeOK ==
    /\ row \in [Jobs -> Row]
    /\ nextId \in Nat
    /\ turn \in [Jobs -> {"new", "open", "closed"}]
    /\ runner \in [Jobs -> Procs \cup {None}]
    /\ log \in [Jobs -> Log]
    /\ pc \in [Procs -> LaunchPcs \cup RunnerPcs \cup OtherPcs]
    /\ at \in [Procs -> Jobs \cup {None}]
    /\ tok \in [Procs -> Tokens \cup {None}]
    /\ kid \in [Procs -> Procs \cup {None}]
    /\ want \in [Procs -> Row]
    /\ via \in [Procs -> {"none", "submit", "replace", "parked"}]
    /\ faults \in 0..MaxFaults

Init ==
    /\ row = [j \in Jobs |-> NoRow]
    /\ nextId = 1
    /\ runner = [j \in Jobs |-> None]
    /\ log = [j \in Jobs |-> NoLog]
    /\ \E load \in Loads :
         /\ turn = [j \in Jobs |-> IF j \in load.turns THEN "new" ELSE "closed"]
         /\ pc = [p \in Procs |-> IF p \in load.running THEN "idle" ELSE "dead"]
         /\ faults = load.spent
    /\ at = [p \in Procs |-> None]
    /\ tok = [p \in Procs |-> None]
    /\ kid = [p \in Procs |-> None]
    /\ want = [p \in Procs |-> NoRow]
    /\ via = [p \in Procs |-> "none"]

-----------------------------------------------------------------------------
(* Launchers: submit, reconcile, cancel *)

\* The tail of `submit`: the row is enqueued under the submitter, the
\* submission intent is cleared, and start_runner is called.
Submit(p, j) ==
    /\ Idle(p) /\ turn[j] = "new"
    /\ turn' = [turn EXCEPT ![j] = "open"]
    /\ row' = [row EXCEPT ![j] = [NoRow EXCEPT !.st = "waiting", !.id = nextId,
                                               !.owner = p, !.enq = p]]
    /\ nextId' = nextId + 1
    /\ Goto(p, "start")
    /\ at' = [at EXCEPT ![p] = j]
    /\ via' = [via EXCEPT ![p] = "submit"]
    /\ UNCHANGED <<runner, log, tok, kid, want, faults>>

\* Reconcile finds a row whose owner is proven exited, takes the journal fence
\* and re-reads the row under it.
AdoptFence(p, j, seen) ==
    /\ Idle(p)
    /\ row[j].st \in {"waiting", "dispatching"}
    /\ row[j].owner # p /\ Exited(row[j].owner, seen)
    /\ Free(j)
    /\ log' = [log EXCEPT ![j].holder = p]
    /\ Goto(p, "adopting")
    /\ at' = [at EXCEPT ![p] = j]
    /\ UNCHANGED <<row, nextId, turn, runner, tok, kid, want, via, faults>>

\* adopt_row looks at the row again only for its state; a dispatch whose journal
\* is complete is finalized by the reconciler itself.
AdoptRow(p) ==
    LET j == at[p] IN
    /\ pc[p] = "adopting"
    /\ IF row[j].st \in {"waiting", "dispatching"}
       THEN /\ row' = [row EXCEPT ![j].owner = p]
            /\ IF row[j].st = "dispatching" /\ log[j].done
               THEN /\ Goto(p, "finalizing")
                    /\ want' = [want EXCEPT ![p] = row'[j]]
                    /\ UNCHANGED <<log, at, tok, kid, via>>
               ELSE log' = Unlocked(p) /\ Return(p)
       ELSE row' = row /\ log' = Unlocked(p) /\ Return(p)
    /\ UNCHANGED <<nextId, turn, runner, faults>>

\* Reconcile clears the record of a runner it has proven dead.
ClearDeadRunner(p, j, seen) ==
    /\ Idle(p)
    /\ Queued(j) /\ row[j].st # "parked" /\ Free(j)
    /\ Exited(runner[j], seen)
    /\ runner' = [runner EXCEPT ![j] = None]
    /\ UNCHANGED <<row, nextId, turn, log, pc, at, tok, kid, want, via, faults>>

\* Reconcile restarts a turn that has no runner and no live foreign owner.
\* A turn with a terminal status is restarted only to drain an acceptance.
Restartable(p, j, seen) ==
    /\ row[j].st \in {"waiting", "dispatching"}
    /\ runner[j] = None
    /\ row[j].owner = p \/ Exited(row[j].owner, seen)
    /\ \/ turn[j] = "open"
       \/ row[j].st = "waiting"
       \/ log[j].accepted /\ ~log[j].done

\* observe_replacement_failure: the diagnostic is in the journal but its runner
\* died before it charged the budget.  The pass goes on to the next row, for the
\* backoff has just begun.
ObserveFailure(p, j, seen) ==
    /\ Idle(p) /\ Restartable(p, j, seen)
    /\ log[j].late /\ row[j].fails = 0
    /\ row' = [row EXCEPT ![j].fails = 1]
    /\ UNCHANGED <<nextId, turn, runner, log, pc, at, tok, kid, want, via, faults>>

\* An operator's pass restarts without looking at the journal.
StartReplacement(p, j, seen) ==
    /\ Idle(p) /\ Restartable(p, j, seen)
    /\ IF row[j].fails >= ParkAfter
       THEN row' = [row EXCEPT ![j] = Park(row[j])] /\ UNCHANGED <<pc, at, via>>
       ELSE /\ Goto(p, "start")
            /\ at' = [at EXCEPT ![p] = j]
            /\ via' = [via EXCEPT ![p] = "replace"]
            /\ row' = row
    /\ UNCHANGED <<nextId, turn, runner, log, tok, kid, want, faults>>

Unparkable(j) ==
    /\ row[j].st = "parked" /\ row[j].fails < ParkAfter
    /\ \A k \in Jobs : row[k].st = "parked" /\ row[k].fails < ParkAfter
                          => row[j].id <= row[k].id

\* unpark_oldest, by reconcile or by a runner that has retired its turn.
UnparkOldest(p, j) ==
    /\ Idle(p) \/ pc[p] = "next"
    /\ Unparkable(j)
    /\ row' = [row EXCEPT ![j].st = "waiting", ![j].owner = p]
    /\ Goto(p, "start")
    /\ at' = [at EXCEPT ![p] = j]
    /\ via' = [via EXCEPT ![p] = "parked"]
    /\ UNCHANGED <<nextId, turn, runner, log, tok, kid, want, faults>>

NothingParked(p) ==
    /\ pc[p] = "next" /\ \A j \in Jobs : ~Unparkable(j)
    /\ Return(p)
    /\ UNCHANGED <<row, nextId, turn, runner, log, faults>>

\* An operator's reconcile clears every restart budget and unparks those rows.
ResetFailures(p) ==
    /\ Idle(p)
    /\ \E j \in Jobs : row[j].fails > 0
    /\ row' = [j \in Jobs |->
                 IF row[j].fails = 0 THEN row[j]
                 ELSE [row[j] EXCEPT !.fails = 0,
                         !.st = IF @ = "parked" THEN "waiting" ELSE @,
                         !.owner = IF row[j].st = "parked" THEN p ELSE @]]
    /\ UNCHANGED <<nextId, turn, runner, log, pc, at, tok, kid, want, via, faults>>

\* Cancellation marks the row and nothing else.
RetainCancel(p, j) ==
    /\ Idle(p) /\ Queued(j) /\ ~row[j].cancel
    /\ row' = [row EXCEPT ![j].cancel = TRUE]
    /\ UNCHANGED <<nextId, turn, runner, log, pc, at, tok, kid, want, via, faults>>

\* Local retirement starts under the journal fence: the status becomes terminal,
\* and the journal completes.  RemoveRow ends it.
BeginRetire(p, j, r) ==
    /\ turn' = [turn EXCEPT ![j] = "closed"]
    /\ log' = [log EXCEPT ![j].holder = p, ![j].done = TRUE, ![j].used = TRUE]
    /\ Goto(p, "retiring")
    /\ at' = [at EXCEPT ![p] = j]
    /\ want' = [want EXCEPT ![p] = r]

\* finish_waiting_cancellation of a cancelled row that is not dispatching.
FinishWaitingCancellation(p, j) ==
    /\ Idle(p)
    /\ row[j].st \in {"waiting", "parked"} /\ row[j].cancel
    /\ Free(j) /\ ~log[j].accepted
    /\ BeginRetire(p, j, row[j])
    /\ UNCHANGED <<row, nextId, runner, tok, kid, via, faults>>

\* record_runner(None), then remove_task_turn_after_terminal: the remembered
\* owner must still own the row unless the row is parked.
Removable(p, j) == \/ row[j].st = "parked"
                   \/ row[j].owner = want[p].owner
                   \/ want[p].st = "parked" /\ row[j].owner = p

RemoveRow(p) ==
    LET j == at[p] IN
    /\ pc[p] \in {"retiring", "finalizing"}
    /\ row' = IF Removable(p, j) THEN [row EXCEPT ![j] = NoRow] ELSE row
    /\ log' = Unlocked(p)
    /\ CASE p \in Launchers \/ via[p] = "parked" -> Return(p)
         [] pc[p] = "retiring"   -> Goto(p, "exit") /\ UNCHANGED local
         [] Removable(p, j)      -> Goto(p, "next") /\ Forget(p)
         [] OTHER                -> Goto(p, "err") /\ UNCHANGED local
    /\ runner' = [runner EXCEPT ![j] = None]
    /\ UNCHANGED <<nextId, turn, faults>>

-----------------------------------------------------------------------------
(* start_runner_with_reservation, by a launcher or a finishing runner *)

\* A reservation of this turn blocks a second one while the reserver, the bound
\* child, the recorded runner or another acting owner may be alive.  A dead
\* reservation is stolen with a fresh token, without a capacity check.
TurnHeld(p, j, seen) ==
    \/ LiveRunnerOfTurn(j, seen)
    \/ ActingHolder(j, seen) \notin {None, p}
    \/ Reserved(j) /\ Counts(row[j].res.by, seen)
    \/ Reserved(j) /\ Counts(row[j].res.child, seen)

Saturated_OneTooMany(p, j, seen) ==
    ~Reserved(j) /\ Occupied(p, j, p \in Runners, seen) > SlotLimit
Saturated(p, j, seen) ==
    ~Reserved(j) /\ Occupied(p, j, p \in Runners, seen) >= SlotLimit

\* Uuid::new_v4: tokens are only compared, so a fresh one is one that nobody
\* remembers.
Fresh(t) == /\ \A p \in Procs : tok[p] # t /\ want[p].res.tok # t
            /\ \A j \in Jobs : row[j].res.tok # t
NewToken == CHOOSE t \in Tokens : Fresh(t)

ReserveSlot(p, seen) ==
    LET j == at[p] IN
    /\ pc[p] = "start" /\ Queued(j)
    /\ \E t \in Tokens : Fresh(t)
    /\ ~TurnHeld(p, j, seen) /\ ~Saturated(p, j, seen)
    /\ row' = [row EXCEPT ![j].res = [by |-> p, tok |-> NewToken, child |-> None]]
    /\ tok' = [tok EXCEPT ![p] = NewToken]
    /\ Goto(p, "acquired")
    /\ UNCHANGED <<nextId, turn, runner, log, at, kid, want, via, faults>>

\* Pending: somebody else is on this turn, the caller returns.  A saturated
\* caller parks the row it has just unparked or submitted.
ReserveRefused(p, seen) ==
    LET j == at[p] IN
    /\ pc[p] = "start" /\ Queued(j)
    /\ \/ TurnHeld(p, j, seen) /\ Return(p)
       \/ /\ ~TurnHeld(p, j, seen) /\ Saturated(p, j, seen)
          /\ IF via[p] = "replace" THEN Return(p) ELSE Goto(p, "park") /\ UNCHANGED local
    /\ UNCHANGED <<row, nextId, turn, runner, log, faults>>

RowRetiredBeforeReserve(p) ==
    /\ pc[p] = "start" /\ ~Queued(at[p])
    /\ Goto(p, "failed")
    /\ UNCHANGED <<row, nextId, turn, runner, log, at, tok, kid, want, via, faults>>

\* `submit` parks only a row that is still waiting, the others park whatever
\* they find; parking always drops the reservation.
ParkSaturated(p) ==
    LET j == at[p] IN
    /\ pc[p] = "park"
    /\ row' = IF \/ row[j].st = "waiting"
                 \/ row[j].st = "dispatching" /\ via[p] = "parked"
              THEN [row EXCEPT ![j] = Park(row[j])] ELSE row
    /\ Return(p)
    /\ UNCHANGED <<nextId, turn, runner, log, faults>>

\* release_runner_slot_locked: only this reserver's childless permit.
Released_Never(p, j) == row
Released(p, j) ==
    IF row[j].res = [by |-> p, tok |-> tok[p], child |-> None]
    THEN [row EXCEPT ![j].res = NoRes] ELSE row

ReadExpected(p) ==
    LET j == at[p] IN
    /\ pc[p] = "acquired"
    /\ IF Queued(j) THEN want' = [want EXCEPT ![p] = row[j]] /\ Goto(p, "ready")
                    ELSE Goto(p, "failed") /\ UNCHANGED want
    /\ UNCHANGED <<row, nextId, turn, runner, log, at, tok, kid, via, faults>>

\* handoff_spawn_admitted.  Before the journal is taken a cancelled row passes;
\* under the flock it passes only if the turn was accepted.
PermitCurrent(p, j) ==
    /\ Queued(j)
    /\ row[j].owner = want[p].owner
    /\ row[j].res = [by |-> p, tok |-> tok[p], child |-> None]
SpawnAdmitted(p, j) == PermitCurrent(p, j) /\ (log[j].accepted \/ ~row[j].cancel)

CheckPermit(p) ==
    LET j == at[p] IN
    /\ pc[p] = "ready"
    /\ Free(j) \/ ~PermitCurrent(p, j)
    /\ IF SpawnAdmitted(p, j)
       THEN Goto(p, "permit") /\ row' = row
       ELSE Goto(p, "failed") /\ row' = Released(p, j)
    /\ UNCHANGED <<nextId, turn, runner, log, at, tok, kid, want, via, faults>>

\* RUNNER_HANDOFF_TIMEOUT passes while another process holds the journal.  Before
\* the spawn the childless permit is released; a bound one stays with the child.
HandoffTimeout(p) ==
    LET j == at[p] IN
    /\ pc[p] \in {"ready", "bound"} /\ ~Free(j)
    /\ row' = Released(p, j)
    /\ Goto(p, "failed")
    /\ UNCHANGED <<nextId, turn, runner, log, at, tok, kid, want, via, faults>>

\* A new process has an identity (pid and start time) that nobody remembers.
NewIdentity(c) ==
    /\ pc[c] = "dead"
    /\ \A j \in Jobs : c \notin {row[j].owner, row[j].res.by, row[j].res.child, runner[j]}
    /\ \A p \in Procs : c \notin {kid[p], want[p].owner, want[p].res.by, want[p].res.child}

Spawn(p, c) ==
    /\ pc[p] = "permit" /\ NewIdentity(c)
    /\ pc' = [pc EXCEPT ![p] = "spawned", ![c] = "claim"]
    /\ at' = [at EXCEPT ![c] = at[p]]
    /\ tok' = [tok EXCEPT ![c] = tok[p]]
    /\ kid' = [kid EXCEPT ![p] = c]
    /\ UNCHANGED <<row, nextId, turn, runner, log, want, via, faults>>

SpawnFails(p) ==
    /\ pc[p] = "permit" /\ faults < MaxFaults
    /\ faults' = faults + 1
    /\ row' = Released(p, at[p])
    /\ Goto(p, "failed")
    /\ UNCHANGED <<nextId, turn, runner, log, at, tok, kid, want, via>>

\* bind_runner_slot_child; the row expected from now on carries the child.
BindChild(p) ==
    LET j == at[p] IN
    /\ pc[p] = "spawned"
    /\ IF row[j].res.tok = tok[p]
       THEN /\ row' = [row EXCEPT ![j].res.child = kid[p]]
            /\ want' = [want EXCEPT ![p].res.child = kid[p]]
            /\ Goto(p, "bound")
       ELSE Goto(p, "failed") /\ UNCHANGED <<row, want>>
    /\ UNCHANGED <<nextId, turn, runner, log, at, tok, kid, via, faults>>

\* The journal fence after the bind: a changed row ends the handoff.
FenceHandoff(p) ==
    LET j == at[p] IN
    /\ pc[p] = "bound"
    /\ Free(j) \/ row[j] # want[p]
    /\ IF row[j] = want[p]
       THEN log' = [log EXCEPT ![j].holder = p] /\ Goto(p, "fenced")
       ELSE log' = log /\ Goto(p, "failed")
    /\ UNCHANGED <<row, nextId, turn, runner, at, tok, kid, want, via, faults>>

\* complete_runner_spawn: three durable writes under the queue lock (adopt the
\* child, record the runner, drop the reservation).  `writes` < 3: the process
\* dies after that many.
HandoffCurrent(p, j) ==
    \/ row[j].res.tok = tok[p] /\ row[j].res.child \in {None, kid[p]}
    \/ row[j].res = NoRes /\ row[j].owner = kid[p]

CompleteSpawn(p, writes) ==
    LET j       == at[p]
        ok      == Queued(j) /\ HandoffCurrent(p, j) /\ row[j].st # "parked"
        adopted == [row[j] EXCEPT !.owner = kid[p],
                      !.res = IF @ = NoRes THEN @ ELSE [@ EXCEPT !.child = kid[p]]]
    IN
    /\ pc[p] = "fenced"
    /\ log' = Unlocked(p)
    /\ \/ /\ ~ok /\ writes = 3
          /\ Goto(p, "failed")
          /\ UNCHANGED <<row, runner, at, tok, kid, want, via, faults>>
       \/ /\ ok
          /\ row' = [row EXCEPT ![j] = IF writes = 3 THEN [adopted EXCEPT !.res = NoRes]
                                                     ELSE adopted]
          /\ runner' = IF writes >= 2 THEN [runner EXCEPT ![j] = kid[p]] ELSE runner
          /\ IF writes = 3
             THEN Return(p) /\ UNCHANGED faults
             ELSE /\ faults < MaxFaults /\ faults' = faults + 1
                  /\ Goto(p, "dead") /\ Forget(p)
    /\ UNCHANGED <<nextId, turn>>

\* A failed start.  Only a parked row's caller compensates: under the journal
\* fence it abandons an unaccepted turn it still owns and nobody is bound to.
StartFailed(p) ==
    LET j == at[p] IN
    /\ pc[p] = "failed"
    /\ IF /\ via[p] = "parked" /\ Free(j) /\ ~log[j].accepted
          /\ row[j].st = "waiting" /\ row[j].owner = p /\ row[j].res.child = None
       THEN /\ row' = [row EXCEPT ![j].cancel = TRUE]
            /\ BeginRetire(p, j, row'[j])
            /\ UNCHANGED <<tok, kid, via>>
       ELSE Return(p) /\ UNCHANGED <<row, turn, log>>
    /\ UNCHANGED <<nextId, runner, faults>>

-----------------------------------------------------------------------------
(* The detached runner: claim, execute, retire *)

Quiet == UNCHANGED <<nextId, faults>>

\* take_over_reserved_slot.  A live foreign owner makes the runner wait; the
\* row of a dead one is adopted; everything else revokes the token.
TokenCurrent_AnyToken(c, j, seen) ==
    row[j].res.child \in {None, c} \/ ~Counts(row[j].res.child, seen)
TokenCurrent(c, j, seen) ==
    /\ row[j].res.tok = tok[c]
    /\ row[j].res.child \in {None, c} \/ ~Counts(row[j].res.child, seen)

TakeOver(c, seen) ==
    LET j == at[c] IN
    /\ pc[c] = "claim"
    /\ \/ /\ TokenCurrent(c, j, seen) /\ row[j].owner \notin {None, c}
          /\ ~Counts(row[j].owner, seen)
          /\ row' = [row EXCEPT ![j].owner = c] /\ Goto(c, "owned")
       \/ /\ row[j].owner = c /\ (TokenCurrent(c, j, seen) \/ ~Reserved(j))
          /\ row' = row /\ Goto(c, "owned")
       \/ /\ ~(TokenCurrent(c, j, seen) /\ row[j].owner # None)
          /\ ~(row[j].owner = c /\ ~Reserved(j))
          /\ row' = row /\ Goto(c, "exit")
    /\ UNCHANGED <<turn, runner, log, at, tok, kid, want, via>> /\ Quiet

\* ADOPTION_WAIT passes while a live owner keeps the row.  It is longer than the
\* parent's RUNNER_HANDOFF_TIMEOUT: to give up on a parent that is still in its
\* handoff is a fault.
AdoptionTimeout(c, seen) ==
    LET j == at[c] IN
    /\ pc[c] = "claim" /\ TokenCurrent(c, j, seen)
    /\ row[j].owner # c /\ Counts(row[j].owner, seen)
    /\ \/ faults < MaxFaults /\ faults' = faults + 1
       \/ (\A p \in Procs : kid[p] # c) /\ faults' = faults
    /\ Goto(c, "exit")
    /\ UNCHANGED <<row, nextId, turn, runner, log, at, tok, kid, want, via>>

\* require_runner_entry, checked before and after the journal flock is taken.
RunnerEntry(c, j) == /\ row[j].owner = c
                     /\ ~Reserved(j) \/ row[j].res.tok = tok[c]

\* The owner looks at its row under the journal: a finished journal is
\* finalized, an accepted turn is resumed without admission, a cancelled one is
\* retired here, a waiting one goes to admission.
InspectOwned(c) ==
    LET j == at[c] IN
    /\ pc[c] = "owned" /\ row[j].owner = c
    /\ \/ /\ ~RunnerEntry(c, j)
          /\ Goto(c, "exit") /\ UNCHANGED <<row, turn, log, at, want>>
       \/ /\ RunnerEntry(c, j) /\ Free(j)
          /\ log[j].done \/ log[j].accepted \/ row[j].st = "dispatching"
          /\ row' = IF log[j].accepted /\ ~log[j].done
                    THEN [row EXCEPT ![j].st = "dispatching"] ELSE row
          /\ Goto(c, "exec") /\ UNCHANGED <<turn, log, at, want>>
       \/ /\ RunnerEntry(c, j) /\ Free(j)
          /\ ~log[j].done /\ ~log[j].accepted /\ row[j].st = "waiting"
          /\ row' = row
          /\ IF row[j].cancel THEN BeginRetire(c, j, row[j])
             ELSE Goto(c, "admit") /\ UNCHANGED <<turn, log, at, want>>
    /\ UNCHANGED <<runner, tok, kid, via>> /\ Quiet

\* The row changed hands since the takeover: a cancelled unaccepted row is
\* retired on its owner's behalf, a waiting one is waited for again.
InspectForeign(c) ==
    LET j == at[c] IN
    /\ pc[c] = "owned" /\ row[j].owner # c
    /\ IF Queued(j) /\ row[j].cancel /\ row[j].st # "dispatching" /\ Free(j) /\ ~log[j].accepted
       THEN BeginRetire(c, j, row[j])
       ELSE /\ Goto(c, IF row[j].st = "waiting" /\ ~row[j].cancel THEN "claim" ELSE "exit")
            /\ UNCHANGED <<turn, log, at, want>>
    /\ UNCHANGED <<row, runner, tok, kid, via>> /\ Quiet

\* claim_task_turn under the queue lock.
Claim(c) ==
    LET j == at[c] IN
    /\ pc[c] = "admit"
    /\ row[j].st = "waiting" /\ row[j].owner = c /\ ~row[j].cancel
    /\ row' = [row EXCEPT ![j].st = "dispatching"]
    /\ Goto(c, "exec")
    /\ UNCHANGED <<turn, runner, log, at, tok, kid, want, via>> /\ Quiet

\* No worker admits the turn: the loop starts over, or a turn that does not wait
\* for capacity is abandoned.
ClaimBlocked(c) ==
    LET j == at[c] IN
    /\ pc[c] = "admit"
    /\ \/ Goto(c, "claim") /\ UNCHANGED <<turn, log, at, want>>
       \/ /\ row[j].owner = c /\ Free(j) /\ ~log[j].accepted
          /\ BeginRetire(c, j, row[j])
    /\ UNCHANGED <<row, runner, tok, kid, via>> /\ Quiet

\* `execute` takes the journal for good.  A cancelled turn the host does not know
\* yet is retired instead of submitted.
OpenJournal(c) ==
    LET j == at[c] IN
    /\ pc[c] = "exec"
    /\ \/ ~RunnerEntry(c, j) /\ Goto(c, "err") /\ UNCHANGED <<turn, log, at, want>>
       \/ /\ RunnerEntry(c, j) /\ Free(j)
          /\ \/ /\ log[j].done
                /\ log' = [log EXCEPT ![j].holder = c]
                /\ want' = [want EXCEPT ![c] = row[j]]
                /\ Goto(c, "finalizing") /\ UNCHANGED <<turn, at>>
             \/ /\ ~log[j].done
                /\ log' = [log EXCEPT ![j].holder = c]
                /\ Goto(c, "run") /\ UNCHANGED <<turn, at, want>>
             \/ /\ ~log[j].done /\ ~log[j].accepted /\ row[j].cancel
                /\ BeginRetire(c, j, row[j])
    /\ UNCHANGED <<row, runner, tok, kid, via>> /\ Quiet

\* The worker accepts the turn and the acceptance is journalled.
Accept(c) ==
    LET j == at[c] IN
    /\ pc[c] = "run" /\ ~log[j].accepted
    /\ log' = [log EXCEPT ![j].accepted = TRUE, ![j].used = TRUE]
    /\ UNCHANGED <<row, turn, runner, pc, at, tok, kid, want, via>> /\ Quiet

\* The turn ends on the worker, its log is drained and its result imported.
Finish(c) ==
    LET j == at[c] IN
    /\ pc[c] = "run" /\ log[j].accepted
    /\ log' = [log EXCEPT ![j].done = TRUE]
    /\ turn' = [turn EXCEPT ![j] = "closed"]
    /\ want' = [want EXCEPT ![c] = [NoRow EXCEPT !.st = "dispatching", !.owner = c]]
    /\ Goto(c, "finalizing")
    /\ UNCHANGED <<row, runner, at, tok, kid, via>> /\ Quiet

RunError(c) ==
    /\ pc[c] = "run" /\ faults < MaxFaults
    /\ faults' = faults + 1
    /\ log' = Unlocked(c)
    /\ Goto(c, "err")
    /\ UNCHANGED <<row, nextId, turn, runner, at, tok, kid, want, via>>

\* run_mode's error branch: under the journal, and only while it still owns the
\* row, the runner reverts an unaccepted dispatch and clears itself.
ErrorCleanup(c) ==
    LET j == at[c] IN
    /\ pc[c] = "err"
    /\ IF Free(j) /\ row[j].owner = c
       THEN /\ \/ row' = row
               \/ /\ row[j].st = "dispatching" /\ ~log[j].accepted
                  /\ row' = [row EXCEPT ![j].st = "waiting"]
            /\ runner' = [runner EXCEPT ![j] = None]
       ELSE UNCHANGED <<row, runner>>
    /\ Goto(c, "exit")
    /\ UNCHANGED <<turn, log, at, tok, kid, want, via>> /\ Quiet

\* The streak of a row's restart budget; beyond ParkAfter it makes no difference.
Streak(n) == IF n > ParkAfter THEN ParkAfter ELSE n

\* The early-exit diagnostic.  A journal that already holds a line is taken for
\* an accepted one and charges the row's restart budget, unless the runner dies
\* between the two writes.
ExitRunner(c) ==
    LET j      == at[c]
        charge == log[j].used /\ Queued(j)
    IN
    /\ pc[c] = "exit"
    /\ log' = IF Free(j) THEN [log EXCEPT ![j].used = TRUE, ![j].late = @ \/ log[j].used] ELSE log
    /\ \/ /\ Free(j) /\ charge /\ faults' = faults
          /\ \E n \in {1, row[j].fails + 1} : row' = [row EXCEPT ![j].fails = Streak(n)]
       \/ /\ Free(j) /\ charge /\ faults < MaxFaults /\ faults' = faults + 1
          /\ row' = row
       \/ ~(Free(j) /\ charge) /\ row' = row /\ faults' = faults
    /\ Goto(c, "dead") /\ Forget(c)
    /\ UNCHANGED <<nextId, turn, runner>>

-----------------------------------------------------------------------------
(* A process dies between two of its steps. *)
Crash(p) ==
    /\ Alive(p) /\ faults < MaxFaults
    /\ faults' = faults + 1
    /\ log' = Unlocked(p)
    /\ Goto(p, "dead") /\ Forget(p)
    /\ UNCHANGED <<row, nextId, turn, runner>>

Launch(p) ==
    \/ RowRetiredBeforeReserve(p) \/ ParkSaturated(p) \/ ReadExpected(p)
    \/ CheckPermit(p) \/ HandoffTimeout(p) \/ SpawnFails(p) \/ BindChild(p) \/ FenceHandoff(p)
    \/ StartFailed(p) \/ RemoveRow(p) \/ NothingParked(p)
    \/ \E c \in Runners : Spawn(p, c)
    \/ \E w \in 1..3 : CompleteSpawn(p, w)
    \/ \E seen \in SUBSET Dead : ReserveSlot(p, seen) \/ ReserveRefused(p, seen)
    \/ \E j \in Jobs : UnparkOldest(p, j)

Run(c) ==
    \/ InspectOwned(c) \/ InspectForeign(c) \/ Claim(c) \/ ClaimBlocked(c)
    \/ OpenJournal(c) \/ Accept(c) \/ Finish(c) \/ RunError(c)
    \/ ErrorCleanup(c) \/ ExitRunner(c)
    \/ \E seen \in SUBSET Dead : TakeOver(c, seen) \/ AdoptionTimeout(c, seen)

Reconcile(p) ==
    \/ AdoptRow(p) \/ ResetFailures(p)
    \/ \E j \in Jobs : FinishWaitingCancellation(p, j)
    \/ \E j \in Jobs, seen \in SUBSET Dead :
         \/ AdoptFence(p, j, seen) \/ ClearDeadRunner(p, j, seen)
         \/ ObserveFailure(p, j, seen) \/ StartReplacement(p, j, seen)

Command(p) == \E j \in Jobs : Submit(p, j) \/ RetainCancel(p, j)

Next ==
    \/ \E p \in Procs : Launch(p) \/ Crash(p)
    \/ \E p \in Launchers : Command(p) \/ Reconcile(p)
    \/ \E c \in Runners : Run(c)

Spec == Init /\ [][Next]_vars

\* A live process keeps taking its steps.  A reconcile pass tries each of its
\* repairs on every row, and passes repeat (controller ticks, `task wait`), so a
\* kind of repair that keeps becoming possible is taken, for some row.  A dead process is eventually
\* confirmed absent (seen = {}), and a worker admits a waiting turn eventually.
Fairness ==
    /\ \A p \in Procs : WF_vars(Launch(p)) /\ SF_vars(ReserveSlot(p, {}))
    /\ \A c \in Runners : WF_vars(Run(c)) /\ SF_vars(Claim(c))
    /\ \A p \in Launchers :
         /\ WF_vars(AdoptRow(p))
         /\ SF_vars(\E j \in Jobs : UnparkOldest(p, j))
         /\ SF_vars(\E j \in Jobs : FinishWaitingCancellation(p, j))
         /\ SF_vars(\E j \in Jobs : AdoptFence(p, j, {}))
         /\ SF_vars(\E j \in Jobs : ClearDeadRunner(p, j, {}))
         /\ SF_vars(\E j \in Jobs : StartReplacement(p, j, {}))

FairSpec == Spec /\ Fairness

-----------------------------------------------------------------------------
(* Properties *)

\* The runners that may still execute a turn: those that own its row or carry
\* its current reservation token.
Working == {"claim", "owned", "admit", "exec", "run"}
Authorised(j) ==
    {c \in Runners : /\ pc[c] \in Working
                     /\ at[c] = j
                     /\ row[j].owner = c \/ row[j].res.tok = tok[c]}

\* Never two runners for one turn: whatever launchers race, whoever dies and
\* whichever permit is stolen, at most one live runner owns the row or carries
\* the token that reserve_runner_slot made current.
OneRunnerPerTurn ==
    \A j \in Jobs : \A c, d \in Authorised(j) : c = d

\* The runner slots are a ceiling: the runners that may execute some turn never
\* outnumber configured_runner_slots, although a permit is counted before the
\* runner exists and after its reserver died (occupied_runner_slots_locked).
WithinSlots == Cardinality(UNION {Authorised(j) : j \in Jobs}) <= SlotLimit

\* A runner that submits or drains a turn still has a row to retire, and nobody
\* else may start on it: not even after a late park_row or adopt_row took the
\* row from under it.
ExecutorAlone ==
    \A c \in Runners : pc[c] = "run" => /\ Queued(at[c])
                                        /\ Authorised(at[c]) \subseteq {c}

Settled(j) == ~Queued(j) \/ (row[j].st = "parked" /\ row[j].fails >= ParkAfter)

\* A permit bound to a dead child whose reserver lives on: reserve_runner_slot
\* answers Pending until that process (the controller's leader) exits.
Stranded(j) == /\ Reserved(j) /\ row[j].res.child \in Dead
               /\ Alive(row[j].res.by)

\* A cancelled dispatch that no worker accepted: finish_waiting_cancellation
\* skips dispatching rows and handoff_spawn_admitted refuses a replacement.
CancelOrphan(j) == row[j].st = "dispatching" /\ row[j].cancel /\ ~log[j].accepted

\* While some process reconciles, every queued turn is retired or parked with
\* its restart budget spent, whatever runners and launchers die, unless it
\* falls into one of the two holes above.
TurnSettles ==
    [](\E p \in Launchers : Alive(p)) =>
        \A j \in Jobs : Queued(j) ~> (Settled(j) \/ Stranded(j) \/ CancelOrphan(j))
=============================================================================
