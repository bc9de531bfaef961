------------------------------ MODULE HostJob ------------------------------
(***************************************************************************)
(* One worker Mac: the leases of its execution slots (lease.rs), the       *)
(* acceptance, query, cancellation and resolution of jobs (job_service.rs) *)
(* and the detached supervisor that runs a turn's agent (supervisor.rs).   *)
(* A job is one turn of a task.                                            *)
(*                                                                         *)
(* Requests are helper processes started over SSH; supervisors outlive     *)
(* them.  Both may die between any two writes.  Two locks matter.  The     *)
(* admission lock of a job is taken after the installation lock of the     *)
(* host and keeps it, so `lock` is one lock for the whole host.  The       *)
(* supervisor lock of a job guards its status; it is inherited by the      *)
(* supervisor, which gives it up once Running is durable.                  *)
(***************************************************************************)
EXTENDS Naturals, FiniteSets

CONSTANTS
    Jobs, Requests, Supervisors, None,
    Tasks, TaskOf,   \* the task each job is a turn of
    First,           \* the jobs that are the first turn of their task
    MaxSlots,        \* the largest configured number of slots
    ClosesDone,      \* the tasks with close policy `done`
    Kinds,           \* the kinds of request that arrive
    MaxFaults,       \* bound: faults
    Loads            \* bound: what a behaviour starts with, see Load

ASSUME HostAssumption ==
    /\ TaskOf \in [Jobs -> Tasks] /\ First \subseteq Jobs /\ ClosesDone \subseteq Tasks
    /\ None \notin Requests \cup Supervisors \cup Jobs /\ Requests \cap Supervisors = {}
    /\ MaxSlots \in Nat \ {0} /\ MaxFaults \in Nat
    /\ Kinds \subseteq {"submit", "query", "cancel", "resolve"}

\* A process dies or the Mac reboots, a launch, a publication or a wait fails, a
\* preparation comes late.
FaultKinds == {"request", "supervisor", "reboot", "launch", "publish", "wait", "late"}
\* The faults that may yet happen: how many, and of which kinds.
Faults == [left : 0 .. MaxFaults, kinds : SUBSET FaultKinds]
\* A behaviour has some of the jobs yet to run, the others were given up before
\* it began, and meets some of the faults.
Load == [jobs : SUBSET Jobs, faults : Faults]

ASSUME LoadsAssumption == Loads \subseteq Load

VARIABLES
    disp,      \* the immutable index entry of a job
    st,        \* status.json; "none": there is no job directory
    idn,       \* the supervisor identity in the status
    child,     \* the status records the child's identity
    payload,   \* execution.json exists
    marker,    \* cleanup-complete.json exists
    lease,     \* the slot a job holds
    slots,     \* the configured number of slots
    task,      \* the task's status: its state and its latest turn
    proc,      \* what each process is doing
    lock, sup, \* the holders of the host's and of each job's lock
    agents,    \* the supervisors whose agent is running
    faults     \* the faults that may yet happen

durable == <<disp, st, idn, child, payload, marker, lease, slots, task>>
vars == <<durable, proc, lock, sup, agents, faults>>

NoSlot   == 0
Slots    == 1 .. MaxSlots
Procs    == Requests \cup Supervisors
Idle     == [pc |-> "idle", kind |-> "none", job |-> None, turn |-> FALSE]
Terminal == {"succeeded", "failed", "lost", "cancelled"}

Init ==
    /\ \E load \in Loads :
         /\ disp = [j \in Jobs |-> IF j \in load.jobs THEN "none" ELSE "abandoned"]
         /\ faults = load.faults
    /\ st = [j \in Jobs |-> "none"]
    /\ idn = [j \in Jobs |-> None] /\ child = [j \in Jobs |-> FALSE]
    /\ payload = [j \in Jobs |-> FALSE] /\ marker = [j \in Jobs |-> FALSE]
    /\ lease = [j \in Jobs |-> NoSlot] /\ slots = MaxSlots
    /\ task = [t \in Tasks |-> [state |-> "none", turn |-> None]]
    /\ proc = [p \in Procs |-> Idle] /\ lock = None /\ sup = [j \in Jobs |-> None]
    /\ agents = {}

\* The turn of job j is the active one of its task and has not ended.
Pending(j) == task[TaskOf[j]] = [state |-> "active", turn |-> j]
\* A live process: a supervisor that has ended is never started again.
Alive(s)   == s \in Supervisors /\ proc[s].pc \notin {"idle", "dead"}
\* Accepted, and no supervisor has recorded itself.
Identityless(j) == st[j] = "accepted" /\ idn[j] = None

Goto(p, l)  == proc' = [proc EXCEPT ![p].pc = l]
\* A request ends; a supervisor process is gone.
End(p)      == proc' = [proc EXCEPT ![p] = IF p \in Requests THEN Idle ELSE [@ EXCEPT !.pc = "dead"]]
Drop(p)     == lock' = (IF lock = p THEN None ELSE lock)
DropSup(p)  == sup' = [j \in Jobs |-> IF sup[j] = p THEN None ELSE sup[j]]
At(p, l)    == proc[p].pc = l
Fault(k)    == k \in faults.kinds /\ faults.left > 0 /\ faults' = [faults EXCEPT !.left = @ - 1]

-----------------------------------------------------------------------------
(* Leases *)

SameTask(j, k) == TaskOf[j] = TaskOf[k]
FreeSlots == {n \in 1 .. slots : \A j \in Jobs : lease[j] # n}
LowestFree == CHOOSE n \in FreeSlots : \A m \in FreeSlots : n <= m

\* acquire: under the admission and capacity locks.  An accepted job, an
\* abandoned one and one that holds a lease change nothing.
Acquire(j) ==
    /\ lock = None /\ disp[j] = "none" /\ lease[j] = NoSlot
    /\ task[TaskOf[j]].state # "closed"
    /\ \A k \in Jobs : SameTask(j, k) => lease[k] = NoSlot
    /\ FreeSlots # {}
    /\ lease' = [lease EXCEPT ![j] = LowestFree]
    /\ UNCHANGED <<disp, st, idn, child, payload, marker, slots, task, proc, lock, sup, agents, faults>>

\* set_slot_count refuses to remove a slot that is in use.
SetSlotCount(n) ==
    /\ lock = None /\ n # slots
    /\ \A j \in Jobs : lease[j] <= n
    /\ slots' = n
    /\ UNCHANGED <<disp, st, idn, child, payload, marker, lease, task, proc, lock, sup, agents, faults>>

\* task prepare: the workspace, then the active status.  It needs the lease
\* and does not look at the job's index entry.
PrepareTask(j) ==
    /\ lock = None /\ j \in First /\ lease[j] # NoSlot
    /\ task[TaskOf[j]].state \in {"none", "open"}
    /\ task' = [task EXCEPT ![TaskOf[j]] = [state |-> "active", turn |-> j]]

\* The client prepares the first turn before it submits it.
Prepare(j) ==
    /\ disp[j] = "none" /\ PrepareTask(j)
    /\ UNCHANGED <<disp, st, idn, child, payload, marker, lease, slots, proc, lock, sup, agents, faults>>

\* The helper of a preparation whose client gave up gets the lock late.
LatePrepare(j) ==
    /\ disp[j] # "none" /\ PrepareTask(j) /\ Fault("late")
    /\ UNCHANGED <<disp, st, idn, child, payload, marker, lease, slots, proc, lock, sup, agents>>

\* close: refused while a turn is active or a lease owns the workspace.
Close(t) ==
    /\ lock = None /\ task[t].state = "open"
    /\ \A j \in Jobs : TaskOf[j] = t => lease[j] = NoSlot
    /\ task' = [task EXCEPT ![t].state = "closed"]
    /\ UNCHANGED <<disp, st, idn, child, payload, marker, lease, slots, proc, lock, sup, agents, faults>>

-----------------------------------------------------------------------------
(* Requests: the entry points *)

\* Every request starts with the admission lock of its job.  cancel_task
\* first looks for the active turn and its lease.
Arrive(r, k, j) ==
    /\ At(r, "idle") /\ lock = None
    /\ k = "cancel" => Pending(j) /\ lease[j] # NoSlot
    /\ lock' = r
    /\ proc' = [proc EXCEPT ![r] = [pc |-> k, kind |-> k, job |-> j, turn |-> FALSE]]
    /\ UNCHANGED <<durable, sup, agents, faults>>

\* submit_turn_inner for a job without a disposition: the first turn must be
\* prepared, a follow-up makes the open task active here.
Submit(r) ==
    LET j == proc[r].job  t == TaskOf[j] IN
    /\ At(r, "submit") /\ disp[j] = "none" /\ lease[j] # NoSlot
    /\ \/ Pending(j) /\ task' = task
       \/ /\ j \notin First /\ task[t].state = "open"
          /\ task' = [task EXCEPT ![t] = [state |-> "active", turn |-> j]]
    /\ Goto(r, "publish")
    /\ UNCHANGED <<disp, st, idn, child, payload, marker, lease, slots, lock, sup, agents, faults>>

\* The job directory is built in a stage and renamed into place; a final
\* directory an earlier attempt left is taken as it is.
PublishFinal(r) ==
    LET j == proc[r].job IN
    /\ At(r, "publish")
    /\ IF st[j] = "none" THEN /\ st' = [st EXCEPT ![j] = "accepted"]
                              /\ payload' = [payload EXCEPT ![j] = TRUE]
                         ELSE UNCHANGED <<st, payload>>
    /\ Goto(r, "index")
    /\ UNCHANGED <<disp, idn, child, marker, lease, slots, task, lock, sup, agents, faults>>

\* record_accepted_after: acceptance is durable.  A submission goes on under
\* the admission lock; a query that repaired the index starts afresh.
RecordAccepted(r) ==
    LET j == proc[r].job IN
    /\ At(r, "index")
    /\ disp' = [disp EXCEPT ![j] = "accepted"]
    /\ IF proc[r].kind = "submit" THEN Goto(r, "query") /\ lock' = lock
                                  ELSE Goto(r, "again") /\ Drop(r)
    /\ UNCHANGED <<st, idn, child, payload, marker, lease, slots, task, sup, agents, faults>>

Again(r) ==
    /\ At(r, "again") /\ lock = None
    /\ lock' = r /\ Goto(r, "query")
    /\ UNCHANGED <<durable, sup, agents, faults>>

\* What a request does with a job depends on its index entry.  A replayed
\* submission and a resolution of an accepted job are queries of it; a final
\* directory that was never indexed is indexed now.
Unindexed(r) ==
    LET j == proc[r].job IN
    /\ \/ At(r, "query") \/ At(r, "resolve")
    /\ disp[j] = "none" /\ lease[j] # NoSlot /\ st[j] = "accepted"
    /\ Goto(r, "index")
    /\ UNCHANGED <<durable, lock, sup, agents, faults>>

Accepted(r) ==
    LET j == proc[r].job IN
    /\ At(r, "submit") \/ At(r, "resolve")
    /\ disp[j] = "accepted"
    /\ At(r, "submit") => lease[j] = NoSlot \/ st[j] \in Terminal \/ Identityless(j)
    /\ Goto(r, "query")
    /\ UNCHANGED <<durable, lock, sup, agents, faults>>

\* The request answers and ends: nothing to do, or refused.
Refused(r) ==
    LET j == proc[r].job  t == TaskOf[j] IN
    /\ \/ /\ At(r, "submit")
          /\ \/ disp[j] = "abandoned"
             \/ disp[j] = "accepted" /\ lease[j] # NoSlot /\ st[j] \notin Terminal /\ ~Identityless(j)
             \/ disp[j] = "none" /\ lease[j] = NoSlot
             \/ disp[j] = "none" /\ ~Pending(j) /\ ~(j \notin First /\ task[t].state = "open")
       \/ /\ At(r, "query")
          /\ \/ disp[j] = "abandoned"
             \/ disp[j] = "none" /\ (lease[j] = NoSlot \/ st[j] = "none")
             \/ disp[j] = "accepted" /\ (lease[j] = NoSlot \/ sup[j] # None)
       \/ /\ At(r, "cancel")
          /\ disp[j] # "accepted" \/ lease[j] = NoSlot \/ sup[j] # None
    /\ End(r) /\ Drop(r)
    /\ UNCHANGED <<durable, sup, agents, faults>>

-----------------------------------------------------------------------------
(* Query of an accepted job: status_from_accepted_after *)

\* An accepted job nobody supervises is launched.
TakeLaunch(r) ==
    LET j == proc[r].job IN
    /\ At(r, "query") /\ disp[j] = "accepted" /\ lease[j] # NoSlot /\ sup[j] = None
    /\ Identityless(j)
    /\ sup' = [sup EXCEPT ![j] = r] /\ Drop(r) /\ Goto(r, "launch")
    /\ UNCHANGED <<durable, agents, faults>>

\* The supervisor inherits the lock with its descriptor.
Launch(r, s) ==
    LET j == proc[r].job IN
    /\ At(r, "launch") /\ s \in Supervisors /\ At(s, "idle")
    /\ sup' = [sup EXCEPT ![j] = s]
    /\ proc' = [proc EXCEPT ![r] = Idle,
                            ![s] = [pc |-> "start", kind |-> "supervise", job |-> j, turn |-> TRUE]]
    /\ UNCHANGED <<durable, lock, agents, faults>>

LaunchFails(r) ==
    /\ At(r, "launch") /\ Fault("launch")
    /\ End(r) /\ DropSup(r)
    /\ UNCHANGED <<durable, lock, agents>>

\* A job whose status is terminal and whose lease is still there.
TakeRecover(r) ==
    LET j == proc[r].job IN
    /\ At(r, "query") \/ At(r, "cancel")
    /\ disp[j] = "accepted" /\ lease[j] # NoSlot /\ sup[j] = None
    /\ st[j] \in Terminal
    /\ sup' = [sup EXCEPT ![j] = r]
    /\ proc' = [proc EXCEPT ![r].pc = "recover", ![r].turn = payload[j]]
    /\ UNCHANGED <<durable, lock, agents, faults>>

TakeOrphan_TrustsLock(r) ==
    LET j == proc[r].job IN
    /\ At(r, "query") /\ disp[j] = "accepted" /\ lease[j] # NoSlot /\ sup[j] = None
    /\ st[j] \notin Terminal /\ idn[j] # None
    /\ sup' = [sup EXCEPT ![j] = r] /\ Drop(r) /\ Goto(r, "kill")
    /\ UNCHANGED <<durable, agents, faults>>

\* The recorded supervisor is observed absent: an orphan.
TakeOrphan(r) ==
    LET j == proc[r].job IN
    /\ At(r, "query") /\ disp[j] = "accepted" /\ lease[j] # NoSlot /\ sup[j] = None
    /\ st[j] \notin Terminal /\ idn[j] # None /\ ~Alive(idn[j])
    /\ sup' = [sup EXCEPT ![j] = r] /\ Drop(r) /\ Goto(r, "kill")
    /\ UNCHANGED <<durable, agents, faults>>

\* The recorded supervisor is live: the job is being run.
Supervised(r) ==
    LET j == proc[r].job IN
    /\ At(r, "query") /\ disp[j] = "accepted" /\ lease[j] # NoSlot /\ sup[j] = None
    /\ st[j] \notin Terminal /\ idn[j] # None /\ Alive(idn[j])
    /\ End(r) /\ Drop(r)
    /\ UNCHANGED <<durable, sup, agents, faults>>

-----------------------------------------------------------------------------
(* Cancellation *)

\* Without a child there is nothing to signal and admission is kept; with one
\* it is dropped while the group is terminated.
TakeCancel(r) ==
    LET j == proc[r].job IN
    /\ At(r, "cancel") /\ disp[j] = "accepted" /\ lease[j] # NoSlot /\ sup[j] = None
    /\ st[j] \notin Terminal
    /\ sup' = [sup EXCEPT ![j] = r]
    /\ IF child[j] THEN Drop(r) /\ Goto(r, "kill") ELSE lock' = lock /\ Goto(r, "end")
    /\ UNCHANGED <<durable, agents, faults>>

Kill_Skipped(r) ==
    /\ At(r, "kill")
    /\ Goto(r, IF proc[r].kind = "cancel" THEN "end" ELSE "strip")
    /\ UNCHANGED <<durable, lock, sup, agents, faults>>

\* terminate_exact_recorded_group: the recorded child's group is gone.  The
\* orphan path then reads the turn section and removes the payload.
Kill(r) ==
    LET j == proc[r].job IN
    /\ At(r, "kill")
    /\ agents' = IF child[j] THEN agents \ {idn[j]} ELSE agents
    /\ Goto(r, IF proc[r].kind = "cancel" THEN "end" ELSE "strip")
    /\ UNCHANGED <<durable, lock, sup, faults>>

StripOrphan(r) ==
    LET j == proc[r].job IN
    /\ At(r, "strip")
    /\ payload' = [payload EXCEPT ![j] = FALSE]
    /\ proc' = [proc EXCEPT ![r].pc = "end", ![r].turn = payload[j]]
    /\ UNCHANGED <<disp, st, idn, child, marker, lease, slots, task, lock, sup, agents, faults>>

\* The terminal status: Cancelled by a cancellation, else Lost.
EndJob(r) ==
    LET j == proc[r].job IN
    /\ At(r, "end")
    /\ st' = [st EXCEPT ![j] = IF proc[r].kind = "cancel" THEN "cancelled" ELSE "lost"]
    /\ proc' = [proc EXCEPT ![r].pc = "tell",
                            ![r].turn = IF proc[r].kind = "cancel" THEN payload[j] ELSE @]
    /\ UNCHANGED <<disp, idn, child, payload, marker, lease, slots, task, lock, sup, agents, faults>>

-----------------------------------------------------------------------------
(* Resolution of a submission whose answer was lost *)

\* No acceptance is found: the job id is spent, whoever asks next.
Abandon(r) ==
    LET j == proc[r].job IN
    /\ At(r, "resolve")
    /\ \/ disp[j] = "abandoned"
       \/ disp[j] = "none" /\ (lease[j] = NoSlot \/ st[j] = "none")
    /\ disp' = [disp EXCEPT ![j] = "abandoned"]
    /\ Goto(r, "sweep")
    /\ UNCHANGED <<st, idn, child, payload, marker, lease, slots, task, lock, sup, agents, faults>>

\* The leftovers are removed and the cleanup is proved, still under the locks.
Sweep(r) ==
    LET j == proc[r].job IN
    /\ At(r, "sweep")
    /\ payload' = [payload EXCEPT ![j] = FALSE]
    /\ marker' = [marker EXCEPT ![j] = TRUE]
    /\ Drop(r) /\ Goto(r, "free")
    /\ UNCHANGED <<disp, st, idn, child, lease, slots, task, sup, agents, faults>>

-----------------------------------------------------------------------------
(* The supervisor *)

\* It records itself in a job that has none; the lock it inherited has kept
\* everybody else from changing the status.
Start(s) ==
    LET j == proc[s].job IN
    /\ At(s, "start") /\ lease[j] # NoSlot /\ disp[j] = "accepted" /\ Identityless(j)
    /\ idn' = [idn EXCEPT ![j] = s] /\ Goto(s, "armed")
    /\ UNCHANGED <<disp, st, child, payload, marker, lease, slots, task, lock, sup, agents, faults>>

\* A gated child is spawned and recorded.  It leaves by itself when the
\* supervisor dies before the gate is opened.
Spawn(s) ==
    LET j == proc[s].job IN
    /\ At(s, "armed")
    /\ child' = [child EXCEPT ![j] = TRUE] /\ Goto(s, "ready")
    /\ UNCHANGED <<disp, st, idn, payload, marker, lease, slots, task, lock, sup, agents, faults>>

\* A failure before the agent could run; a payload that cannot be read is
\* erased first, and the turn is then found through the task's status.
PrelaunchFails(s) ==
    LET j == proc[s].job IN
    /\ At(s, "armed") \/ At(s, "ready")
    /\ Fault("launch")
    /\ \/ payload' = payload /\ Goto(s, "lose")
       \/ /\ At(s, "armed") /\ payload' = [payload EXCEPT ![j] = FALSE]
          /\ proc' = [proc EXCEPT ![s].pc = "lose", ![s].turn = FALSE]
    /\ UNCHANGED <<disp, st, idn, child, marker, lease, slots, task, lock, sup, agents>>

\* allow_exec opens the gate.
Exec(s) ==
    /\ At(s, "ready") /\ agents' = agents \cup {s}
    /\ Goto(s, "exec")
    /\ UNCHANGED <<durable, lock, sup, faults>>

\* Whether the agent runs is unknown, or Running could not be written.
Ambiguous(s) ==
    /\ At(s, "ready") \/ At(s, "exec")
    /\ Fault("launch")
    /\ agents' = agents \cup {s} /\ Goto(s, "await")
    /\ UNCHANGED <<durable, lock, sup>>

\* Running is the handoff: the lock is given up while the agent works.
Run(s) ==
    LET j == proc[s].job IN
    /\ At(s, "exec")
    /\ st' = [st EXCEPT ![j] = "running"] /\ DropSup(s) /\ Goto(s, "wait")
    /\ UNCHANGED <<disp, idn, child, payload, marker, lease, slots, task, lock, agents, faults>>

\* The agent ends, by itself or by the supervisor's timeout.
AgentEnds(s) ==
    /\ s \in agents /\ agents' = agents \ {s}
    /\ UNCHANGED <<durable, proc, lock, sup, faults>>

\* After the wait the supervisor takes admission and then, blocking, its lock.
Waited(s) ==
    /\ At(s, "wait") /\ s \notin agents /\ lock = None
    /\ lock' = s /\ Goto(s, "relock")
    /\ UNCHANGED <<durable, sup, agents, faults>>

Relock(s) ==
    LET j == proc[s].job IN
    /\ At(s, "relock") /\ sup[j] = None /\ Drop(s)
    /\ IF lease[j] = NoSlot \/ st[j] \in Terminal
         THEN End(s) /\ sup' = sup
         ELSE Goto(s, "finish") /\ sup' = [sup EXCEPT ![j] = s]
    /\ UNCHANGED <<durable, agents, faults>>

\* The wait itself may fail.  After Running the supervisor then leaves; in an
\* ambiguous launch it goes on to end the job.
WaitFails(s) ==
    /\ At(s, "wait") \/ At(s, "await")
    /\ Fault("wait")
    /\ IF At(s, "wait") THEN End(s) ELSE Goto(s, "lose")
    /\ UNCHANGED <<durable, lock, sup, agents>>

AmbiguousEnded(s) ==
    /\ At(s, "await") /\ s \notin agents /\ Goto(s, "lose")
    /\ UNCHANGED <<durable, lock, sup, agents, faults>>

Finish_StripsFirst(s, e) ==
    LET j == proc[s].job IN
    /\ \/ At(s, "finish") /\ e \in {"succeeded", "failed"}
       \/ At(s, "lose") /\ e = "lost"
    /\ st' = [st EXCEPT ![j] = e] /\ Goto(s, "tell")
    /\ payload' = [payload EXCEPT ![j] = FALSE]
    /\ UNCHANGED <<disp, idn, child, marker, lease, slots, task, lock, sup, agents, faults>>

\* The terminal status of a supervised job.
Finish(s, e) ==
    LET j == proc[s].job IN
    /\ \/ At(s, "finish") /\ e \in {"succeeded", "failed"}
       \/ At(s, "lose") /\ e = "lost"
    /\ st' = [st EXCEPT ![j] = e] /\ Goto(s, "tell")
    /\ UNCHANGED <<disp, idn, child, payload, marker, lease, slots, task, lock, sup, agents, faults>>

-----------------------------------------------------------------------------
(* The end of a turn, whoever writes it *)

\* TurnTerminalHook: the turn gets its outcome and the task opens again.  The
\* supervisor always can; a request needs the section of the payload.  With
\* close policy `done` and outcome Done the task is then closed.
Tell(p) ==
    LET j == proc[p].job  t == TaskOf[j]
        told == Pending(j) /\ (p \in Supervisors \/ proc[p].turn) IN
    /\ At(p, "tell") \/ At(p, "recover")
    /\ task' = IF told THEN [task EXCEPT ![t].state = "open"] ELSE task
    /\ \/ Goto(p, "retire")
       \/ told /\ st[j] = "succeeded" /\ t \in ClosesDone /\ Goto(p, "close")
    /\ UNCHANGED <<disp, st, idn, child, payload, marker, lease, slots, lock, sup, agents, faults>>

\* The hook fails and leaves the turn unfinished but recoverable.  A
\* supervisor, and whoever recovers a terminal job, then keep the payload and
\* the lease; a cancellation and an orphan's reconciliation go on.
TellFails(p) ==
    LET j == proc[p].job IN
    /\ At(p, "tell") \/ At(p, "recover")
    /\ Pending(j) /\ proc[p].turn /\ Fault("publish")
    /\ IF p \in Requests /\ At(p, "tell")
         THEN Goto(p, "retire") /\ UNCHANGED <<lock, sup>>
         ELSE End(p) /\ Drop(p) /\ DropSup(p)
    /\ UNCHANGED <<durable, agents>>

\* close_after_own_terminal_turn takes the installation lock for itself.
CloseOwn(p) ==
    LET t == TaskOf[proc[p].job] IN
    /\ At(p, "close") /\ lock = None
    /\ task' = [task EXCEPT ![t].state = "closed"]
    /\ Goto(p, "retire")
    /\ UNCHANGED <<disp, st, idn, child, payload, marker, lease, slots, lock, sup, agents, faults>>

\* The payload is removed and both locks are given up.
Retire(p) ==
    /\ At(p, "retire")
    /\ payload' = [payload EXCEPT ![proc[p].job] = FALSE]
    /\ Drop(p) /\ DropSup(p) /\ Goto(p, "clean")
    /\ UNCHANGED <<disp, st, idn, child, marker, lease, slots, task, agents, faults>>

\* cleanup_job_owned, under admission and capacity again.
Clean(p) ==
    LET j == proc[p].job IN
    /\ At(p, "clean") /\ lock = None
    /\ st[j] \in Terminal \/ disp[j] = "abandoned"
    /\ payload' = [payload EXCEPT ![j] = FALSE]
    /\ marker' = [marker EXCEPT ![j] = TRUE]
    /\ Goto(p, "free")
    /\ UNCHANGED <<disp, st, idn, child, lease, slots, task, lock, sup, agents, faults>>

Free_OwnedOnly(p) ==
    LET j == proc[p].job IN
    /\ At(p, "free") /\ lock = None /\ marker[j]
    /\ lease' = IF p \in Supervisors THEN [lease EXCEPT ![j] = NoSlot] ELSE lease
    /\ End(p)
    /\ UNCHANGED <<disp, st, idn, child, payload, marker, slots, task, lock, sup, agents, faults>>

\* release_after_cleanup: with the proof in hand, under the same locks.
Free(p) ==
    LET j == proc[p].job IN
    /\ At(p, "free") /\ lock = None /\ marker[j]
    /\ lease' = [lease EXCEPT ![j] = NoSlot]
    /\ End(p)
    /\ UNCHANGED <<disp, st, idn, child, payload, marker, slots, task, lock, sup, agents, faults>>

-----------------------------------------------------------------------------
(* Faults *)

\* A process dies: the kernel drops its locks, the agent of a supervisor
\* goes on alone.
Die(p) ==
    /\ IF p \in Requests THEN ~At(p, "idle") /\ Fault("request")
                          ELSE Alive(p) /\ Fault("supervisor")
    /\ End(p) /\ Drop(p) /\ DropSup(p)
    /\ UNCHANGED <<durable, agents>>

Reboot ==
    /\ Fault("reboot")
    /\ proc' = [p \in Procs |-> IF p \in Requests THEN Idle
                                 ELSE IF Alive(p) THEN [proc[p] EXCEPT !.pc = "dead"] ELSE proc[p]]
    /\ lock' = None /\ sup' = [j \in Jobs |-> None] /\ agents' = {}
    /\ UNCHANGED durable

-----------------------------------------------------------------------------

Step(r) ==
    \/ Submit(r) \/ PublishFinal(r) \/ RecordAccepted(r) \/ Again(r) \/ Unindexed(r)
    \/ Accepted(r) \/ Refused(r) \/ TakeLaunch(r) \/ (\E s \in Supervisors : Launch(r, s))
    \/ TakeRecover(r) \/ TakeOrphan(r) \/ Supervised(r) \/ TakeCancel(r) \/ Kill(r)
    \/ StripOrphan(r) \/ EndJob(r) \/ Abandon(r) \/ Sweep(r)
Supervise(s) ==
    \/ Start(s) \/ Spawn(s) \/ Exec(s) \/ Run(s) \/ Waited(s) \/ Relock(s)
    \/ AmbiguousEnded(s) \/ (\E e \in Terminal : Finish(s, e))
EndTurn(p) == Tell(p) \/ CloseOwn(p) \/ Retire(p) \/ Clean(p) \/ Free(p)

Next ==
    \/ \E j \in Jobs : Acquire(j) \/ Prepare(j) \/ LatePrepare(j)
    \/ \E n \in Slots : SetSlotCount(n)
    \/ \E t \in Tasks : Close(t)
    \/ \E r \in Requests, k \in Kinds, j \in Jobs : Arrive(r, k, j)
    \/ \E r \in Requests : Step(r) \/ LaunchFails(r)
    \/ \E s \in Supervisors : Supervise(s) \/ AgentEnds(s) \/ PrelaunchFails(s)
                                \/ Ambiguous(s) \/ WaitFails(s)
    \/ \E p \in Procs : EndTurn(p) \/ TellFails(p) \/ Die(p)
    \/ Reboot

Spec == Init /\ [][Next]_vars

\* A process that runs goes on and gets a lock that is free again and again;
\* the timeout ends an agent whose supervisor lives; the client asks for the
\* status of every job again and again.
Fairness ==
    /\ \A r \in Requests : SF_vars(Step(r) \/ EndTurn(r))
    /\ \A s \in Supervisors : SF_vars(Supervise(s) \/ EndTurn(s) \/ (Alive(s) /\ AgentEnds(s)))
    /\ \A j \in Jobs : SF_vars(\E r \in Requests : Arrive(r, "query", j))

Fair == Spec /\ Fairness

-----------------------------------------------------------------------------
(* Properties *)

\* The state has its type, and what is held is held by a process that runs.
HostTypeOK ==
    /\ disp \in [Jobs -> {"none", "accepted", "abandoned"}]
    /\ st \in [Jobs -> {"none", "accepted", "running"} \cup Terminal]
    /\ idn \in [Jobs -> Supervisors \cup {None}] /\ child \in [Jobs -> BOOLEAN]
    /\ payload \in [Jobs -> BOOLEAN] /\ marker \in [Jobs -> BOOLEAN]
    /\ lease \in [Jobs -> Slots \cup {NoSlot}] /\ slots \in Slots
    /\ task \in [Tasks -> [state : {"none", "active", "open", "closed"}, turn : Jobs \cup {None}]]
    /\ lock \in Procs \cup {None} /\ sup \in [Jobs -> Procs \cup {None}]
    /\ agents \subseteq Supervisors /\ faults \in Faults
    /\ lock # None => proc[lock].pc \notin {"idle", "dead"}
    /\ \A j \in Jobs : sup[j] # None => proc[sup[j]].pc \notin {"idle", "dead"} /\ proc[sup[j]].job = j

\* No agent works without a slot or beside another of its task: while the agent
\* of a job runs, the job holds its lease and the worktree has no second process
\* group, whoever died, cancelled or reconciled meanwhile.
AgentCovered ==
    \A s \in agents :
        /\ lease[proc[s].job] # NoSlot
        /\ \A u \in agents : SameTask(proc[s].job, proc[u].job) => s = u

\* Every terminal path publishes the turn before the lease is released.
PublishedBeforeRelease ==
    \A j \in Jobs : disp[j] = "accepted" /\ st[j] \in Terminal /\ lease[j] = NoSlot => ~Pending(j)

\* The installation lock comes first: nobody asks for it who holds it.
InstallationFirst == \A p \in Procs : lock = p => ~At(p, "close")

\* No query ends a running job whose supervisor is alive.
LiveTurnKept ==
    [][\A j \in Jobs : st[j] = "running" /\ Alive(idn[j]) => st'[j] # "lost"]_vars

\* An accepted job ends, and its slot is free again.
SlotComesBack == \A j \in Jobs : disp[j] = "accepted" ~> lease[j] = NoSlot
=============================================================================
