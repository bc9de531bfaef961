---------------------------- MODULE CommandProofs ----------------------------
(***************************************************************************)
(* Proofs about what carries a command out.                                *)
(*   - ControllerRequests, for any number of requests, attempts and        *)
(*     troubles: a request takes effect where it was aimed and at most     *)
(*     once (EffectsFenced), and what its saved result says is so          *)
(*     (ResultsTrue).                                                      *)
(*   - Submission, for any number of tasks, processes and faults, while no *)
(*     two processes work on one task: NothingOrphaned, AdoptedWorkKept.   *)
(***************************************************************************)
EXTENDS ControllerRequests, Submission, FiniteSetTheorems, TLAPS

-----------------------------------------------------------------------------
(* Types. *)

LEMMA Naming ==
    /\ RequestCount \in Nat /\ MaxSends \in Nat /\ MaxTroubles \in Nat
    /\ Requests = 1 .. RequestCount /\ 0 \in 0 .. RequestCount
    /\ Leader \in 0 .. Leader /\ 0 \in 0 .. Leader /\ (1 .. MaxSends) \subseteq 0 .. Leader
    /\ Requests \subseteq 0 .. RequestCount
  BY RequestConstants DEF RequestConstants, Requests, Leader

LEMMA BlankTypes == Free \in Handlers /\ NoRow \in RowFiles
  BY Naming DEF Free, Handlers, Places, Results, NoRow, RowFiles

LEMMA RequestTypesInit == RequestInit => RequestTypeOK
<1> SUFFICES ASSUME RequestInit PROVE RequestTypeOK
  OBVIOUS
<1> USE Naming, BlankTypes
<1>1. PICK s \in Scenarios :
         LET end == IF s.state = "open" THEN "done" ELSE "none" IN
         /\ cmd = s.cmd
         /\ task = [state |-> s.state, rev |-> 0, closing |-> 0, closed |-> 0,
                    turns |-> <<[Turn(0) EXCEPT !.end = end]>>, host |-> [end |-> end, by |-> 0]]
  BY DEF RequestInit
<1>2. s.cmd \in [Requests -> Commands] /\ s.state \in {"active", "open"}
  BY RequestConstants DEF RequestConstants
<1> DEFINE end == IF s.state = "open" THEN "done" ELSE "none"
<1>3. end \in {"none", "done", "cancelled"}
  BY <1>2
<1>4. [Turn(0) EXCEPT !.end = end] \in TurnRecords
  BY <1>3 DEF Turn, TurnRecords
<1>5. task \in TaskRecords
  BY <1>1, <1>2, <1>3, <1>4 DEF TaskRecords
<1>6. QED
  BY <1>1, <1>2, <1>5 DEF RequestInit, RequestTypeOK, NoTick

(* How the handlers, the rows, the laptops and the task are edited. *)
LEMMA ClientEdit ==
    ASSUME client \in [Requests -> [waits : BOOLEAN, n : 0 .. MaxSends]], NEW r \in Requests
    PROVE  [client EXCEPT ![r].waits = FALSE] \in [Requests -> [waits : BOOLEAN, n : 0 .. MaxSends]]
<1>1. [client[r] EXCEPT !.waits = FALSE] \in [waits : BOOLEAN, n : 0 .. MaxSends]
  OBVIOUS
<1>2. QED
  BY <1>1

LEMMA SettleType ==
    ASSUME RequestTypeOK, NEW r \in Requests, NEW verdict
    PROVE  SettleEnvelope(r, verdict) \in [Requests -> {"none", "pending", "acknowledged", "rejected"}]
  BY DEF RequestTypeOK, SettleEnvelope

LEMMA ReplyTypes ==
    ASSUME RequestTypeOK, NEW r \in Requests, NEW verdict, Reply(r, verdict)
    PROVE  /\ hold' \in [Requests -> Handlers]
           /\ client' \in [Requests -> [waits : BOOLEAN, n : 0 .. MaxSends]]
           /\ envelope' \in [Requests -> {"none", "pending", "acknowledged", "rejected"}]
           /\ flight' = flight
<1>1. hold' \in [Requests -> Handlers]
  BY BlankTypes DEF Reply, RequestTypeOK
<1>2. client' \in [Requests -> [waits : BOOLEAN, n : 0 .. MaxSends]]
  BY ClientEdit DEF Reply, RequestTypeOK
<1>3. envelope' \in [Requests -> {"none", "pending", "acknowledged", "rejected"}]
  BY SettleType DEF Reply, RequestTypeOK
<1>4. QED
  BY <1>1, <1>2, <1>3 DEF Reply

LEMMA SnapshotType == ASSUME task \in TaskRecords PROVE Snapshot \in Snapshots
  BY DEF TaskRecords, Snapshot, Snapshots

LEMMA TurnType ==
    ASSUME NEW r \in 0 .. RequestCount PROVE Turn(r) \in TurnRecords
  BY Naming DEF Turn, TurnRecords

(* A task always has a last turn. *)
LEMMA LastType ==
    ASSUME task \in TaskRecords, Len(task.turns) > 0
    PROVE  Len(task.turns) \in Nat /\ Len(task.turns) \in DOMAIN task.turns /\ Last \in TurnRecords
  BY DEF TaskRecords, Last

(* The last turn is started, or ended; the others stay as they are. *)
LEMMA StartLastIs ==
    ASSUME task \in TaskRecords, Len(task.turns) > 0
    PROVE  /\ StartLast \in Seq(TurnRecords) /\ Len(StartLast) = Len(task.turns)
           /\ \A i \in 1 .. Len(task.turns) : /\ StartLast[i].by = task.turns[i].by
                                              /\ StartLast[i].end = task.turns[i].end
                                              /\ StartLast[i].stop = task.turns[i].stop
<1>1. [task.turns[Len(task.turns)] EXCEPT !.started = TRUE] \in TurnRecords
  BY LastType DEF Last, TurnRecords
<1>2. task.turns \in Seq(TurnRecords) /\ Len(task.turns) \in 1 .. Len(task.turns)
  BY DEF TaskRecords
<1>3. StartLast \in Seq(TurnRecords) /\ Len(StartLast) = Len(task.turns)
  BY <1>1, <1>2 DEF StartLast
<1>4. ASSUME NEW i \in 1 .. Len(task.turns)
      PROVE  /\ StartLast[i].by = task.turns[i].by
             /\ StartLast[i].end = task.turns[i].end
             /\ StartLast[i].stop = task.turns[i].stop
  <2>1. task.turns[i] \in TurnRecords
    BY <1>2
  <2>2. QED
    BY <1>2, <2>1 DEF StartLast, TurnRecords
<1>5. QED
  BY <1>3, <1>4

LEMMA EndLastIs ==
    ASSUME task \in TaskRecords, Len(task.turns) > 0, NEW e \in {"none", "done", "cancelled"},
           NEW x \in 0 .. RequestCount
    PROVE  /\ EndLast(e, x) \in Seq(TurnRecords) /\ Len(EndLast(e, x)) = Len(task.turns)
           /\ \A i \in 1 .. Len(task.turns) :
                 /\ EndLast(e, x)[i].by = task.turns[i].by
                 /\ EndLast(e, x)[i].end = IF i = Len(task.turns) THEN e ELSE task.turns[i].end
                 /\ EndLast(e, x)[i].stop = IF i = Len(task.turns) THEN x ELSE task.turns[i].stop
<1>1. [task.turns[Len(task.turns)] EXCEPT !.end = e, !.stop = x] \in TurnRecords
  BY LastType DEF Last, TurnRecords
<1>2. task.turns \in Seq(TurnRecords) /\ Len(task.turns) \in 1 .. Len(task.turns)
  BY DEF TaskRecords
<1>3. EndLast(e, x) \in Seq(TurnRecords) /\ Len(EndLast(e, x)) = Len(task.turns)
  BY <1>1, <1>2 DEF EndLast
<1>4. ASSUME NEW i \in 1 .. Len(task.turns)
      PROVE  /\ EndLast(e, x)[i].by = task.turns[i].by
             /\ EndLast(e, x)[i].end = IF i = Len(task.turns) THEN e ELSE task.turns[i].end
             /\ EndLast(e, x)[i].stop = IF i = Len(task.turns) THEN x ELSE task.turns[i].stop
  <2>1. task.turns[i] \in TurnRecords
    BY <1>2
  <2>2. QED
    BY <1>2, <2>1 DEF EndLast, TurnRecords
<1>5. QED
  BY <1>3, <1>4

LEMMA TaskEdits ==
    ASSUME task \in TaskRecords, NEW r \in 0 .. RequestCount, NEW t \in TurnRecords,
           NEW host \in [end : {"none", "done", "cancelled"}, by : 0 .. RequestCount],
           NEW state \in {"active", "open", "closed"}
    PROVE  /\ [task EXCEPT !.turns = Append(@, t), !.rev = @ + 1, !.state = state, !.host = host]
                 \in TaskRecords
           /\ [task EXCEPT !.host = host] \in TaskRecords
           /\ [task EXCEPT !.closing = r] \in TaskRecords
           /\ [task EXCEPT !.state = state, !.closed = task.closing, !.closing = 0, !.rev = @ + 1]
                 \in TaskRecords
<1> USE Naming
<1>1. Append(task.turns, t) \in Seq(TurnRecords)
  BY DEF TaskRecords
<1>2. task.rev + 1 \in Nat
  BY DEF TaskRecords
<1>3. [task EXCEPT !.turns = Append(@, t), !.rev = @ + 1, !.state = state, !.host = host] \in TaskRecords
  BY <1>1, <1>2 DEF TaskRecords
<1>4. [task EXCEPT !.host = host] \in TaskRecords
  BY DEF TaskRecords
<1>5. [task EXCEPT !.closing = r] \in TaskRecords
  BY DEF TaskRecords
<1>6. [task EXCEPT !.state = state, !.closed = task.closing, !.closing = 0, !.rev = @ + 1] \in TaskRecords
  BY <1>2 DEF TaskRecords
<1>7. QED
  BY <1>3, <1>4, <1>5, <1>6

-----------------------------------------------------------------------------
(* The inductive invariant. *)

HasRow(r) == row[r].phase # "none"
Executing == Commands \cup {"cancelled", "closing", "result"}

(* Where a handler is, and what the row it works on says: nothing is executed
   before the row is published, and nothing again once its result is saved. *)
StageOf(r) ==
    /\ row[r].phase = "none" => row[r] = NoRow
    /\ row[r].phase = "acked" => row[r].result # "none"
    /\ hold[r].at \in {"prepare", "publish"} => row[r] = NoRow
    /\ hold[r].at \in Executing => row[r].phase = "published" /\ row[r].result = "none"
    /\ hold[r].at \in Commands => cmd[r] = hold[r].at
    /\ hold[r].at = "cancelled" => cmd[r] = "cancel"
    /\ hold[r].at = "closing" => cmd[r] = "close"
    /\ hold[r].at = "result" => hold[r].result # "none"
    /\ hold[r].at = "ack" => row[r].phase = "published" /\ row[r].result # "none"
    /\ hold[r].at = "retire" => row[r].phase = "acked"
Stages == \A r \in Requests : StageOf(r)

(* A snapshot is of this task, at or before now; that of a say found it open. *)
Sound(r, frozen) ==
    /\ frozen \in Snapshots
    /\ frozen.len \in 1 .. Len(task.turns)
    /\ cmd[r] = "say" => frozen.state = "open"
Snaps ==
    \A r \in Requests :
        /\ HasRow(r) => Sound(r, row[r].frozen)
        /\ hold[r].at = "publish" => Sound(r, hold[r].frozen)
        /\ hold[r].at = "cancelled" =>
              /\ row[r].frozen.state = "active"
              /\ row[r].frozen.len = Len(task.turns) => task.host.end # "none"
        /\ hold[r].at = "closing" => task.state = "closed" \/ task.closing # 0

(* A request that left its mark on the task is a published one of its kind. *)
By(r, c) == r \in Requests /\ HasRow(r) /\ cmd[r] = c

TaskState ==
    /\ Len(task.turns) > 0
    /\ task.state = "active" <=> Last.end = "none"
    /\ task.closing # 0 => /\ By(task.closing, "close") /\ task.state = "open"
                           /\ Snapshot = row[task.closing].frozen
    /\ task.closed # 0 => /\ By(task.closed, "close") /\ task.state = "closed"
                          /\ Len(task.turns) = row[task.closed].frozen.len
    /\ task.host.by # 0 => /\ By(task.host.by, "cancel")
                           /\ Len(task.turns) = row[task.host.by].frozen.len

Marks ==
    \A i \in 1 .. Len(task.turns) :
        LET t == task.turns[i] IN
        /\ t.by # 0 => By(t.by, "say") /\ i = row[t.by].frozen.len + 1
        /\ t.stop # 0 => By(t.stop, "cancel") /\ i = row[t.stop].frozen.len

(* What is concluded, saved or not, is true. *)
Success(r) ==
    /\ cmd[r] = "say" => HasTurn(r)
    /\ cmd[r] = "cancel" => task.turns[row[r].frozen.len].end # "none"
    /\ cmd[r] = "close" => task.state = "closed"
    /\ cmd[r] = "submit" => r \in made
Nothing(r) == ~HasTurn(r) /\ r \notin made /\ task.closed # r /\ task.closing # r
TrueResult(r, result) == (result = "ok" => Success(r)) /\ (result = "rejected" => Nothing(r))

Outcomes ==
    /\ \A r \in Requests :
          /\ TrueResult(r, row[r].result)
          /\ hold[r].at = "result" => TrueResult(r, hold[r].result)
          /\ envelope[r] = "acknowledged" => row[r].phase = "acked" /\ row[r].result = "ok"
    /\ \A r \in made : cmd[r] = "submit"

RequestInv == RequestTypeOK /\ Stages /\ Snaps /\ TaskState /\ Marks /\ Outcomes
-----------------------------------------------------------------------------
(* What a step can do to the task. *)

(* An end the host may report: nobody's, or that of a cancel aimed at the last
   turn. *)
Stopper(x) == x # 0 => By(x, "cancel") /\ row[x].frozen.len = Len(task.turns)

Appends(r) ==
    task' = [task EXCEPT !.turns = Append(@, Turn(r)), !.rev = @ + 1, !.state = "active",
                         !.host = [end |-> "none", by |-> 0]]
Starts == task' = [task EXCEPT !.turns = StartLast]
Ends(e, x) ==
    task' = [task EXCEPT !.turns = EndLast(e, x), !.rev = @ + 1, !.state = "open",
                         !.host = [end |-> e, by |-> x]]
Hosts(e, x) == task' = [task EXCEPT !.host = [end |-> e, by |-> x]]
Finishes == task' = [task EXCEPT !.state = "closed", !.closed = task.closing, !.closing = 0,
                                 !.rev = @ + 1]

TaskMove ==
    \/ task' = task
    \/ \E r \in Requests : /\ hold[r].at = "say" /\ Snapshot = row[r].frozen
                           /\ task.closing = 0 /\ Appends(r)
    \/ Starts
    \/ \E e \in {"done", "cancelled"}, x \in 0 .. RequestCount :
          Last.end = "none" /\ Stopper(x) /\ Ends(e, x)
    \/ \E e \in {"done", "cancelled"}, x \in 0 .. RequestCount : Stopper(x) /\ Hosts(e, x)
    \/ \E r \in Requests : /\ hold[r].at = "close" /\ Snapshot = row[r].frozen
                           /\ task.closing = 0 /\ task.state = "open"
                           /\ task' = [task EXCEPT !.closing = r]
    \/ task.state = "open" /\ task.closing # 0 /\ Finishes

(* Import writes what the host reports. *)
LEMMA ImportEnds ==
    ASSUME task \in TaskRecords, Len(task.turns) > 0, task' = Import
    PROVE  Ends(task.host.end, task.host.by)
<1>1. task.host = [end |-> task.host.end, by |-> task.host.by]
  BY DEF TaskRecords
<1>2. QED
  BY <1>1 DEF Import, Ends, TaskRecords

LEMMA TaskMoves == RequestInv /\ [RequestNext]_requestVars => TaskMove
<1> SUFFICES ASSUME RequestInv, [RequestNext]_requestVars PROVE TaskMove
  OBVIOUS
<1>a. /\ task \in TaskRecords /\ Len(task.turns) > 0 /\ task.host.by \in 0 .. RequestCount
      /\ task.host.end \in {"none", "done", "cancelled"}
  BY DEF RequestInv, RequestTypeOK, TaskState, TaskRecords
<1>b. Stopper(task.host.by)
  BY DEF RequestInv, TaskState, Stopper
<1>c. ASSUME task' = task PROVE TaskMove
  BY <1>c DEF TaskMove
<1>1. ASSUME NEW r \in Requests,
             \/ SendAttempt(r) \/ ConnectionLost(r) \/ DriveFails(r) \/ HandlerDies(r) \/ DamageRow(r)
             \/ \E n \in flight[r] : TakeLock(r, n) \/ RefuseDamaged(r, n)
             \/ PrepareRequest(r) \/ RefuseRequest(r) \/ PublishRow(r) \/ ExecuteSubmit(r)
             \/ SaveResult(r) \/ SaveAck(r) \/ RetireReceipt(r)
      PROVE  TaskMove
  BY <1>1, <1>c DEF SendAttempt, ConnectionLost, DriveFails, HandlerDies, DamageRow, TakeLock,
       RefuseDamaged, PrepareRequest, RefuseRequest, PublishRow, ExecuteSubmit, SaveResult, SaveAck,
       RetireReceipt, work
<1>2. ASSUME Tick \/ LeaderDies \/ UNCHANGED requestVars PROVE TaskMove
  BY <1>2, <1>c DEF Tick, StartTick, EndTick, SkipName, ResumeName, LeaderDies, work, requestVars
<1>3. ASSUME NEW r \in Requests, ExecuteSay(r) PROVE TaskMove
  <2>1. CASE task' = task
    BY <2>1, <1>c
  <2>2. CASE Starts
    BY <2>2 DEF TaskMove
  <2>3. CASE hold[r].at = "say" /\ Snapshot = row[r].frozen /\ task.closing = 0 /\ Appends(r)
    BY <2>3 DEF TaskMove
  <2>4. QED
    BY <1>3, <2>1, <2>2, <2>3 DEF ExecuteSay, At, Quiet, work, Busy, Starts, Appends, RevisionMatches
<1>4. ASSUME NEW r \in Requests, ExecuteCancel(r) PROVE TaskMove
  <2>1. hold[r].at = "cancel" /\ By(r, "cancel")
    BY <1>4 DEF ExecuteCancel, At, RequestInv, Stages, StageOf, Executing, Commands, By, HasRow
  <2>2. CASE task' = task
    BY <2>2, <1>c
  <2>3. CASE /\ RevisionMatches(row[r].frozen) /\ Last.end = "none"
             /\ Ends("cancelled", r)
    <3>1. Stopper(r)
      BY <2>1, <2>3 DEF Stopper, RevisionMatches, Snapshot
    <3>2. QED
      BY <2>3, <3>1, Naming DEF TaskMove
  <2>4. CASE /\ RevisionMatches(row[r].frozen)
             /\ task' = [task EXCEPT !.host = IF @.end = "none"
                             THEN [end |-> "cancelled", by |-> r] ELSE @]
    <3>1. Stopper(r)
      BY <2>1, <2>4 DEF Stopper, RevisionMatches, Snapshot
    <3>2. CASE task.host.end = "none"
      <4>1. Hosts("cancelled", r)
        BY <2>4, <3>2 DEF Hosts
      <4>2. QED
        BY <3>1, <4>1, Naming DEF TaskMove
    <3>3. CASE task.host.end # "none"
      <4>1. task' = task
        BY <1>a, <2>4, <3>3 DEF TaskRecords
      <4>2. QED
        BY <4>1, <1>c
    <3>4. QED
      BY <3>2, <3>3
  <2>5. QED
    BY <1>4, <2>2, <2>3, <2>4 DEF ExecuteCancel, Ends, Quiet, work
<1>5. ASSUME NEW r \in Requests, RecordCancel(r) PROVE TaskMove
  <2>1. CASE task' = task
    BY <2>1, <1>c
  <2>2. CASE RevisionMatches(row[r].frozen) /\ task' = Import
    <3>1. row[r].frozen.state = "active" /\ (row[r].frozen.len = Len(task.turns) => task.host.end # "none")
      BY <1>5 DEF RecordCancel, At, RequestInv, Snaps
    <3>2. task.state = "active" /\ task.host.end # "none"
      BY <2>2, <3>1 DEF RevisionMatches, Snapshot
    <3>3. Last.end = "none"
      BY <3>2 DEF RequestInv, TaskState
    <3>4. Ends(task.host.end, task.host.by)
      BY <1>a, <2>2, ImportEnds
    <3>5. QED
      BY <1>a, <1>b, <3>2, <3>3, <3>4 DEF TaskMove
  <2>3. QED
    BY <1>5, <2>1, <2>2 DEF RecordCancel, Quiet, work
<1>6. ASSUME NEW r \in Requests, ExecuteClose(r) PROVE TaskMove
  <2>1. CASE task' = task
    BY <2>1, <1>c
  <2>2. CASE /\ task.state = "open" /\ RevisionMatches(row[r].frozen)
             /\ task' = [task EXCEPT !.closing = IF @ = 0 THEN r ELSE @]
    <3>1. CASE task.closing = 0
      BY <1>6, <2>2, <3>1 DEF TaskMove, ExecuteClose, At, RevisionMatches
    <3>2. CASE task.closing # 0
      <4>1. task' = task
        BY <1>a, <2>2, <3>2 DEF TaskRecords
      <4>2. QED
        BY <4>1, <1>c
    <3>3. QED
      BY <3>1, <3>2
  <2>3. QED
    BY <1>6, <2>1, <2>2 DEF ExecuteClose, Quiet, Busy, work
<1>7. ASSUME NEW r \in Requests, FinishClose(r) PROVE TaskMove
  <2>1. CASE task.state = "closed"
    BY <1>7, <2>1, <1>c DEF FinishClose
  <2>2. CASE task.state # "closed"
    <3>1. task.closing # 0 /\ Finishes
      BY <1>7, <2>2 DEF FinishClose, At, RequestInv, Snaps, Finishes
    <3>2. task.state = "open"
      BY <3>1 DEF RequestInv, TaskState
    <3>3. QED
      BY <3>1, <3>2 DEF TaskMove
  <2>3. QED
    BY <2>1, <2>2
<1>8. ASSUME TurnEnds PROVE TaskMove
  <2>1. task.host = [end |-> task.host.end, by |-> task.host.by]
    BY <1>a DEF TaskRecords
  <2>2. Hosts("done", task.host.by)
    BY <1>8, <1>a, <2>1 DEF TurnEnds, Hosts, TaskRecords
  <2>3. QED
    BY <1>a, <1>b, <2>2 DEF TaskMove
<1>9. ASSUME ImportEnd PROVE TaskMove
  <2>1. Ends(task.host.end, task.host.by)
    BY <1>9, <1>a, ImportEnds DEF ImportEnd
  <2>2. Last.end = "none" /\ task.host.end # "none"
    BY <1>9 DEF ImportEnd
  <2>3. QED
    BY <1>a, <1>b, <2>1, <2>2 DEF TaskMove
<1>10. QED
  BY <1>1, <1>2, <1>3, <1>4, <1>5, <1>6, <1>7, <1>8, <1>9 DEF RequestNext, Handle, Execute

(* It is a task record again. *)
LEMMA MoveTypes == RequestInv /\ TaskMove => task' \in TaskRecords
<1> SUFFICES ASSUME RequestInv, TaskMove PROVE task' \in TaskRecords
  OBVIOUS
<1>a. task \in TaskRecords /\ Len(task.turns) > 0 /\ Last \in TurnRecords
  BY LastType DEF RequestInv, RequestTypeOK, TaskState
<1>b. [end |-> "none", by |-> 0] \in [end : {"none", "done", "cancelled"}, by : 0 .. RequestCount]
  BY Naming
<1>1. ASSUME NEW r \in Requests, Appends(r) PROVE task' \in TaskRecords
  BY <1>1, <1>a, <1>b, TaskEdits, TurnType, Naming DEF Appends
<1>2. ASSUME Starts PROVE task' \in TaskRecords
  BY <1>2, <1>a, StartLastIs DEF Starts, TaskRecords
<1>3. ASSUME NEW e \in {"done", "cancelled"}, NEW x \in 0 .. RequestCount, Ends(e, x)
      PROVE  task' \in TaskRecords
  <2>1. EndLast(e, x) \in Seq(TurnRecords)
    BY <1>a, EndLastIs
  <2>2. task.rev + 1 \in Nat
    BY <1>a DEF TaskRecords
  <2>3. [end |-> e, by |-> x] \in [end : {"none", "done", "cancelled"}, by : 0 .. RequestCount]
    OBVIOUS
  <2>4. QED
    BY <1>3, <1>a, <2>1, <2>2, <2>3 DEF Ends, TaskRecords
<1>4. ASSUME NEW e \in {"done", "cancelled"}, NEW x \in 0 .. RequestCount, Hosts(e, x)
      PROVE  task' \in TaskRecords
  BY <1>4, <1>a, TaskEdits, TurnType, Naming DEF Hosts
<1>5. ASSUME NEW r \in Requests, task' = [task EXCEPT !.closing = r] PROVE task' \in TaskRecords
  BY <1>5, <1>a, <1>b, TaskEdits, TurnType, Naming
<1>6. ASSUME Finishes PROVE task' \in TaskRecords
  BY <1>6, <1>a, <1>b, TaskEdits, TurnType, Naming DEF Finishes
<1>7. QED
  BY <1>a, <1>1, <1>2, <1>3, <1>4, <1>5, <1>6 DEF TaskMove


(* The lock holder and the row of one request change, the others stay. *)
LEMMA ResumeType ==
    ASSUME RequestTypeOK, NEW r \in Requests
    PROVE  Resume(r) \in Places /\ cmd[r] \in Places
  BY DEF RequestTypeOK, Resume, Places

LEMMA TakenTypes ==
    ASSUME RequestTypeOK, NEW r \in Requests, NEW b \in 0 .. Leader
    PROVE  /\ [hold EXCEPT ![r] = [Free EXCEPT !.by = b, !.at = Resume(r)]]
                 \in [Requests -> Handlers]
           /\ [hold EXCEPT ![r] = [Free EXCEPT !.by = b,
                 !.at = IF row[r] = NoRow THEN "prepare" ELSE Resume(r)]] \in [Requests -> Handlers]
<1>1. Resume(r) \in Places /\ (IF row[r] = NoRow THEN "prepare" ELSE Resume(r)) \in Places
  BY ResumeType DEF Places
<1>2. ASSUME NEW place \in Places
      PROVE  [hold EXCEPT ![r] = [Free EXCEPT !.by = b, !.at = place]] \in [Requests -> Handlers]
  <2>1. [Free EXCEPT !.by = b, !.at = place] \in Handlers
    BY DEF Free, Handlers, Results
  <2>2. QED
    BY <2>1 DEF RequestTypeOK
<1>3. QED
  BY <1>1, <1>2

LEMMA MovedTypes ==
    ASSUME RequestTypeOK, NEW r \in Requests, NEW place \in Places
    PROVE  /\ GoTo(r, place) => hold' \in [Requests -> Handlers]
           /\ \A result \in Results :
                 [hold EXCEPT ![r].at = place, ![r].result = result] \in [Requests -> Handlers]
           /\ \A frozen \in Snapshots \cup {<<>>} :
                 [hold EXCEPT ![r].at = place, ![r].frozen = frozen] \in [Requests -> Handlers]
<1>1. hold \in [Requests -> Handlers]
  BY DEF RequestTypeOK
<1>2. [hold[r] EXCEPT !.at = place] \in Handlers
  BY <1>1 DEF Handlers
<1>3. ASSUME NEW result \in Results
      PROVE  [hold[r] EXCEPT !.at = place, !.result = result] \in Handlers
  BY <1>1 DEF Handlers
<1>4. ASSUME NEW frozen \in Snapshots \cup {<<>>}
      PROVE  [hold[r] EXCEPT !.at = place, !.frozen = frozen] \in Handlers
  BY <1>1 DEF Handlers
<1>5. GoTo(r, place) => hold' \in [Requests -> Handlers]
  BY <1>1, <1>2 DEF GoTo
<1>6. ASSUME NEW result \in Results
      PROVE  [hold EXCEPT ![r].at = place, ![r].result = result] \in [Requests -> Handlers]
  BY <1>1, <1>3
<1>7. ASSUME NEW frozen \in Snapshots \cup {<<>>}
      PROVE  [hold EXCEPT ![r].at = place, ![r].frozen = frozen] \in [Requests -> Handlers]
  BY <1>1, <1>4
<1>8. QED
  BY <1>5, <1>6, <1>7

LEMMA ConcludedType ==
    ASSUME RequestTypeOK, NEW r \in Requests, NEW result \in Results, Concluded(r, result)
    PROVE  hold' \in [Requests -> Handlers]
<1>1. "result" \in Places
  BY DEF Places
<1>2. QED
  BY <1>1, MovedTypes DEF Concluded

LEMMA RowEdits ==
    ASSUME RequestTypeOK, NEW r \in Requests
    PROVE  /\ \A frozen \in Snapshots \cup {<<>>} :
                 [row EXCEPT ![r] = [phase |-> "published", result |-> "none", frozen |-> frozen]]
                    \in [Requests -> RowFiles]
           /\ \A result \in Results : [row EXCEPT ![r].result = result] \in [Requests -> RowFiles]
           /\ [row EXCEPT ![r].phase = "acked"] \in [Requests -> RowFiles]
<1>1. row \in [Requests -> RowFiles]
  BY DEF RequestTypeOK
<1>2. ASSUME NEW frozen \in Snapshots \cup {<<>>}
      PROVE  [phase |-> "published", result |-> "none", frozen |-> frozen] \in RowFiles
  BY DEF RowFiles, Results
<1>3. ASSUME NEW result \in Results PROVE [row[r] EXCEPT !.result = result] \in RowFiles
  BY <1>1 DEF RowFiles
<1>4. [row[r] EXCEPT !.phase = "acked"] \in RowFiles
  BY <1>1 DEF RowFiles
<1>5. QED
  BY <1>1, <1>2, <1>3, <1>4

LEMMA TroubleType == ASSUME RequestTypeOK, Trouble PROVE troubles' \in 0 .. MaxTroubles
  BY Naming DEF RequestTypeOK, Trouble

(* All but the task record, which TaskMoves is about. *)
LaptopTypes ==
    /\ envelope \in [Requests -> {"none", "pending", "acknowledged", "rejected"}]
    /\ client \in [Requests -> [waits : BOOLEAN, n : 0 .. MaxSends]]
    /\ flight \in [Requests -> SUBSET (1 .. MaxSends)]
RowTypes == row \in [Requests -> RowFiles] /\ receipt \subseteq Requests /\ damaged \subseteq Requests
LeaderTypes == tick \in [left : SUBSET Requests, last : 0 .. RequestCount] /\ cursor \in 0 .. RequestCount

LEMMA TypeParts ==
    RequestTypeOK <=> /\ cmd \in [Requests -> Commands]
                      /\ LaptopTypes /\ RowTypes /\ LeaderTypes
                      /\ hold \in [Requests -> Handlers]
                      /\ task \in TaskRecords /\ made \subseteq Requests /\ troubles \in 0 .. MaxTroubles
  BY DEF RequestTypeOK, LaptopTypes, RowTypes, LeaderTypes

LEMMA ReplyParts ==
    ASSUME RequestTypeOK, NEW r \in Requests, NEW verdict, Reply(r, verdict)
    PROVE  LaptopTypes' /\ hold' \in [Requests -> Handlers]
<1>1. flight' \in [Requests -> SUBSET (1 .. MaxSends)]
  BY ReplyTypes DEF RequestTypeOK
<1>2. QED
  BY <1>1, ReplyTypes DEF LaptopTypes

LEMMA UnchangedTypes ==
    ASSUME RequestTypeOK
    PROVE  /\ UNCHANGED laptop => LaptopTypes'
           /\ UNCHANGED rows => RowTypes'
           /\ UNCHANGED leader => LeaderTypes'
           /\ UNCHANGED cmd => cmd' \in [Requests -> Commands]
           /\ UNCHANGED hold => hold' \in [Requests -> Handlers]
           /\ UNCHANGED made => made' \subseteq Requests
           /\ UNCHANGED troubles => troubles' \in 0 .. MaxTroubles
  BY DEF RequestTypeOK, LaptopTypes, RowTypes, LeaderTypes, laptop, rows, leader

LEMMA RequestTypesStep == RequestInv /\ [RequestNext]_requestVars => RequestTypeOK'
<1> SUFFICES ASSUME RequestInv, [RequestNext]_requestVars PROVE RequestTypeOK'
  OBVIOUS
<1>a. RequestTypeOK
  BY DEF RequestInv
<1>b. task' \in TaskRecords
  BY TaskMoves, MoveTypes
<1>c. /\ cmd \in [Requests -> Commands] /\ flight \in [Requests -> SUBSET (1 .. MaxSends)]
      /\ envelope \in [Requests -> {"none", "pending", "acknowledged", "rejected"}]
      /\ client \in [Requests -> [waits : BOOLEAN, n : 0 .. MaxSends]]
      /\ hold \in [Requests -> Handlers] /\ row \in [Requests -> RowFiles] /\ task \in TaskRecords
      /\ receipt \subseteq Requests /\ damaged \subseteq Requests /\ made \subseteq Requests
      /\ tick \in [left : SUBSET Requests, last : 0 .. RequestCount] /\ cursor \in 0 .. RequestCount
  BY <1>a DEF RequestTypeOK
<1>d. /\ UNCHANGED laptop => LaptopTypes'
      /\ UNCHANGED rows => RowTypes'
      /\ UNCHANGED leader => LeaderTypes'
      /\ UNCHANGED cmd => cmd' \in [Requests -> Commands]
      /\ UNCHANGED hold => hold' \in [Requests -> Handlers]
      /\ UNCHANGED made => made' \subseteq Requests
      /\ UNCHANGED troubles => troubles' \in 0 .. MaxTroubles
  BY <1>a, UnchangedTypes
<1>e. ASSUME cmd' = cmd, LaptopTypes', RowTypes', LeaderTypes', hold' \in [Requests -> Handlers],
             made' \subseteq Requests, troubles' \in 0 .. MaxTroubles
      PROVE  RequestTypeOK'
  BY <1>b, <1>c, <1>e DEF RequestTypeOK, LaptopTypes, RowTypes, LeaderTypes
<1>f. Results = {"none", "ok", "rejected"}
      /\ {"off", "prepare", "publish", "cancelled", "closing", "result", "ack", "retire"} \subseteq Places
  BY DEF Results, Places
<1>g. ASSUME UNCHANGED receipt, UNCHANGED damaged, row' \in [Requests -> RowFiles] PROVE RowTypes'
  BY <1>c, <1>g DEF RowTypes
<1>h. ASSUME UNCHANGED row, UNCHANGED damaged, receipt' \subseteq Requests PROVE RowTypes'
  BY <1>c, <1>h DEF RowTypes
<1>i. ASSUME UNCHANGED cursor, tick' \in [left : SUBSET Requests, last : 0 .. RequestCount] PROVE LeaderTypes'
  BY <1>c, <1>i DEF LeaderTypes
<1>1. ASSUME NEW r \in Requests, SendAttempt(r) PROVE RequestTypeOK'
  <2>1. client[r].n + 1 \in 1 .. MaxSends
    BY <1>1, <1>c, Naming DEF SendAttempt
  <2>2. LaptopTypes'
    <3>1. [waits |-> TRUE, n |-> client[r].n + 1] \in [waits : BOOLEAN, n : 0 .. MaxSends]
      BY <2>1, Naming
    <3>2. client' \in [Requests -> [waits : BOOLEAN, n : 0 .. MaxSends]]
      BY <1>1, <1>c, <3>1 DEF SendAttempt
    <3>3. flight[r] \cup {client[r].n + 1} \in SUBSET (1 .. MaxSends)
      BY <1>c, <2>1
    <3>4. flight' \in [Requests -> SUBSET (1 .. MaxSends)]
      BY <1>1, <1>c, <3>3 DEF SendAttempt
    <3>5. QED
      BY <1>1, <1>c, <3>2, <3>4 DEF SendAttempt, LaptopTypes
  <2>3. QED
    BY <1>1, <1>d, <1>e, <2>2 DEF SendAttempt, work
<1>2. ASSUME NEW r \in Requests, ConnectionLost(r) PROVE RequestTypeOK'
  <2>1. LaptopTypes'
    BY <1>2, <1>c, ClientEdit DEF ConnectionLost, LaptopTypes
  <2>2. troubles' \in 0 .. MaxTroubles
    BY <1>2, <1>a, <1>d, TroubleType DEF ConnectionLost
  <2>3. QED
    BY <1>2, <1>d, <1>e, <2>1, <2>2 DEF ConnectionLost, work
<1>3. ASSUME NEW r \in Requests, NEW n \in flight[r], TakeLock(r, n) PROVE RequestTypeOK'
  <2>1. n \in 0 .. Leader
    BY <1>c, Naming
  <2>2. hold' \in [Requests -> Handlers]
    BY <1>3, <1>a, <2>1, TakenTypes DEF TakeLock
  <2>3. flight' \in [Requests -> SUBSET (1 .. MaxSends)]
    BY <1>3, <1>c DEF TakeLock
  <2>4. LaptopTypes'
    BY <1>3, <1>c, <2>3 DEF TakeLock, LaptopTypes
  <2>5. QED
    BY <1>3, <1>d, <1>e, <2>2, <2>4 DEF TakeLock, work
<1>4. ASSUME NEW r \in Requests, NEW n \in flight[r], RefuseDamaged(r, n) PROVE RequestTypeOK'
  <2>1. flight' \in [Requests -> SUBSET (1 .. MaxSends)]
    BY <1>4, <1>c DEF RefuseDamaged
  <2>2. client' \in [Requests -> [waits : BOOLEAN, n : 0 .. MaxSends]]
    BY <1>4, <1>c, ClientEdit DEF RefuseDamaged
  <2>3. envelope' \in [Requests -> {"none", "pending", "acknowledged", "rejected"}]
    BY <1>4, <1>a, <1>c, SettleType DEF RefuseDamaged
  <2>4. QED
    BY <1>4, <1>d, <1>e, <2>1, <2>2, <2>3 DEF RefuseDamaged, work, LaptopTypes
<1>5. ASSUME NEW r \in Requests, PrepareRequest(r) PROVE RequestTypeOK'
  <2>1. hold' \in [Requests -> Handlers]
    BY <1>5, <1>a, <1>c, <1>f, MovedTypes, SnapshotType DEF PrepareRequest
  <2>2. RowTypes'
    BY <1>5, <1>c, <1>h DEF PrepareRequest
  <2>3. QED
    BY <1>5, <1>d, <1>e, <2>1, <2>2 DEF PrepareRequest, work
<1>6. ASSUME NEW r \in Requests, RefuseRequest(r) PROVE RequestTypeOK'
  <2>1. LaptopTypes' /\ hold' \in [Requests -> Handlers]
    BY <1>6, <1>a, ReplyParts DEF RefuseRequest
  <2>2. RowTypes'
    BY <1>6, <1>c, <1>h DEF RefuseRequest
  <2>3. QED
    BY <1>6, <1>d, <1>e, <2>1, <2>2 DEF RefuseRequest, work
<1>7. ASSUME NEW r \in Requests, PublishRow(r) PROVE RequestTypeOK'
  <2>1. hold[r].frozen \in Snapshots \cup {<<>>} /\ <<>> \in Snapshots \cup {<<>>}
    BY <1>c DEF Handlers
  <2>2. hold' \in [Requests -> Handlers]
    BY <1>7, <1>a, <2>1, MovedTypes, ResumeType DEF PublishRow
  <2>3. row' \in [Requests -> RowFiles]
    BY <1>7, <1>a, <2>1, RowEdits DEF PublishRow
  <2>4. QED
    BY <1>7, <1>d, <1>e, <1>g, <2>2, <2>3 DEF PublishRow, work
<1>8. ASSUME NEW r \in Requests, Execute(r) PROVE RequestTypeOK'
  <2>1. CASE \E result \in Results : Concluded(r, result) /\ UNCHANGED laptop
    <3>1. hold' \in [Requests -> Handlers]
      BY <1>a, <2>1, ConcludedType
    <3>2. made' \subseteq Requests
      BY <1>8, <1>c DEF Execute, ExecuteSay, ExecuteCancel, RecordCancel, ExecuteClose, FinishClose,
           ExecuteSubmit, Quiet, Busy, work
    <3>3. QED
      BY <1>8, <1>d, <1>e, <2>1, <3>1, <3>2 DEF Execute, ExecuteSay, ExecuteCancel, RecordCancel,
           ExecuteClose, FinishClose, ExecuteSubmit
  <2>2. CASE ~(\E result \in Results : Concluded(r, result) /\ UNCHANGED laptop)
    <3>1. \/ Busy(r) \/ UNCHANGED <<hold, made, laptop>>
          \/ GoTo(r, "cancelled") /\ UNCHANGED <<made, laptop>>
          \/ GoTo(r, "closing") /\ UNCHANGED <<made, laptop>>
      BY <1>8, <1>f, <2>2 DEF Execute, ExecuteSay, ExecuteCancel, RecordCancel, ExecuteClose,
           FinishClose, ExecuteSubmit, Quiet
    <3>2. LaptopTypes' /\ hold' \in [Requests -> Handlers] /\ UNCHANGED made
      BY <1>a, <1>d, <1>f, <3>1, ReplyParts, MovedTypes DEF Busy, work
    <3>3. QED
      BY <1>8, <1>d, <1>e, <3>2 DEF Execute, ExecuteSay, ExecuteCancel, RecordCancel,
           ExecuteClose, FinishClose, ExecuteSubmit
  <2>3. QED
    BY <2>1, <2>2
<1>9. ASSUME NEW r \in Requests, SaveResult(r) PROVE RequestTypeOK'
  <2>1. hold[r].result \in Results
    BY <1>c DEF Handlers
  <2>2. hold' \in [Requests -> Handlers]
    BY <1>9, <1>a, <1>f, MovedTypes DEF SaveResult
  <2>3. row' \in [Requests -> RowFiles]
    BY <1>9, <1>a, <2>1, RowEdits DEF SaveResult
  <2>4. QED
    BY <1>9, <1>d, <1>e, <1>g, <2>2, <2>3 DEF SaveResult, work
<1>10. ASSUME NEW r \in Requests, SaveAck(r) PROVE RequestTypeOK'
  <2>1. hold' \in [Requests -> Handlers]
    BY <1>10, <1>a, <1>f, MovedTypes DEF SaveAck
  <2>2. row' \in [Requests -> RowFiles]
    BY <1>10, <1>a, RowEdits DEF SaveAck
  <2>3. QED
    BY <1>10, <1>d, <1>e, <1>g, <2>1, <2>2 DEF SaveAck, work
<1>11. ASSUME NEW r \in Requests, RetireReceipt(r) PROVE RequestTypeOK'
  <2>1. LaptopTypes' /\ hold' \in [Requests -> Handlers]
    BY <1>11, <1>a, ReplyParts DEF RetireReceipt
  <2>2. RowTypes'
    BY <1>11, <1>c, <1>h DEF RetireReceipt
  <2>3. QED
    BY <1>11, <1>d, <1>e, <2>1, <2>2 DEF RetireReceipt, work
<1>12. ASSUME NEW r \in Requests, DriveFails(r) PROVE RequestTypeOK'
  <2>1. LaptopTypes' /\ hold' \in [Requests -> Handlers]
    BY <1>12, <1>a, ReplyParts DEF DriveFails
  <2>2. QED
    BY <1>12, <1>a, <1>d, <1>e, <2>1, TroubleType DEF DriveFails, work
<1>13. ASSUME NEW r \in Requests, HandlerDies(r) PROVE RequestTypeOK'
  <2>1. hold' \in [Requests -> Handlers]
    BY <1>13, <1>c, BlankTypes DEF HandlerDies
  <2>2. QED
    BY <1>13, <1>a, <1>d, <1>e, <2>1, TroubleType DEF HandlerDies, work
<1>14. ASSUME NEW r \in Requests, DamageRow(r) PROVE RequestTypeOK'
  <2>1. RowTypes'
    BY <1>14, <1>c DEF DamageRow, RowTypes
  <2>2. QED
    BY <1>14, <1>a, <1>d, <1>e, <2>1, TroubleType DEF DamageRow, work
<1>15. ASSUME StartTick PROVE RequestTypeOK'
  <2>1. tick' \in [left : SUBSET Requests, last : 0 .. RequestCount]
    BY <1>15, <1>c, Naming DEF StartTick, NoTick
  <2>2. QED
    BY <1>15, <1>d, <1>e, <1>i, <2>1 DEF StartTick, work
<1>16. ASSUME NEW r \in Requests, SkipName(r) PROVE RequestTypeOK'
  <2>1. tick' \in [left : SUBSET Requests, last : 0 .. RequestCount]
    BY <1>16, <1>c, Naming DEF SkipName, NextName
  <2>2. RowTypes'
    BY <1>16, <1>c, <1>h DEF SkipName
  <2>3. QED
    BY <1>16, <1>d, <1>e, <1>i, <2>1, <2>2 DEF SkipName, work
<1>17. ASSUME NEW r \in Requests, ResumeName(r) PROVE RequestTypeOK'
  <2>1. tick' \in [left : SUBSET Requests, last : 0 .. RequestCount]
    BY <1>17, <1>c, Naming DEF ResumeName, NextName
  <2>2. hold' \in [Requests -> Handlers]
    BY <1>17, <1>a, Naming, TakenTypes DEF ResumeName
  <2>3. QED
    BY <1>17, <1>d, <1>e, <1>i, <2>1, <2>2 DEF ResumeName, work
<1>18. ASSUME EndTick PROVE RequestTypeOK'
  <2>1. LeaderTypes'
    BY <1>18, <1>c, Naming DEF EndTick, NoTick, LeaderTypes
  <2>2. QED
    BY <1>18, <1>d, <1>e, <2>1 DEF EndTick, work
<1>19. ASSUME LeaderDies PROVE RequestTypeOK'
  <2>1. hold' \in [Requests -> Handlers]
    BY <1>19, <1>c, BlankTypes DEF LeaderDies
  <2>2. tick' \in [left : SUBSET Requests, last : 0 .. RequestCount]
    BY <1>19, Naming DEF LeaderDies, NoTick
  <2>3. QED
    BY <1>19, <1>a, <1>d, <1>e, <1>i, <2>1, <2>2, TroubleType DEF LeaderDies, work
<1>20. ASSUME TurnEnds \/ ImportEnd PROVE RequestTypeOK'
  BY <1>20, <1>d, <1>e DEF TurnEnds, ImportEnd
<1>21. CASE UNCHANGED requestVars
  BY <1>21, <1>a DEF requestVars, RequestTypeOK
<1>22. QED
  BY <1>1, <1>2, <1>3, <1>4, <1>5, <1>6, <1>7, <1>8, <1>9, <1>10, <1>11, <1>12, <1>13, <1>14, <1>15,
     <1>16, <1>17, <1>18, <1>19, <1>20, <1>21 DEF RequestNext, Tick, Handle

-----------------------------------------------------------------------------
(* What a step can do to the lock and the row of one request. *)

Takes(q) == /\ hold'[q].at = IF row[q] = NoRow THEN "prepare" ELSE Resume(q)
            /\ row'[q] = row[q]
Prepares(q) == /\ hold[q].at = "prepare" /\ Preparable(q) /\ row'[q] = row[q]
               /\ hold'[q].at = "publish" /\ hold'[q].frozen = Snapshot /\ task' = task
Publishes(q) == /\ hold[q].at = "publish" /\ hold'[q].at = cmd[q] /\ task' = task
                /\ row'[q] = [phase |-> "published", result |-> "none", frozen |-> hold[q].frozen]
Concludes(q) == /\ Execute(q) /\ row' = row
                /\ hold[q].at \in Commands \cup {"cancelled", "closing"}
                /\ hold'[q].at = "result" /\ hold'[q].result \in {"ok", "rejected"}
Cancels(q) == /\ hold[q].at = "cancel" /\ hold'[q].at = "cancelled" /\ row'[q] = row[q]
              /\ Snapshot = row[q].frozen /\ Last.end = "none"
              /\ task'.host.end # "none"
Closes(q) == /\ hold[q].at = "close" /\ hold'[q].at = "closing" /\ row'[q] = row[q]
             /\ task'.closing # 0
Saves(q) == /\ hold[q].at = "result" /\ hold'[q].at = "ack" /\ task' = task /\ made' = made
            /\ row'[q] = [row[q] EXCEPT !.result = hold[q].result]
Acks(q) == /\ hold[q].at = "ack" /\ hold'[q].at = "retire"
           /\ row'[q] = [row[q] EXCEPT !.phase = "acked"]

RequestMove(q) ==
    \/ hold'[q] = hold[q] /\ row'[q] = row[q]
    \/ hold'[q] = Free /\ row'[q] = row[q]
    \/ Takes(q) \/ Prepares(q) \/ Publishes(q) \/ Concludes(q) \/ Cancels(q) \/ Closes(q)
    \/ Saves(q) \/ Acks(q)

(* A laptop hears "acknowledged" only from the holder of an acknowledged row. *)
Hears(q) == \/ envelope'[q] = "acknowledged" => envelope[q] = "acknowledged"
            \/ /\ hold[q].at = "retire" /\ row[q].result # "rejected" /\ row' = row

Makes == made' = made \/ \E q \in Requests : hold[q].at = "submit" /\ made' = made \cup {q}

LEMMA ReplyMove ==
    ASSUME RequestTypeOK, NEW r \in Requests, NEW verdict, Reply(r, verdict), row' = row,
           verdict = "acknowledged" => hold[r].at = "retire" /\ row[r].result # "rejected"
    PROVE  \A q \in Requests : RequestMove(q) /\ Hears(q)
<1> SUFFICES ASSUME NEW q \in Requests PROVE RequestMove(q) /\ Hears(q)
  OBVIOUS
<1>1. RequestMove(q)
  BY DEF Reply, RequestMove, RequestTypeOK
<1>2. Hears(q)
  BY DEF Reply, Hears, SettleEnvelope, RequestTypeOK
<1>3. QED
  BY <1>1, <1>2

LEMMA RequestMoves ==
    RequestInv /\ [RequestNext]_requestVars =>
        cmd' = cmd /\ Makes /\ \A q \in Requests : RequestMove(q) /\ Hears(q)
<1> SUFFICES ASSUME RequestInv, [RequestNext]_requestVars
             PROVE  cmd' = cmd /\ Makes /\ \A q \in Requests : RequestMove(q) /\ Hears(q)
  OBVIOUS
<1>a. /\ RequestTypeOK
      /\ cmd \in [Requests -> Commands]
      /\ hold \in [Requests -> Handlers] /\ row \in [Requests -> RowFiles] /\ task \in TaskRecords
      /\ envelope \in [Requests -> {"none", "pending", "acknowledged", "rejected"}]
  BY DEF RequestInv, RequestTypeOK
<1>b. cmd' = cmd
  BY DEF RequestNext, Tick, Handle, Execute, SendAttempt, ConnectionLost, TakeLock, RefuseDamaged,
     PrepareRequest, RefuseRequest, PublishRow, ExecuteSay, ExecuteCancel, RecordCancel, ExecuteClose,
     FinishClose, ExecuteSubmit, SaveResult, SaveAck, RetireReceipt, DriveFails, HandlerDies, DamageRow,
     StartTick, SkipName, ResumeName, EndTick, LeaderDies, TurnEnds, ImportEnd, requestVars
<1>c. Makes
  BY DEF RequestNext, Tick, Handle, Execute, SendAttempt, ConnectionLost, TakeLock, RefuseDamaged,
     PrepareRequest, RefuseRequest, PublishRow, ExecuteSay, ExecuteCancel, RecordCancel, ExecuteClose,
     FinishClose, ExecuteSubmit, SaveResult, SaveAck, RetireReceipt, DriveFails, HandlerDies, DamageRow,
     StartTick, SkipName, ResumeName, EndTick, LeaderDies, TurnEnds, ImportEnd, requestVars, work,
     Makes, Quiet, Busy, At
<1> DEFINE Moves == \A q \in Requests : RequestMove(q) /\ Hears(q)
<1>d. ASSUME UNCHANGED <<hold, row, envelope>> PROVE Moves
  BY <1>d DEF RequestMove, Hears
<1>e. ASSUME UNCHANGED envelope PROVE \A q \in Requests : Hears(q)
  BY <1>e DEF Hears
<1>f. ASSUME NEW r \in Requests, row' = row, NEW place, NEW result,
             hold' = [hold EXCEPT ![r].at = place, ![r].result = result]
      PROVE  /\ hold'[r].at = place /\ hold'[r].result = result /\ row'[r] = row[r]
             /\ \A q \in Requests \ {r} : RequestMove(q)
  BY <1>a, <1>f DEF RequestMove, Handlers
<1>g. ASSUME NEW r \in Requests, row' = row, NEW place, hold' = [hold EXCEPT ![r].at = place]
      PROVE  /\ hold'[r].at = place /\ row'[r] = row[r]
             /\ \A q \in Requests \ {r} : RequestMove(q)
  BY <1>a, <1>g DEF RequestMove, Handlers
<1>1. ASSUME NEW r \in Requests, SendAttempt(r) PROVE Moves
  BY <1>1, <1>a DEF SendAttempt, rows, RequestMove, Hears
<1>2. ASSUME NEW r \in Requests, ConnectionLost(r) \/ DamageRow(r) PROVE Moves
  BY <1>2, <1>d DEF ConnectionLost, DamageRow, rows, laptop
<1>3. ASSUME NEW r \in Requests, NEW n \in flight[r], TakeLock(r, n) PROVE Moves
  <2>1. hold'[r].at = IF row[r] = NoRow THEN "prepare" ELSE Resume(r)
    BY <1>3, <1>a DEF TakeLock, Free
  <2>2. QED
    BY <1>3, <1>a, <1>e, <2>1 DEF TakeLock, rows, RequestMove, Takes
<1>4. ASSUME NEW r \in Requests, NEW n \in flight[r], RefuseDamaged(r, n) PROVE Moves
  BY <1>4, <1>a DEF RefuseDamaged, rows, SettleEnvelope, RequestMove, Hears
<1>5. ASSUME NEW r \in Requests, PrepareRequest(r) PROVE Moves
  <2>1. Prepares(r)
    BY <1>5, <1>a DEF PrepareRequest, At, Prepares, work, Handlers
  <2>2. QED
    BY <1>5, <1>a, <1>e, <2>1 DEF PrepareRequest, laptop, RequestMove
<1>6. ASSUME NEW r \in Requests, RefuseRequest(r) PROVE Moves
  BY <1>6, <1>a, ReplyMove DEF RefuseRequest
<1>7. ASSUME NEW r \in Requests, PublishRow(r) PROVE Moves
  <2>1. Publishes(r)
    BY <1>7, <1>a DEF PublishRow, At, Publishes, work, Handlers
  <2>2. QED
    BY <1>7, <1>a, <1>e, <2>1 DEF PublishRow, laptop, RequestMove
<1>8. ASSUME NEW r \in Requests, Execute(r) PROVE Moves
  <2>1. row' = row /\ hold[r].at \in Commands \cup {"cancelled", "closing"}
    BY <1>8 DEF Execute, ExecuteSay, ExecuteCancel, RecordCancel, ExecuteClose, FinishClose,
       ExecuteSubmit, rows, At, Commands
  <2>2. CASE \E result \in {"ok", "rejected"} : Concluded(r, result) /\ UNCHANGED laptop
    <3>1. PICK result \in {"ok", "rejected"} : Concluded(r, result) /\ UNCHANGED laptop
      BY <2>2
    <3>2. Concludes(r) /\ \A q \in Requests \ {r} : RequestMove(q)
      BY <1>8, <2>1, <3>1, <1>f DEF Concluded, Concludes
    <3>3. QED
      BY <1>e, <3>1, <3>2 DEF RequestMove, laptop
  <2>3. CASE Busy(r)
    BY <2>1, <2>3, <1>a, ReplyMove DEF Busy
  <2>4. CASE UNCHANGED <<hold, made, laptop>>
    BY <2>1, <2>4, <1>d DEF laptop
  <2>5. CASE /\ At(r, "cancel") /\ RevisionMatches(row[r].frozen) /\ Last.end = "none"
             /\ task' = [task EXCEPT !.host = IF @.end = "none"
                                     THEN [end |-> "cancelled", by |-> r] ELSE @]
             /\ GoTo(r, "cancelled") /\ UNCHANGED <<made, laptop>>
    <3>1. task'.host.end # "none"
      BY <1>a, <2>5 DEF TaskRecords
    <3>2. Cancels(r) /\ \A q \in Requests \ {r} : RequestMove(q)
      BY <2>1, <2>5, <3>1, <1>g DEF GoTo, Cancels, At, RevisionMatches
    <3>3. QED
      BY <1>e, <2>5, <3>2 DEF RequestMove, laptop
  <2>6. CASE /\ At(r, "close") /\ task' = [task EXCEPT !.closing = IF @ = 0 THEN r ELSE @]
             /\ GoTo(r, "closing") /\ UNCHANGED <<made, laptop>>
    <3>1. task'.closing # 0
      BY <1>a, <2>6, Naming DEF TaskRecords
    <3>2. Closes(r) /\ \A q \in Requests \ {r} : RequestMove(q)
      BY <2>1, <2>6, <3>1, <1>g DEF GoTo, Closes, At
    <3>3. QED
      BY <1>e, <2>6, <3>2 DEF RequestMove, laptop
  <2>7. QED
    BY <1>8, <2>2, <2>3, <2>4, <2>5, <2>6 DEF Execute, ExecuteSay, ExecuteCancel, RecordCancel,
       ExecuteClose, FinishClose, ExecuteSubmit, Quiet
<1>9. ASSUME NEW r \in Requests, SaveResult(r) PROVE Moves
  <2>1. Saves(r)
    BY <1>9, <1>a DEF SaveResult, At, Saves, work, Handlers
  <2>2. QED
    BY <1>9, <1>a, <1>e, <2>1 DEF SaveResult, laptop, RequestMove
<1>10. ASSUME NEW r \in Requests, SaveAck(r) PROVE Moves
  <2>1. Acks(r)
    BY <1>10, <1>a DEF SaveAck, At, GoTo, Acks, Handlers
  <2>2. QED
    BY <1>10, <1>a, <1>e, <2>1 DEF SaveAck, GoTo, laptop, RequestMove
<1>11. ASSUME NEW r \in Requests, RetireReceipt(r) PROVE Moves
  BY <1>11, <1>a, ReplyMove DEF RetireReceipt, At
<1>12. ASSUME NEW r \in Requests, DriveFails(r) PROVE Moves
  BY <1>12, <1>a, ReplyMove DEF DriveFails, rows
<1>13. ASSUME NEW r \in Requests, HandlerDies(r) PROVE Moves
  BY <1>13, <1>a, <1>e DEF HandlerDies, rows, laptop, RequestMove
<1>14. ASSUME StartTick \/ EndTick \/ TurnEnds \/ ImportEnd \/ UNCHANGED requestVars PROVE Moves
  BY <1>14, <1>d DEF StartTick, EndTick, TurnEnds, ImportEnd, requestVars, rows, laptop
<1>15. ASSUME NEW r \in Requests, SkipName(r) PROVE Moves
  BY <1>15, <1>d DEF SkipName, laptop
<1>16. ASSUME NEW r \in Requests, ResumeName(r) PROVE Moves
  <2>1. hold'[r].at = Resume(r) /\ row[r] # NoRow
    BY <1>16, <1>a DEF ResumeName, Free
  <2>2. QED
    BY <1>16, <1>a, <1>e, <2>1 DEF ResumeName, rows, laptop, RequestMove, Takes
<1>17. ASSUME LeaderDies PROVE Moves
  BY <1>17, <1>a, <1>e DEF LeaderDies, rows, laptop, RequestMove
<1>18. Moves
  BY <1>1, <1>2, <1>3, <1>4, <1>5, <1>6, <1>7, <1>8, <1>9, <1>10, <1>11, <1>12, <1>13, <1>14, <1>15,
     <1>16, <1>17 DEF RequestNext, Tick, Handle
<1>19. QED
  BY <1>b, <1>c, <1>18

LEMMA StagesStep ==
    ASSUME RequestInv, cmd' = cmd, \A q \in Requests : RequestMove(q)
    PROVE  Stages'
<1> SUFFICES ASSUME NEW q \in Requests PROVE StageOf(q)'
  BY DEF Stages
<1>a. /\ StageOf(q) /\ RequestMove(q)
      /\ cmd[q] \in Commands /\ hold[q] \in Handlers /\ row[q] \in RowFiles
  BY DEF RequestInv, Stages, RequestTypeOK
<1>1. CASE (hold'[q] = hold[q] \/ hold'[q] = Free) /\ row'[q] = row[q]
  BY <1>1, <1>a DEF StageOf, Free, Executing, Commands
<1>2. CASE Takes(q)
  <2>1. CASE row[q] = NoRow
    BY <1>2, <1>a, <2>1 DEF Takes, StageOf, Executing, Commands, NoRow
  <2>2. CASE row[q] # NoRow
    <3>1. row[q].phase \in {"published", "acked"}
      BY <1>a, <2>2 DEF StageOf, RowFiles
    <3>2. hold'[q].at = Resume(q)
      BY <1>2, <2>2 DEF Takes
    <3>3. QED
      BY <1>2, <1>a, <3>1, <3>2 DEF Takes, StageOf, Resume, Executing, Commands, RowFiles
  <2>3. QED
    BY <2>1, <2>2
<1>3. CASE Prepares(q)
  BY <1>3, <1>a DEF Prepares, StageOf, Executing, Commands
<1>4. CASE Publishes(q)
  BY <1>4, <1>a DEF Publishes, StageOf, Executing, Commands
<1>5. CASE Concludes(q)
  BY <1>5, <1>a DEF Concludes, StageOf, Executing, Commands
<1>6. CASE Cancels(q) \/ Closes(q)
  BY <1>6, <1>a DEF Cancels, Closes, StageOf, Executing, Commands
<1>7. CASE Saves(q)
  <2>1. row'[q].phase = "published" /\ row'[q].result = hold[q].result /\ hold[q].result # "none"
    BY <1>7, <1>a DEF Saves, StageOf, RowFiles, Executing
  <2>2. QED
    BY <1>7, <2>1 DEF Saves, StageOf, Executing, Commands
<1>8. CASE Acks(q)
  <2>1. row'[q].phase = "acked" /\ row'[q].result = row[q].result /\ row[q].result # "none"
    BY <1>8, <1>a DEF Acks, StageOf, RowFiles
  <2>2. QED
    BY <1>8, <2>1 DEF Acks, StageOf, Executing, Commands
<1>9. QED
  BY <1>a, <1>1, <1>2, <1>3, <1>4, <1>5, <1>6, <1>7, <1>8 DEF RequestMove

(* A published row keeps its snapshot, and its result once it has one. *)
LEMMA RowsKept ==
    ASSUME RequestInv, cmd' = cmd, \A q \in Requests : RequestMove(q)
    PROVE  /\ \A q \in Requests : HasRow(q) => HasRow(q)' /\ row'[q].frozen = row[q].frozen
           /\ \A q \in Requests : row[q].result # "none" => row'[q].result = row[q].result
           /\ \A q \in Requests : row[q].phase = "acked" => row'[q].phase = "acked"
           /\ \A x, c : By(x, c) => By(x, c)' /\ row'[x].frozen = row[x].frozen
<1>1. ASSUME NEW q \in Requests
      PROVE  /\ HasRow(q) => HasRow(q)' /\ row'[q].frozen = row[q].frozen
             /\ row[q].result # "none" => row'[q].result = row[q].result
             /\ row[q].phase = "acked" => row'[q].phase = "acked"
  <2>1. RequestMove(q) /\ StageOf(q) /\ row[q] \in RowFiles
    BY DEF RequestInv, Stages, RequestTypeOK
  <2>2. CASE row'[q] = row[q]
    BY <2>2 DEF HasRow
  <2>3. CASE Publishes(q)
    BY <2>1, <2>3 DEF Publishes, StageOf, HasRow, NoRow
  <2>4. CASE Saves(q)
    BY <2>1, <2>4 DEF Saves, StageOf, HasRow, RowFiles, Executing
  <2>5. CASE Acks(q)
    BY <2>1, <2>5 DEF Acks, StageOf, HasRow, RowFiles
  <2>6. QED
    BY <2>1, <2>2, <2>3, <2>4, <2>5
    DEF RequestMove, Takes, Prepares, Concludes, Cancels, Closes
<1>2. ASSUME NEW x, NEW c, By(x, c) PROVE By(x, c)' /\ row'[x].frozen = row[x].frozen
  BY <1>1, <1>2 DEF By
<1>3. QED
  BY <1>1, <1>2

-----------------------------------------------------------------------------
(* The task after a move, field by field. *)

LEMMA AppendsTo ==
    ASSUME task \in TaskRecords, NEW r, Appends(r)
    PROVE  /\ task'.turns = Append(task.turns, Turn(r)) /\ task'.state = "active"
           /\ task'.closing = task.closing /\ task'.closed = task.closed
           /\ task'.host = [end |-> "none", by |-> 0]
  BY DEF Appends, TaskRecords

LEMMA StartsTo ==
    ASSUME task \in TaskRecords, Starts
    PROVE  /\ task'.turns = StartLast /\ task'.state = task.state /\ task'.rev = task.rev
           /\ task'.closing = task.closing /\ task'.closed = task.closed
           /\ task'.host = task.host
  BY DEF Starts, TaskRecords

LEMMA EndsTo ==
    ASSUME task \in TaskRecords, NEW e, NEW x, Ends(e, x)
    PROVE  /\ task'.turns = EndLast(e, x) /\ task'.state = "open"
           /\ task'.closing = task.closing /\ task'.closed = task.closed
           /\ task'.host.end = e /\ task'.host.by = x
  BY DEF Ends, TaskRecords

LEMMA HostsTo ==
    ASSUME task \in TaskRecords, NEW e, NEW x, Hosts(e, x)
    PROVE  /\ task'.turns = task.turns /\ task'.state = task.state /\ task'.rev = task.rev
           /\ task'.closing = task.closing /\ task'.closed = task.closed
           /\ task'.host.end = e /\ task'.host.by = x
  BY DEF Hosts, TaskRecords

LEMMA ClosingTo ==
    ASSUME task \in TaskRecords, NEW r, task' = [task EXCEPT !.closing = r]
    PROVE  /\ task'.turns = task.turns /\ task'.state = task.state /\ task'.rev = task.rev
           /\ task'.closing = r /\ task'.closed = task.closed /\ task'.host = task.host
  BY DEF TaskRecords

LEMMA FinishesTo ==
    ASSUME task \in TaskRecords, Finishes
    PROVE  /\ task'.turns = task.turns /\ task'.state = "closed"
           /\ task'.closing = 0 /\ task'.closed = task.closing /\ task'.host = task.host
  BY DEF Finishes, TaskRecords

(* The turns only grow, keep who asked for them, and stay ended; a closed task
   gets no more of them. *)
TurnsGrow ==
    /\ Len(task'.turns) \in Nat
    /\ Len(task.turns) <= Len(task'.turns)
    /\ \A i \in 1 .. Len(task.turns) :
          /\ task'.turns[i].by = task.turns[i].by
          /\ task.turns[i].end # "none" => task'.turns[i].end # "none"
    /\ task.state = "closed" => task'.state = "closed"

LEMMA SayIsAlone ==
    ASSUME RequestInv, NEW r \in Requests, hold[r].at = "say", Snapshot = row[r].frozen
    PROVE  task.state = "open" /\ By(r, "say") /\ row[r].frozen.len = Len(task.turns)
<1>1. By(r, "say") /\ HasRow(r)
  BY DEF RequestInv, Stages, StageOf, Executing, Commands, By, HasRow
<1>2. row[r].frozen.state = "open"
  BY <1>1 DEF RequestInv, Snaps, Sound, By
<1>3. QED
  BY <1>1, <1>2 DEF Snapshot

LEMMA TurnsKept == RequestInv /\ TaskMove => TurnsGrow
<1> SUFFICES ASSUME RequestInv, TaskMove PROVE TurnsGrow
  OBVIOUS
<1>a. task \in TaskRecords /\ Len(task.turns) > 0 /\ Len(task.turns) \in Nat /\ task.turns \in Seq(TurnRecords)
  BY LastType DEF RequestInv, RequestTypeOK, TaskState, TaskRecords
<1>1. CASE task'.turns = task.turns /\ (task.state = "closed" => task'.state = "closed")
  BY <1>1, <1>a DEF TurnsGrow
<1>2. ASSUME NEW r \in Requests, hold[r].at = "say", Snapshot = row[r].frozen, Appends(r)
      PROVE  TurnsGrow
  <2>1. Turn(r) \in TurnRecords /\ task.state # "closed"
    BY <1>2, TurnType, SayIsAlone, Naming
  <2>2. /\ Len(task'.turns) = Len(task.turns) + 1
        /\ \A i \in 1 .. Len(task.turns) : task'.turns[i] = task.turns[i]
    BY <1>a, <1>2, <2>1, AppendsTo
  <2>3. QED
    BY <1>a, <2>1, <2>2 DEF TurnsGrow
<1>3. CASE Starts
  BY <1>a, <1>3, StartsTo, StartLastIs DEF TurnsGrow
<1>4. ASSUME NEW e \in {"done", "cancelled"}, NEW x \in 0 .. RequestCount, Last.end = "none", Ends(e, x)
      PROVE  TurnsGrow
  <2>1. task.state # "closed"
    BY <1>4 DEF RequestInv, TaskState
  <2>2. /\ Len(EndLast(e, x)) = Len(task.turns)
        /\ \A i \in 1 .. Len(task.turns) :
              /\ EndLast(e, x)[i].by = task.turns[i].by
              /\ EndLast(e, x)[i].end = IF i = Len(task.turns) THEN e ELSE task.turns[i].end
    BY <1>a, EndLastIs
  <2>3. task'.turns = EndLast(e, x)
    BY <1>a, <1>4, EndsTo
  <2>4. QED
    BY <1>a, <2>1, <2>2, <2>3 DEF TurnsGrow
<1>5. ASSUME NEW e \in {"done", "cancelled"}, NEW x \in 0 .. RequestCount, Hosts(e, x)
      PROVE  TurnsGrow
  BY <1>a, <1>1, <1>5, HostsTo
<1>6. ASSUME NEW r \in Requests, task' = [task EXCEPT !.closing = r] PROVE TurnsGrow
  BY <1>a, <1>1, <1>6, ClosingTo
<1>7. CASE Finishes
  BY <1>a, <1>1, <1>7, FinishesTo
<1>8. QED
  BY <1>1, <1>2, <1>3, <1>4, <1>5, <1>6, <1>7 DEF TaskMove

LEMMA HasTurnKept ==
    ASSUME RequestInv, TurnsGrow, NEW r, HasTurn(r), task' \in TaskRecords
    PROVE  HasTurn(r)'
<1>a. task.turns \in Seq(TurnRecords) /\ task'.turns \in Seq(TurnRecords)
  BY DEF RequestInv, RequestTypeOK, TaskRecords
<1>1. PICK i \in 1 .. Len(task.turns) : task.turns[i].by = r
  BY <1>a DEF HasTurn
<1>2. i \in 1 .. Len(task'.turns) /\ task'.turns[i].by = r
  BY <1>1 DEF TurnsGrow
<1>3. QED
  BY <1>a, <1>2 DEF HasTurn

(* What the host knows of the last turn, and an intent to close, stay. *)
LEMMA TaskKept ==
    RequestInv /\ TaskMove =>
        /\ Len(task'.turns) = Len(task.turns) /\ task.host.end # "none" => task'.host.end # "none"
        /\ task.closing # 0 => task'.closing # 0 \/ task'.state = "closed"
<1> SUFFICES ASSUME RequestInv, TaskMove
             PROVE  /\ Len(task'.turns) = Len(task.turns) /\ task.host.end # "none"
                          => task'.host.end # "none"
                    /\ task.closing # 0 => task'.closing # 0 \/ task'.state = "closed"
  OBVIOUS
<1>a. task \in TaskRecords /\ Len(task.turns) \in Nat /\ task.turns \in Seq(TurnRecords)
  BY DEF RequestInv, RequestTypeOK, TaskRecords
<1>1. CASE task'.host = task.host /\ (task'.closing = task.closing \/ task'.closing # 0)
  BY <1>1
<1>2. ASSUME NEW r \in Requests, task.closing = 0, Appends(r)
      PROVE  Len(task'.turns) # Len(task.turns)
  <2>1. Turn(r) \in TurnRecords
    BY TurnType, Naming
  <2>2. QED
    BY <1>a, <1>2, <2>1, AppendsTo
<1>3. ASSUME NEW e \in {"done", "cancelled"}, NEW x, Ends(e, x) \/ Hosts(e, x)
      PROVE  task'.host.end # "none" /\ task'.closing = task.closing
  <2>1. CASE Ends(e, x)
    BY <1>a, <2>1, EndsTo
  <2>2. CASE Hosts(e, x)
    BY <1>a, <2>2, HostsTo
  <2>3. QED
    BY <1>3, <2>1, <2>2
<1>4. ASSUME NEW r \in Requests, task' = [task EXCEPT !.closing = r]
      PROVE  task'.host = task.host /\ task'.closing # 0
  BY <1>a, <1>4, ClosingTo, Naming
<1>5. CASE Finishes
  BY <1>a, <1>5, FinishesTo
<1>6. CASE Starts
  BY <1>a, <1>1, <1>6, StartsTo
<1>7. QED
  BY <1>1, <1>2, <1>3, <1>4, <1>5, <1>6 DEF TaskMove

LEMMA SnapsStep ==
    ASSUME RequestInv, TaskMove, cmd' = cmd, task' \in TaskRecords,
           \A q \in Requests : RequestMove(q), Stages'
    PROVE  Snaps'
<1> SUFFICES ASSUME NEW q \in Requests
             PROVE  /\ HasRow(q)' => Sound(q, row[q].frozen)'
                    /\ hold'[q].at = "publish" => Sound(q, hold[q].frozen)'
                    /\ hold'[q].at = "cancelled" =>
                          /\ row'[q].frozen.state = "active"
                          /\ row'[q].frozen.len = Len(task'.turns) => task'.host.end # "none"
                    /\ hold'[q].at = "closing" => task'.state = "closed" \/ task'.closing # 0
  BY DEF Snaps
<1>a. /\ RequestMove(q) /\ StageOf(q) /\ StageOf(q)' /\ TurnsGrow
      /\ Len(task.turns) \in Nat /\ Len(task.turns) > 0 /\ task \in TaskRecords
      /\ cmd[q] \in Commands /\ row[q] \in RowFiles
  BY TurnsKept, LastType DEF RequestInv, Stages, TaskState, RequestTypeOK
<1>b. HasRow(q) => HasRow(q)' /\ row'[q].frozen = row[q].frozen
  BY RowsKept
<1>c. ASSUME NEW frozen, Sound(q, frozen)
      PROVE  /\ frozen \in Snapshots /\ frozen.len \in 1 .. Len(task'.turns)
             /\ cmd[q] = "say" => frozen.state = "open"
  BY <1>a, <1>c DEF Sound, TurnsGrow
<1>1. HasRow(q)' => Sound(q, row[q].frozen)'
  <2>1. CASE HasRow(q)
    <3>1. Sound(q, row[q].frozen)
      BY <2>1 DEF RequestInv, Snaps
    <3>2. QED
      BY <1>b, <1>c, <2>1, <3>1 DEF Sound
  <2>2. CASE ~HasRow(q) /\ Publishes(q)
    <3>1. Sound(q, hold[q].frozen)
      BY <2>2 DEF RequestInv, Snaps, Publishes
    <3>2. row'[q].frozen = hold[q].frozen
      BY <2>2 DEF Publishes
    <3>3. QED
      BY <1>c, <3>1, <3>2 DEF Sound
  <2>3. CASE ~HasRow(q) /\ ~Publishes(q)
    <3>1. row'[q] = row[q]
      BY <1>a, <2>3 DEF RequestMove, Takes, Prepares, Concludes, Cancels, Closes, Saves, Acks, HasRow,
         StageOf, Executing
    <3>2. QED
      BY <2>3, <3>1 DEF HasRow
  <2>4. QED
    BY <2>1, <2>2, <2>3
<1>2. ASSUME hold'[q].at = "publish" PROVE Sound(q, hold[q].frozen)'
  <2>1. CASE hold'[q] = hold[q]
    <3>1. Sound(q, hold[q].frozen)
      BY <1>2, <2>1 DEF RequestInv, Snaps
    <3>2. QED
      BY <1>c, <2>1, <3>1 DEF Sound
  <2>2. CASE Prepares(q)
    <3>1. Snapshot \in Snapshots /\ Snapshot.len = Len(task.turns) /\ Snapshot.state = task.state
      BY <1>a, SnapshotType DEF Snapshot
    <3>2. Sound(q, Snapshot)
      BY <1>a, <2>2, <3>1 DEF Sound, Prepares, Preparable
    <3>3. QED
      BY <1>c, <2>2, <3>2 DEF Sound, Prepares
  <2>3. QED
    BY <1>2, <1>a, <2>1, <2>2 DEF RequestMove, Takes, Resume, Publishes, Concludes, Cancels, Closes,
       Saves, Acks, Free, Commands
<1>3. ASSUME hold'[q].at = "cancelled"
      PROVE  /\ row'[q].frozen.state = "active"
             /\ row'[q].frozen.len = Len(task'.turns) => task'.host.end # "none"
  <2>1. CASE hold'[q] = hold[q]
    <3>1. /\ HasRow(q) /\ row[q].frozen.state = "active"
          /\ row[q].frozen.len = Len(task.turns) => task.host.end # "none"
      BY <1>3, <1>a, <2>1 DEF RequestInv, Snaps, StageOf, Executing, HasRow
    <3>2. row[q].frozen.len \in 1 .. Len(task.turns)
      BY <3>1 DEF RequestInv, Snaps, Sound
    <3>3. row[q].frozen.len = Len(task'.turns) => Len(task'.turns) = Len(task.turns)
      BY <1>a, <3>2 DEF TurnsGrow
    <3>4. QED
      BY <1>b, <3>1, <3>3, TaskKept
  <2>2. CASE Cancels(q)
    <3>1. row[q].frozen.state = task.state
      BY <2>2 DEF Cancels, Snapshot
    <3>2. task.state = "active"
      BY <2>2 DEF RequestInv, TaskState, Cancels
    <3>3. QED
      BY <2>2, <3>1, <3>2 DEF Cancels
  <2>3. QED
    BY <1>3, <1>a, <2>1, <2>2 DEF RequestMove, Takes, Resume, Publishes, Prepares, Concludes, Closes,
       Saves, Acks, Free, Commands
<1>4. ASSUME hold'[q].at = "closing" PROVE task'.state = "closed" \/ task'.closing # 0
  <2>1. CASE hold'[q] = hold[q]
    BY <1>4, <1>a, <2>1, TaskKept DEF RequestInv, Snaps, TurnsGrow
  <2>2. CASE Closes(q)
    BY <2>2 DEF Closes
  <2>3. QED
    BY <1>4, <1>a, <2>1, <2>2 DEF RequestMove, Takes, Resume, Publishes, Prepares, Concludes, Cancels,
       Saves, Acks, Free, Commands
<1>5. QED
  BY <1>1, <1>2, <1>3, <1>4

(* An intent to close, a close and a cancel that are on the task stay where they
   were aimed while the number of turns does. *)
Aimed(t) ==
    /\ t.closing # 0 => /\ By(t.closing, "close") /\ t.state = "open"
                        /\ [state |-> t.state, rev |-> t.rev, len |-> Len(t.turns)] = row[t.closing].frozen
    /\ t.closed # 0 => /\ By(t.closed, "close") /\ t.state = "closed"
                       /\ Len(t.turns) = row[t.closed].frozen.len
    /\ t.host.by # 0 => By(t.host.by, "cancel") /\ Len(t.turns) = row[t.host.by].frozen.len

LEMMA AimedKept ==
    ASSUME RequestInv, cmd' = cmd, \A q \in Requests : RequestMove(q), Aimed(task')
    PROVE  Aimed(task)'
<1>1. \A x, c : By(x, c) => By(x, c)' /\ row'[x].frozen = row[x].frozen
  BY RowsKept
<1>2. QED
  BY <1>1 DEF Aimed

LEMMA TaskStateStep ==
    ASSUME RequestInv, TaskMove, cmd' = cmd, task' \in TaskRecords, \A q \in Requests : RequestMove(q)
    PROVE  TaskState'
<1>a. /\ task \in TaskRecords /\ Len(task.turns) > 0 /\ Len(task.turns) \in Nat
      /\ task.turns \in Seq(TurnRecords) /\ Aimed(task)
      /\ task.state = "active" <=> Last.end = "none"
  BY LastType DEF RequestInv, RequestTypeOK, TaskState, TaskRecords, Aimed, Snapshot
<1>b. SUFFICES /\ Len(task'.turns) > 0 /\ Aimed(task')
               /\ task'.state = "active" <=> task'.turns[Len(task'.turns)].end = "none"
  <2>1. Aimed(task)'
    BY <1>b, AimedKept
  <2>2. QED
    BY <1>b, <2>1 DEF TaskState, Aimed, Snapshot, Last
<1>1. CASE task' = task
  BY <1>a, <1>1 DEF Last
<1>2. ASSUME NEW r \in Requests, hold[r].at = "say", Snapshot = row[r].frozen, task.closing = 0, Appends(r)
      PROVE  /\ Len(task'.turns) > 0 /\ Aimed(task')
             /\ task'.state = "active" <=> task'.turns[Len(task'.turns)].end = "none"
  <2>1. Turn(r) \in TurnRecords /\ Turn(r).end = "none" /\ task.state = "open"
    BY <1>2, TurnType, SayIsAlone, Naming DEF Turn
  <2>2. Len(task'.turns) = Len(task.turns) + 1 /\ task'.turns[Len(task'.turns)] = Turn(r)
    BY <1>a, <1>2, <2>1, AppendsTo
  <2>3. task'.closing = 0 /\ task'.closed = 0 /\ task'.host.by = 0 /\ task'.state = "active"
    BY <1>a, <1>2, <2>1, AppendsTo DEF Aimed
  <2>4. QED
    BY <1>a, <2>1, <2>2, <2>3 DEF Aimed
<1>3. CASE Starts
  <2>1. /\ Len(StartLast) = Len(task.turns)
        /\ StartLast[Len(task.turns)].end = task.turns[Len(task.turns)].end
    BY <1>a, StartLastIs
  <2>2. QED
    BY <1>a, <1>3, <2>1, StartsTo DEF Aimed, Last
<1>4. ASSUME NEW e \in {"done", "cancelled"}, NEW x \in 0 .. RequestCount, Last.end = "none",
             Stopper(x), Ends(e, x)
      PROVE  /\ Len(task'.turns) > 0 /\ Aimed(task')
             /\ task'.state = "active" <=> task'.turns[Len(task'.turns)].end = "none"
  <2>1. /\ Len(EndLast(e, x)) = Len(task.turns)
        /\ EndLast(e, x)[Len(task.turns)].end = e
    BY <1>a, EndLastIs
  <2>2. /\ task'.turns = EndLast(e, x) /\ task'.state = "open" /\ task'.host.by = x
        /\ task'.closing = task.closing /\ task'.closed = task.closed
    BY <1>a, <1>4, EndsTo
  <2>3. task.closing = 0 /\ task.closed = 0
    BY <1>a, <1>4 DEF Aimed
  <2>4. QED
    BY <1>a, <1>4, <2>1, <2>2, <2>3 DEF Aimed, Stopper
<1>5. ASSUME NEW e \in {"done", "cancelled"}, NEW x \in 0 .. RequestCount, Stopper(x), Hosts(e, x)
      PROVE  /\ Len(task'.turns) > 0 /\ Aimed(task')
             /\ task'.state = "active" <=> task'.turns[Len(task'.turns)].end = "none"
  <2>1. /\ task'.turns = task.turns /\ task'.state = task.state /\ task'.rev = task.rev
        /\ task'.closing = task.closing /\ task'.closed = task.closed /\ task'.host.by = x
    BY <1>a, <1>5, HostsTo
  <2>2. QED
    BY <1>a, <1>5, <2>1 DEF Aimed, Stopper, Last
<1>6. ASSUME NEW r \in Requests, hold[r].at = "close", Snapshot = row[r].frozen,
             task.state = "open", task' = [task EXCEPT !.closing = r]
      PROVE  /\ Len(task'.turns) > 0 /\ Aimed(task')
             /\ task'.state = "active" <=> task'.turns[Len(task'.turns)].end = "none"
  <2>1. By(r, "close")
    BY <1>6 DEF RequestInv, Stages, StageOf, Executing, Commands, By, HasRow
  <2>2. QED
    BY <1>a, <1>6, <2>1, ClosingTo DEF Aimed, Snapshot, Last
<1>7. CASE task.state = "open" /\ task.closing # 0 /\ Finishes
  <2>1. Len(task.turns) = row[task.closing].frozen.len /\ By(task.closing, "close")
    BY <1>a, <1>7 DEF Aimed
  <2>2. QED
    BY <1>a, <1>7, <2>1, FinishesTo DEF Aimed, Last
<1>8. QED
  BY <1>1, <1>2, <1>3, <1>4, <1>5, <1>6, <1>7 DEF TaskMove

(* The marks on one turn. *)
Mark(t, i) ==
    /\ t.by # 0 => By(t.by, "say") /\ i = row[t.by].frozen.len + 1
    /\ t.stop # 0 => By(t.stop, "cancel") /\ i = row[t.stop].frozen.len

LEMMA MarkKept ==
    ASSUME RequestInv, cmd' = cmd, \A q \in Requests : RequestMove(q), NEW i,
           Mark(task'.turns[i], i)
    PROVE  Mark(task.turns[i], i)'
<1>1. \A x, c : By(x, c) => By(x, c)' /\ row'[x].frozen = row[x].frozen
  BY RowsKept
<1>2. QED
  BY <1>1 DEF Mark

LEMMA MarksStep ==
    ASSUME RequestInv, TaskMove, cmd' = cmd, task' \in TaskRecords, \A q \in Requests : RequestMove(q)
    PROVE  Marks'
<1>a. /\ task \in TaskRecords /\ Len(task.turns) > 0 /\ Len(task.turns) \in Nat
      /\ task.turns \in Seq(TurnRecords)
      /\ \A i \in 1 .. Len(task.turns) : Mark(task.turns[i], i)
  BY LastType DEF RequestInv, RequestTypeOK, TaskState, TaskRecords, Marks, Mark
<1>b. SUFFICES ASSUME NEW i \in 1 .. Len(task'.turns) PROVE Mark(task'.turns[i], i)
  <2>1. \A i \in 1 .. Len(task'.turns) : Mark(task.turns[i], i)'
    BY <1>b, MarkKept
  <2>2. QED
    BY <2>1 DEF Marks, Mark
<1>1. CASE task'.turns = task.turns
  BY <1>a, <1>1
<1>2. ASSUME NEW r \in Requests, hold[r].at = "say", Snapshot = row[r].frozen, Appends(r)
      PROVE  Mark(task'.turns[i], i)
  <2>1. Turn(r) \in TurnRecords /\ Turn(r).by = r /\ Turn(r).stop = 0
    BY TurnType, Naming DEF Turn
  <2>2. /\ Len(task'.turns) = Len(task.turns) + 1 /\ task'.turns[Len(task.turns) + 1] = Turn(r)
        /\ i # Len(task.turns) + 1 => i \in 1 .. Len(task.turns) /\ task'.turns[i] = task.turns[i]
    BY <1>a, <1>2, <2>1, AppendsTo
  <2>3. By(r, "say") /\ row[r].frozen.len = Len(task.turns)
    BY <1>2, SayIsAlone
  <2>4. CASE i = Len(task.turns) + 1
    BY <2>1, <2>2, <2>3, <2>4 DEF Mark
  <2>5. CASE i # Len(task.turns) + 1
    BY <1>a, <2>2, <2>5
  <2>6. QED
    BY <2>4, <2>5
<1>3. CASE Starts
  <2>1. i \in 1 .. Len(task.turns)
    BY <1>a, <1>3, StartsTo, StartLastIs
  <2>2. task'.turns[i].by = task.turns[i].by /\ task'.turns[i].stop = task.turns[i].stop
    BY <1>a, <1>3, <2>1, StartsTo, StartLastIs
  <2>3. QED
    BY <1>a, <2>1, <2>2 DEF Mark
<1>4. ASSUME NEW e \in {"done", "cancelled"}, NEW x \in 0 .. RequestCount, Stopper(x), Ends(e, x)
      PROVE  Mark(task'.turns[i], i)
  <2>1. task'.turns = EndLast(e, x)
    BY <1>a, <1>4, EndsTo
  <2>2. /\ Len(EndLast(e, x)) = Len(task.turns)
        /\ \A j \in 1 .. Len(task.turns) :
              /\ EndLast(e, x)[j].by = task.turns[j].by
              /\ EndLast(e, x)[j].stop = IF j = Len(task.turns) THEN x ELSE task.turns[j].stop
    BY <1>a, EndLastIs
  <2>3. i \in 1 .. Len(task.turns)
    BY <2>1, <2>2
  <2>4. /\ task'.turns[i].by = task.turns[i].by
        /\ task'.turns[i].stop = IF i = Len(task.turns) THEN x ELSE task.turns[i].stop
    BY <2>1, <2>2, <2>3
  <2>5. QED
    BY <1>a, <1>4, <2>3, <2>4 DEF Mark, Stopper
<1>5. ASSUME NEW e \in {"done", "cancelled"}, NEW x \in 0 .. RequestCount, Hosts(e, x)
      PROVE  Mark(task'.turns[i], i)
  BY <1>a, <1>1, <1>5, HostsTo
<1>6. ASSUME NEW r \in Requests, task' = [task EXCEPT !.closing = r] PROVE Mark(task'.turns[i], i)
  BY <1>a, <1>1, <1>6, ClosingTo
<1>7. CASE Finishes
  BY <1>a, <1>1, <1>7, FinishesTo
<1>8. QED
  BY <1>1, <1>2, <1>3, <1>4, <1>5, <1>6, <1>7 DEF TaskMove

-----------------------------------------------------------------------------
(* What is concluded is true, and stays true. *)

LEMMA OnlyItsKind ==
    ASSUME RequestInv, NEW r \in Requests
    PROVE  /\ HasTurn(r) => cmd[r] = "say"
           /\ r \in made => cmd[r] = "submit"
           /\ task.closed = r \/ task.closing = r => cmd[r] = "close"
<1>a. r # 0 /\ task.turns \in Seq(TurnRecords)
  BY Naming DEF RequestInv, RequestTypeOK, TaskRecords
<1>1. ASSUME HasTurn(r) PROVE cmd[r] = "say"
  <2>1. PICK i \in 1 .. Len(task.turns) : task.turns[i].by = r
    BY <1>1, <1>a DEF HasTurn
  <2>2. QED
    BY <1>a, <2>1 DEF RequestInv, Marks, By
<1>2. r \in made => cmd[r] = "submit"
  BY DEF RequestInv, Outcomes
<1>3. ASSUME task.closed = r \/ task.closing = r PROVE cmd[r] = "close"
  BY <1>3, <1>a DEF RequestInv, TaskState, By
<1>4. QED
  BY <1>1, <1>2, <1>3

(* A turn comes from the execution of its say. *)
LEMMA TurnOrigins ==
    ASSUME RequestInv, TaskMove, NEW q \in Requests, HasTurn(q)', task' \in TaskRecords
    PROVE  HasTurn(q) \/ hold[q].at = "say"
<1>a. /\ task \in TaskRecords /\ Len(task.turns) > 0 /\ Len(task.turns) \in Nat
      /\ task.turns \in Seq(TurnRecords) /\ task'.turns \in Seq(TurnRecords)
  BY LastType DEF RequestInv, RequestTypeOK, TaskState, TaskRecords
<1>1. PICK i \in 1 .. Len(task'.turns) : task'.turns[i].by = q
  BY <1>a DEF HasTurn
<1>b. ASSUME i \in 1 .. Len(task.turns), task'.turns[i].by = task.turns[i].by PROVE HasTurn(q)
  BY <1>a, <1>1, <1>b DEF HasTurn
<1>2. CASE task'.turns = task.turns
  BY <1>1, <1>2, <1>b
<1>3. ASSUME NEW r \in Requests, hold[r].at = "say", Appends(r)
      PROVE  HasTurn(q) \/ hold[q].at = "say"
  <2>1. Turn(r) \in TurnRecords /\ Turn(r).by = r
    BY TurnType, Naming DEF Turn
  <2>2. /\ Len(task'.turns) = Len(task.turns) + 1 /\ task'.turns[Len(task.turns) + 1] = Turn(r)
        /\ i # Len(task.turns) + 1 => i \in 1 .. Len(task.turns) /\ task'.turns[i] = task.turns[i]
    BY <1>a, <1>3, <2>1, AppendsTo
  <2>3. QED
    BY <1>1, <1>3, <1>b, <2>1, <2>2
<1>4. CASE Starts
  <2>1. i \in 1 .. Len(task.turns)
    BY <1>a, <1>4, StartsTo, StartLastIs
  <2>2. QED
    BY <1>a, <1>4, <1>b, <2>1, StartsTo, StartLastIs
<1>5. ASSUME NEW e \in {"done", "cancelled"}, NEW x \in 0 .. RequestCount, Ends(e, x) PROVE HasTurn(q)
  <2>1. task'.turns = EndLast(e, x)
    BY <1>a, <1>5, EndsTo
  <2>2. /\ Len(EndLast(e, x)) = Len(task.turns)
        /\ \A j \in 1 .. Len(task.turns) : EndLast(e, x)[j].by = task.turns[j].by
    BY <1>a, EndLastIs
  <2>3. QED
    BY <1>b, <2>1, <2>2
<1>6. ASSUME NEW e \in {"done", "cancelled"}, NEW x \in 0 .. RequestCount, Hosts(e, x)
      PROVE  HasTurn(q)
  BY <1>a, <1>2, <1>6, HostsTo, <1>b, <1>1
<1>7. ASSUME NEW r \in Requests, task' = [task EXCEPT !.closing = r] PROVE HasTurn(q)
  BY <1>a, <1>2, <1>7, ClosingTo, <1>b, <1>1
<1>8. CASE Finishes
  BY <1>a, <1>2, <1>8, FinishesTo
<1>9. QED
  BY <1>2, <1>3, <1>4, <1>5, <1>6, <1>7, <1>8 DEF TaskMove

LEMMA ClosingOrigins ==
    ASSUME RequestInv, TaskMove, NEW q \in Requests, task'.closed = q \/ task'.closing = q
    PROVE  task.closed = q \/ task.closing = q \/ hold[q].at = "close"
<1>a. task \in TaskRecords /\ q # 0
  BY Naming DEF RequestInv, RequestTypeOK
<1>1. CASE task'.closed = task.closed /\ task'.closing = task.closing
  BY <1>1
<1>2. ASSUME NEW r, Appends(r) PROVE task'.closed = task.closed /\ task'.closing = task.closing
  BY <1>a, <1>2, AppendsTo
<1>3. CASE Starts
  BY <1>a, <1>1, <1>3, StartsTo
<1>4. ASSUME NEW e, NEW x, Ends(e, x)
      PROVE  task'.closed = task.closed /\ task'.closing = task.closing
  BY <1>a, <1>4, EndsTo
<1>5. ASSUME NEW e, NEW x, Hosts(e, x)
      PROVE  task'.closed = task.closed /\ task'.closing = task.closing
  BY <1>a, <1>5, HostsTo
<1>6. ASSUME NEW r \in Requests, hold[r].at = "close", task' = [task EXCEPT !.closing = r]
      PROVE  task.closed = q \/ task.closing = q \/ hold[q].at = "close"
  BY <1>a, <1>6, ClosingTo
<1>7. CASE Finishes
  BY <1>a, <1>7, FinishesTo
<1>8. QED
  BY <1>1, <1>2, <1>3, <1>4, <1>5, <1>6, <1>7 DEF TaskMove

LEMMA NothingKept ==
    ASSUME RequestInv, TaskMove, Makes, task' \in TaskRecords, NEW q \in Requests, Nothing(q),
           hold[q].at \notin {"say", "close", "submit"}
    PROVE  Nothing(q)'
<1>1. ~HasTurn(q)'
  BY TurnOrigins DEF Nothing
<1>2. task'.closed # q /\ task'.closing # q
  BY ClosingOrigins DEF Nothing
<1>3. q \notin made'
  BY DEF Makes, Nothing
<1>4. QED
  BY <1>1, <1>2, <1>3 DEF Nothing

LEMMA SuccessKept ==
    ASSUME RequestInv, TaskMove, Makes, cmd' = cmd, task' \in TaskRecords, NEW q \in Requests,
           HasRow(q), row'[q].frozen = row[q].frozen, Success(q)
    PROVE  Success(q)'
<1>1. TurnsGrow /\ row[q].frozen.len \in 1 .. Len(task.turns)
  BY TurnsKept DEF RequestInv, Snaps, Sound
<1>2. cmd[q] = "say" => HasTurn(q)'
  BY <1>1, HasTurnKept DEF Success
<1>3. cmd[q] = "cancel" => task'.turns[row'[q].frozen.len].end # "none"
  BY <1>1 DEF Success, TurnsGrow
<1>4. cmd[q] = "close" => task'.state = "closed"
  BY <1>1 DEF Success, TurnsGrow
<1>5. cmd[q] = "submit" => q \in made'
  BY DEF Success, Makes
<1>6. QED
  BY <1>2, <1>3, <1>4, <1>5 DEF Success

(* An execution concludes what is so. *)
LEMMA Conclusions ==
    ASSUME RequestInv, TaskMove, Makes, cmd' = cmd, row' = row, task' \in TaskRecords,
           NEW r \in Requests, Execute(r), hold'[r].at = "result"
    PROVE  /\ hold'[r].result = "ok" => Success(r)'
           /\ hold'[r].result = "rejected" => Nothing(r)'
<1>a. /\ task \in TaskRecords /\ Len(task.turns) > 0 /\ Len(task.turns) \in Nat
      /\ task.turns \in Seq(TurnRecords) /\ hold \in [Requests -> Handlers] /\ r # 0
      /\ Len(task.turns) \in DOMAIN task.turns
  BY LastType, Naming DEF RequestInv, RequestTypeOK, TaskState, TaskRecords
<1>b. ASSUME NEW result, Concluded(r, result) PROVE hold'[r].result = result
  BY <1>a, <1>b DEF Concluded, Handlers
<1>c. ~Busy(r)
  BY <1>a DEF Busy, Reply, Free
<1>d. /\ hold[r].at \in Commands => cmd[r] = hold[r].at
      /\ hold[r].at = "cancelled" => cmd[r] = "cancel"
      /\ hold[r].at = "closing" => cmd[r] = "close"
  BY DEF RequestInv, Stages, StageOf, RequestTypeOK
<1>e. /\ HasTurn(r) => cmd[r] = "say"
      /\ r \in made => cmd[r] = "submit"
      /\ task.closed = r \/ task.closing = r => cmd[r] = "close"
  BY OnlyItsKind
<1>f. /\ HasTurn(r) => HasTurn(r)'
      /\ task' = task /\ made' = made => (Nothing(r) => Nothing(r)')
  BY HasTurnKept, TurnsKept DEF Nothing, HasTurn
<1>1. CASE ExecuteSay(r)
  <2>1. cmd[r] = "say" /\ hold[r].at = "say"
    BY <1>1, <1>d DEF ExecuteSay, At, Commands
  <2>2. CASE HasTurn(r)
    <3>1. hold'[r].result = "ok"
      BY <1>1, <1>a, <1>b, <1>c, <2>1, <2>2 DEF ExecuteSay
    <3>2. QED
      BY <1>f, <2>1, <2>2, <3>1 DEF Success
  <2>3. CASE ~HasTurn(r)
    <3>1. Last.by # r
      BY <1>a, <2>3 DEF HasTurn, Last
    <3>2. hold'[r].result = "rejected" /\ task' = task /\ made' = made
      BY <1>1, <1>a, <1>b, <1>c, <2>1, <2>3, <3>1 DEF ExecuteSay, Quiet, work
    <3>3. Nothing(r)
      BY <1>e, <2>1, <2>3 DEF Nothing
    <3>4. QED
      BY <1>f, <3>2, <3>3
  <2>4. QED
    BY <2>2, <2>3
<1>2. CASE ExecuteCancel(r)
  <2>1. cmd[r] = "cancel" /\ hold[r].at = "cancel"
    BY <1>2, <1>d DEF ExecuteCancel, At, Commands
  <2>2. Nothing(r)
    BY <1>e, <2>1 DEF Nothing
  <2>3. Nothing(r)'
    BY <2>1, <2>2, NothingKept
  <2>4. ASSUME hold'[r].result = "ok" PROVE task'.turns[row'[r].frozen.len].end # "none"
    <3>1. CASE SameTurns(row[r].frozen) /\ Last.end # "none" /\ task' = task
      BY <3>1 DEF SameTurns, Last
    <3>2. CASE RevisionMatches(row[r].frozen) /\ Last.end = "done" /\ task' = task
      BY <3>2 DEF RevisionMatches, Snapshot, Last
    <3>3. CASE RevisionMatches(row[r].frozen) /\ Ends("cancelled", r)
      <4>1. row[r].frozen.len = Len(task.turns)
        BY <3>3 DEF RevisionMatches, Snapshot
      <4>2. task'.turns = EndLast("cancelled", r)
        BY <1>a, <3>3, EndsTo
      <4>3. EndLast("cancelled", r)[Len(task.turns)].end = "cancelled"
        BY <1>a, EndLastIs, Naming
      <4>4. QED
        BY <4>1, <4>2, <4>3
    <3>4. CASE GoTo(r, "cancelled")
      BY <1>a, <3>4 DEF GoTo, Handlers
    <3>5. QED
      BY <1>2, <1>b, <2>4, <3>1, <3>2, <3>3, <3>4 DEF ExecuteCancel, Quiet, work, Ends
  <2>5. QED
    BY <2>1, <2>3, <2>4 DEF Success
<1>3. CASE RecordCancel(r)
  <2>1. cmd[r] = "cancel" /\ hold[r].at = "cancelled"
    BY <1>3, <1>d DEF RecordCancel, At
  <2>2. Nothing(r)
    BY <1>e, <2>1 DEF Nothing
  <2>3. Nothing(r)'
    BY <2>1, <2>2, NothingKept
  <2>4. ASSUME hold'[r].result = "ok" PROVE task'.turns[row'[r].frozen.len].end # "none"
    <3>1. CASE RevisionMatches(row[r].frozen) /\ task' = Import
      <4>1. row[r].frozen.len = Len(task.turns) /\ task.host.end # "none"
        BY <2>1, <3>1 DEF RequestInv, Snaps, RevisionMatches, Snapshot
      <4>2. /\ task.host.end \in {"none", "done", "cancelled"} /\ task.host.by \in 0 .. RequestCount
            /\ task'.turns = EndLast(task.host.end, task.host.by)
        BY <1>a, <3>1 DEF TaskRecords, Import
      <4>3. EndLast(task.host.end, task.host.by)[Len(task.turns)].end = task.host.end
        BY <1>a, <4>2, EndLastIs
      <4>4. QED
        BY <4>1, <4>2, <4>3
    <3>2. CASE task' = task /\ SameTurns(row[r].frozen) /\ Last.end = "cancelled"
      BY <3>2 DEF SameTurns, Last
    <3>3. QED
      BY <1>3, <1>b, <2>4, <3>1, <3>2 DEF RecordCancel, Quiet, work
  <2>5. QED
    BY <2>1, <2>3, <2>4 DEF Success
<1>4. CASE ExecuteClose(r)
  <2>1. cmd[r] = "close" /\ hold[r].at = "close"
    BY <1>4, <1>d DEF ExecuteClose, At, Commands
  <2>2. task' = task /\ made' = made
    BY <1>4, <1>a, <1>c DEF ExecuteClose, Quiet, work, GoTo, Handlers
  <2>3. ASSUME hold'[r].result = "ok" PROVE Success(r)'
    <3>1. task.state = "closed"
      BY <1>4, <1>a, <1>b, <1>c, <2>3 DEF ExecuteClose, GoTo, Handlers
    <3>2. QED
      BY <2>1, <2>2, <3>1 DEF Success
  <2>4. ASSUME hold'[r].result = "rejected" PROVE Nothing(r)'
    <3>1. \/ task.state = "closed" /\ ~SameTurns(row[r].frozen)
          \/ task.state # "closed" /\ ~RevisionMatches(row[r].frozen)
      BY <1>4, <1>a, <1>b, <1>c, <2>4 DEF ExecuteClose, GoTo, Handlers
    <3>2. task.closed # r /\ task.closing # r
      BY <1>a, <3>1 DEF RequestInv, TaskState, SameTurns, RevisionMatches
    <3>3. QED
      BY <1>e, <1>f, <2>1, <2>2, <3>2 DEF Nothing
  <2>5. QED
    BY <2>3, <2>4
<1>5. CASE FinishClose(r)
  <2>1. cmd[r] = "close" /\ hold'[r].result = "ok"
    BY <1>5, <1>b, <1>d DEF FinishClose, At
  <2>2. task'.state = "closed"
    BY <1>5, <1>a DEF FinishClose, TaskRecords
  <2>3. QED
    BY <2>1, <2>2 DEF Success
<1>6. CASE ExecuteSubmit(r)
  <2>1. cmd[r] = "submit" /\ task' = task
    BY <1>6, <1>d DEF ExecuteSubmit, At, Commands
  <2>2. hold'[r].result = "ok" => r \in made'
    BY <1>6, <1>b DEF ExecuteSubmit
  <2>3. hold'[r].result = "rejected" => r \notin made /\ made' = made
    BY <1>6, <1>b DEF ExecuteSubmit
  <2>4. QED
    BY <1>e, <1>f, <2>1, <2>2, <2>3 DEF Success, Nothing
<1>7. QED
  BY <1>1, <1>2, <1>3, <1>4, <1>5, <1>6 DEF Execute

LEMMA OutcomesStep ==
    ASSUME RequestInv, TaskMove, Makes, cmd' = cmd, task' \in TaskRecords,
           \A q \in Requests : RequestMove(q) /\ Hears(q)
    PROVE  Outcomes'
<1>a. ASSUME NEW q \in Requests
      PROVE  /\ StageOf(q) /\ RequestMove(q) /\ row[q] \in RowFiles /\ hold[q] \in Handlers
             /\ TrueResult(q, row[q].result)
             /\ hold[q].at = "result" => TrueResult(q, hold[q].result)
             /\ row[q].result \in Results
  BY DEF RequestInv, Stages, RequestTypeOK, Outcomes, RowFiles
<1>b. ASSUME NEW q \in Requests, NEW result, TrueResult(q, result), HasRow(q),
             hold[q].at \notin {"say", "close", "submit"}
      PROVE  (result = "ok" => Success(q)') /\ (result = "rejected" => Nothing(q)')
  <2>1. row'[q].frozen = row[q].frozen
    BY <1>b, RowsKept
  <2>2. QED
    BY <1>b, <2>1, SuccessKept, NothingKept DEF TrueResult
<1>1. ASSUME NEW q \in Requests
      PROVE  /\ row'[q].result = "ok" => Success(q)'
             /\ row'[q].result = "rejected" => Nothing(q)'
  <2>1. CASE row[q].result # "none"
    <3>1. row'[q].result = row[q].result
      BY <2>1, RowsKept
    <3>2. HasRow(q) /\ hold[q].at \notin {"say", "close", "submit"}
      BY <1>a, <2>1 DEF StageOf, HasRow, NoRow, Executing, Commands
    <3>3. QED
      BY <1>a, <1>b, <3>1, <3>2
  <2>2. CASE row[q].result = "none" /\ Saves(q)
    <3>1. hold[q].at = "result" /\ row'[q].result = hold[q].result /\ HasRow(q)
      BY <1>a, <2>2 DEF Saves, RowFiles, StageOf, Executing, HasRow
    <3>2. TrueResult(q, hold[q].result)
      BY <1>a, <3>1
    <3>3. QED
      BY <1>b, <3>1, <3>2
  <2>3. CASE row[q].result = "none" /\ ~Saves(q)
    <3>1. ~Acks(q)
      BY <1>a, <2>3 DEF Acks, StageOf
    <3>2. row'[q] = row[q] \/ Publishes(q)
      BY <1>a, <2>3, <3>1 DEF RequestMove, Takes, Prepares, Concludes, Cancels, Closes
    <3>3. row'[q].result = "none"
      BY <2>3, <3>2 DEF Publishes
    <3>4. QED
      BY <3>3
  <2>4. QED
    BY <2>1, <2>2, <2>3
<1>2. ASSUME NEW q \in Requests, hold'[q].at = "result"
      PROVE  /\ hold'[q].result = "ok" => Success(q)'
             /\ hold'[q].result = "rejected" => Nothing(q)'
  <2>1. CASE hold'[q] = hold[q]
    <3>1. HasRow(q) /\ hold[q].at = "result" /\ TrueResult(q, hold[q].result)
      BY <1>2, <1>a, <2>1 DEF StageOf, HasRow, Executing
    <3>2. QED
      BY <1>b, <2>1, <3>1
  <2>2. CASE Concludes(q)
    BY <1>2, <2>2, Conclusions DEF Concludes
  <2>3. QED
    <3>1. cmd[q] \in Commands /\ RequestMove(q)
      BY DEF RequestInv, RequestTypeOK
    <3>2. QED
      BY <1>2, <2>1, <2>2, <3>1 DEF RequestMove, Takes, Resume, Prepares, Publishes, Cancels,
         Closes, Saves, Acks, Free, Commands
<1>3. ASSUME NEW q \in Requests, envelope'[q] = "acknowledged"
      PROVE  row'[q].phase = "acked" /\ row'[q].result = "ok"
  <2>1. CASE envelope[q] = "acknowledged"
    <3>1. row[q].phase = "acked" /\ row[q].result = "ok"
      BY <2>1 DEF RequestInv, Outcomes
    <3>2. QED
      BY <3>1, RowsKept
  <2>2. CASE hold[q].at = "retire" /\ row[q].result # "rejected" /\ row' = row
    BY <1>a, <2>2 DEF StageOf, Results
  <2>3. QED
    BY <1>3, <2>1, <2>2 DEF Hears
<1>4. \A q \in made' : cmd'[q] = "submit"
  BY DEF Makes, RequestInv, Outcomes, Stages, StageOf, Commands
<1>5. QED
  BY <1>1, <1>2, <1>3, <1>4 DEF Outcomes, TrueResult

-----------------------------------------------------------------------------
(* The theorems. *)

LEMMA RequestInvInit == RequestInit => RequestInv
<1> SUFFICES ASSUME RequestInit PROVE RequestInv
  OBVIOUS
<1>a. RequestTypeOK
  BY RequestTypesInit
<1>1. \A r \in Requests : row[r] = NoRow /\ hold[r] = Free /\ envelope[r] = "none"
  BY DEF RequestInit
<1>2. PICK s \in Scenarios :
         LET end == IF s.state = "open" THEN "done" ELSE "none" IN
         task = [state |-> s.state, rev |-> 0, closing |-> 0, closed |-> 0,
                 turns |-> <<[Turn(0) EXCEPT !.end = end]>>, host |-> [end |-> end, by |-> 0]]
  BY DEF RequestInit
<1>3. s.state \in {"active", "open"}
  BY RequestConstants DEF RequestConstants
<1> DEFINE end == IF s.state = "open" THEN "done" ELSE "none"
<1> DEFINE newest == [Turn(0) EXCEPT !.end = end]
<1>4. /\ task.turns = <<newest>> /\ task.state = s.state /\ task.closing = 0 /\ task.closed = 0
      /\ task.host.by = 0
  BY <1>2
<1>5. newest.by = 0 /\ newest.stop = 0 /\ newest.end = end
  BY DEF Turn
<1>6. Len(task.turns) = 1 /\ task.turns[1] = newest
  BY <1>4
<1>7. Stages
  BY <1>1 DEF Stages, StageOf, NoRow, Free, Executing, Commands
<1>8. Snaps
  BY <1>1 DEF Snaps, HasRow, NoRow, Free
<1> HIDE DEF newest
<1>9. TaskState
  BY <1>3, <1>4, <1>5, <1>6 DEF TaskState, Last
<1>10. Marks
  BY <1>5, <1>6 DEF Marks
<1>11. made = {}
  BY DEF RequestInit
<1>12. Outcomes
  BY <1>1, <1>11 DEF Outcomes, TrueResult, NoRow, Free
<1>13. QED
  BY <1>a, <1>7, <1>8, <1>9, <1>10, <1>12 DEF RequestInv

LEMMA RequestInvStep == RequestInv /\ [RequestNext]_requestVars => RequestInv'
<1> SUFFICES ASSUME RequestInv, [RequestNext]_requestVars PROVE RequestInv'
  OBVIOUS
<1>1. TaskMove /\ task' \in TaskRecords
  BY TaskMoves, MoveTypes
<1>2. cmd' = cmd /\ Makes /\ \A q \in Requests : RequestMove(q) /\ Hears(q)
  BY RequestMoves
<1>3. RequestTypeOK'
  BY RequestTypesStep
<1>4. Stages'
  BY <1>2, StagesStep
<1>5. Snaps'
  BY <1>1, <1>2, <1>4, SnapsStep
<1>6. TaskState'
  BY <1>1, <1>2, TaskStateStep
<1>7. Marks'
  BY <1>1, <1>2, MarksStep
<1>8. Outcomes'
  BY <1>1, <1>2, OutcomesStep
<1>9. QED
  BY <1>3, <1>4, <1>5, <1>6, <1>7, <1>8 DEF RequestInv

LEMMA RequestInvHolds == RequestSpec => []RequestInv
  BY RequestInvInit, RequestInvStep, PTL DEF RequestSpec

(* The laptop's envelopes, the rows, the receipts and the task record are always
   of their kinds. *)
THEOREM RequestTypes == RequestSpec => []RequestTypeOK
<1>1. RequestInv => RequestTypeOK
  BY DEF RequestInv
<1>2. QED
  BY <1>1, RequestInvHolds, PTL

(* Whatever is lost, repeated, resumed or executed again, a say's turn stands
   right behind the last turn its preparation saw, a cancel stops that turn and
   no other, and a close closes the task it saw. *)
THEOREM EffectsStayFenced == RequestSpec => []EffectsFenced
<1>1. RequestInv => EffectsFenced
  <2> SUFFICES ASSUME RequestInv PROVE EffectsFenced
    OBVIOUS
  <2>1. DOMAIN task.turns = 1 .. Len(task.turns)
    BY DEF RequestInv, RequestTypeOK, TaskRecords
  <2>2. QED
    BY <2>1 DEF RequestInv, Marks, TaskState, EffectsFenced
<1>2. QED
  BY <1>1, RequestInvHolds, PTL

(* A saved result, and what the laptop was told of it, is true and stays true. *)
THEOREM ResultsStayTrue == RequestSpec => []ResultsTrue
<1>1. RequestInv => ResultsTrue
  <2> SUFFICES ASSUME RequestInv PROVE ResultsTrue
    OBVIOUS
  <2>1. ASSUME NEW r \in Requests
        PROVE  /\ row[r].result = "ok" => Success(r)
               /\ row[r].result = "rejected" => Nothing(r)
               /\ envelope[r] = "acknowledged" => row[r].phase = "acked" /\ row[r].result = "ok"
               /\ cmd[r] \in Commands
    BY DEF RequestInv, Outcomes, TrueResult, RequestTypeOK
  <2>2. QED
    BY <2>1 DEF ResultsTrue, Success, Nothing, Commands
<1>2. QED
  BY <1>1, RequestInvHolds, PTL

-----------------------------------------------------------------------------
(* Submissions: the inductive invariant. *)

(* What no two processes may do: work on the submission of one task at once.
   The code does not keep them from it, see the README; what follows is about the
   behaviours in which it does not happen. *)
OnePerTask == \A p, q \in Procs : at[p] = at[q] /\ at[p] # None => p = q

(* A task's record, prompt, row, refs and host. *)
Whole(t) ==
    /\ entry[t].st = "none" => entry[t].owner = None
    /\ entry[t].st = "dispatching" => entry[t].owner = Runner
    /\ entry[t].owner = Runner => Exists(t) /\ ~Pending(rec[t])
    /\ Exists(t) /\ ~Pending(rec[t]) => "refs" \in held[t]
    /\ hosted[t] = "running" => entry[t].st = "dispatching" /\ rec[t].st = "active"
    /\ entry[t].st # "none" => turn[t] # "none"
    /\ turn[t] # "none" => Exists(t)
    /\ t \in Frozen => ~rec[t].mark
    /\ node[t] = "waiting" => rec[t] = NoRec

(* The stages of a submission, from its claim to the handoff, and of a rollback. *)
Unwritten == {"pin", "load", "branch", "create"}
Written == {"prompt", "enqueue", "report"}
Undoing == {"safe", "release", "unrow", "unturn", "unrecord"}

(* What a process may count on where it stands. *)
Reached(p) ==
    LET t == at[p] IN
    /\ pc[p] \in Unwritten => node[t] # "waiting" /\ (t \notin Frozen => rec[t] = NoRec)
    /\ pc[p] \in (Unwritten \ {"pin"}) \cup Written \cup {"clear", "start"} => "refs" \in held[t]
    /\ pc[p] \in Written \cup {"clear", "start"} => Exists(t) /\ ~rec[t].mark /\ node[t] # "waiting"
    /\ pc[p] \in Written /\ t \notin Frozen => rec[t].intent
    /\ pc[p] \in {"enqueue", "report", "clear", "start", "requeue"} => turn[t] # "none"
    /\ pc[p] = "start" => ~rec[t].intent
    /\ pc[p] = "undo" => t \notin Frozen
    /\ pc[p] \in Undoing \cup {"undo"} => Exists(t) /\ Pending(rec[t])
    /\ pc[p] \in {"unturn", "unrecord"} => entry[t].st = "none"
    /\ pc[p] = "unturn" => /\ back[p].st # "none" => turn[t] # "none"
                           /\ back[p].st # "dispatching" /\ back[p].owner # Runner
                           /\ back[p].st = "none" => back[p].owner = None
    /\ pc[p] = "unrecord" => turn[t] = "none"
    /\ pc[p] \in {"requeue", "relaunch"} => Exists(t) /\ ~Pending(rec[t])

SubmissionInv ==
    /\ SubmissionTypeOK
    /\ \A t \in Tasks : Whole(t)
    /\ \A p \in Procs : Reached(p)

-----------------------------------------------------------------------------
(* Tasks and processes that a step leaves alone. *)
Same(u) ==
    /\ rec'[u] = rec[u] /\ turn'[u] = turn[u] /\ entry'[u] = entry[u]
    /\ held'[u] = held[u] /\ hosted'[u] = hosted[u] /\ node'[u] = node[u]
Still(q) == pc'[q] = pc[q] /\ at'[q] = at[q] /\ back'[q] = back[q]

LEMMA SameWhole ==
    ASSUME NEW u \in Tasks, Whole(u), Same(u) PROVE Whole(u)'
BY DEF Whole, Same, Exists, Pending

LEMMA StillReached ==
    ASSUME NEW q \in Procs, Reached(q), Still(q), Same(at[q]) PROVE Reached(q)'
BY DEF Reached, Still, Same, Exists, Pending

LEMMA IdleReached ==
    ASSUME NEW q \in Procs, pc'[q] = "idle" PROVE Reached(q)'
BY DEF Reached, Unwritten, Written, Undoing

(* A process works on its task alone. *)
LEMMA WorkerStep ==
    ASSUME SubmissionInv, OnePerTask, SubmissionTypeOK', NEW p \in Procs, NEW t \in Tasks, t = at[p],
           \A u \in Tasks \ {t} : Same(u), \A q \in Procs \ {p} : Still(q),
           Whole(t)', Reached(p)'
    PROVE  SubmissionInv'
<1>1. ASSUME NEW u \in Tasks PROVE Whole(u)'
  <2>1. CASE u = t
    BY <2>1
  <2>2. CASE u # t
    BY <2>2, SameWhole DEF SubmissionInv
  <2>3. QED BY <2>1, <2>2
<1>2. ASSUME NEW q \in Procs PROVE Reached(q)'
  <2>1. CASE q = p
    BY <2>1
  <2>2. CASE q # p /\ pc[q] = "idle"
    BY <2>2, IdleReached DEF Still
  <2>3. CASE q # p /\ pc[q] # "idle"
    <3>1. at[q] \in Tasks /\ at[q] # at[p]
      BY <2>3 DEF SubmissionInv, SubmissionTypeOK, OnePerTask
    <3>2. QED BY <2>3, <3>1, StillReached DEF SubmissionInv
  <2>4. QED BY <2>1, <2>2, <2>3
<1>3. QED BY <1>1, <1>2 DEF SubmissionInv

(* Where processes stand, and what is stored. *)
PlaceTypes ==
    /\ pc \in [Procs -> Pcs] /\ at \in [Procs -> Tasks \cup {None}]
    /\ \A p \in Procs : pc[p] # "idle" <=> at[p] # None
StoreTypes ==
    /\ rec \in [Tasks -> Rec] /\ turn \in [Tasks -> {"none", "prompt", "retired"}]
    /\ entry \in [Tasks -> Entry] /\ held \in [Tasks -> SUBSET {"refs", "branch"}]
OutsideTypes ==
    /\ hosted \in [Tasks -> {"none", "running", "done"}]
    /\ node \in [Tasks -> {"waiting", "claimed", "submitted"}]
    /\ claim \in [Tasks -> Procs \cup {None}]
    /\ live \subseteq Procs /\ faults \in 0..MaxFaults
    /\ \A t \in Tasks : node[t] = "claimed" <=> claim[t] # None

LEMMA TypesSplit ==
    SubmissionTypeOK <=> PlaceTypes /\ StoreTypes /\ OutsideTypes /\ back \in [Procs -> Entry]
BY DEF SubmissionTypeOK, PlaceTypes, StoreTypes, OutsideTypes

LEMMA TypesSplitNext ==
    SubmissionTypeOK' <=> PlaceTypes' /\ StoreTypes' /\ OutsideTypes' /\ back' \in [Procs -> Entry]
BY DEF SubmissionTypeOK, PlaceTypes, StoreTypes, OutsideTypes

LEMMA GotoMoves ==
    ASSUME PlaceTypes, NEW p \in Procs, NEW l \in Pcs \ {"idle"}, at[p] # None, Goto(p, l), UNCHANGED at
    PROVE  /\ PlaceTypes' /\ pc'[p] = l /\ at'[p] = at[p]
           /\ \A q \in Procs \ {p} : pc'[q] = pc[q] /\ at'[q] = at[q]
BY DEF PlaceTypes, Goto

LEMMA LeaveMoves ==
    ASSUME PlaceTypes, NEW p \in Procs, Leave(p)
    PROVE  /\ PlaceTypes' /\ pc'[p] = "idle" /\ at'[p] = None
           /\ \A q \in Procs \ {p} : pc'[q] = pc[q] /\ at'[q] = at[q]
BY DEF PlaceTypes, Leave, Goto, Pcs

LEMMA EnterMoves ==
    ASSUME PlaceTypes, NEW p \in Procs, NEW t \in Tasks, NEW l \in Pcs \ {"idle"}, Enter(p, t, l)
    PROVE  /\ PlaceTypes' /\ pc'[p] = l /\ at'[p] = t
           /\ \A q \in Procs \ {p} : pc'[q] = pc[q] /\ at'[q] = at[q]
BY SubmissionAssumption DEF PlaceTypes, Enter, Goto

LEMMA BlankStored ==
    /\ NoRec \in Rec /\ NoEntry \in Entry
    /\ NoRec.st = "none" /\ NoRec.intent = FALSE /\ NoRec.mark = FALSE
    /\ NoEntry.st = "none" /\ NoEntry.owner = None
BY DEF NoRec, Rec, NoEntry, Entry

LEMMA RecoveredIs ==
    ASSUME NEW r \in Rec
    PROVE  /\ Recovered(r) \in Rec /\ Recovered(r).intent = r.intent /\ Recovered(r).mark = FALSE
           /\ Recovered(r).st = "none" <=> r.st = "none"
           /\ r.st = "active" => Recovered(r).st = "active"
BY DEF Recovered, Rec

Intended == [NoRec EXCEPT !.st = "queued", !.intent = TRUE]

LEMMA IntendedIs ==
    Intended \in Rec /\ Intended.st = "queued" /\ Intended.intent = TRUE /\ Intended.mark = FALSE
BY DEF Intended, NoRec, Rec

-----------------------------------------------------------------------------
(* Submitting. *)

LEMMA PinBaseKeeps ==
    ASSUME SubmissionInv, OnePerTask, NEW p \in Procs, PinBase(p)
    PROVE  SubmissionInv'
<1>1. PICK t \in Tasks : t = at[p]
  BY DEF PinBase, SubmissionInv, SubmissionTypeOK
<1>2. Whole(t) /\ Reached(p) /\ rec[t] \in Rec /\ entry[t] \in Entry /\ t # None
  BY SubmissionAssumption DEF SubmissionInv, SubmissionTypeOK
<1>3. PlaceTypes /\ StoreTypes /\ OutsideTypes /\ back \in [Procs -> Entry]
  BY TypesSplit DEF SubmissionInv
<1>4. QED
  <2>1. /\ PlaceTypes' /\ pc'[p] = "load" /\ at'[p] = t
        /\ \A q \in Procs \ {p} : pc'[q] = pc[q] /\ at'[q] = at[q]
    <3>1. Goto(p, "load") /\ UNCHANGED at /\ at[p] # None /\ "load" \in Pcs \ {"idle"}
      BY <1>1, <1>2 DEF PinBase, Pcs
    <3>2. QED BY <1>1, <1>3, <3>1, GotoMoves
  <2>2. /\ rec'[t] = rec[t] /\ turn'[t] = turn[t] /\ entry'[t] = entry[t]
        /\ held'[t] = held[t] \cup {"refs"} /\ hosted'[t] = hosted[t] /\ node'[t] = node[t]
    BY <1>1, <1>2, <1>3 DEF PinBase, StoreTypes, OutsideTypes, Store, Outside
  <2>3. /\ StoreTypes' /\ OutsideTypes' /\ back' \in [Procs -> Entry]
        /\ \A u \in Tasks \ {t} : Same(u)
        /\ \A q \in Procs \ {p} : back'[q] = back[q]
    BY <1>1, <1>2, <1>3, BlankStored, SubmissionAssumption DEF PinBase, StoreTypes, OutsideTypes,
       Store, Outside, Same
  <2>4. Whole(t)'
    BY <1>1, <1>2, <2>2, BlankStored, SubmissionAssumption DEF PinBase, Whole, Reached, Exists,
       Pending, Unwritten, Written, Undoing
  <2>5. Reached(p)'
    BY <1>1, <1>2, <2>1, <2>2, BlankStored, SubmissionAssumption DEF PinBase, Whole, Reached,
       Exists, Pending, Unwritten, Written, Undoing
  <2>6. QED
    BY <1>1, <2>1, <2>3, <2>4, <2>5, TypesSplitNext, WorkerStep DEF Still

LEMMA LoadExistingKeeps ==
    ASSUME SubmissionInv, OnePerTask, NEW p \in Procs, LoadExisting(p)
    PROVE  SubmissionInv'
<1>1. PICK t \in Tasks : t = at[p]
  BY DEF LoadExisting, SubmissionInv, SubmissionTypeOK
<1>2. Whole(t) /\ Reached(p) /\ rec[t] \in Rec /\ entry[t] \in Entry /\ t # None
  BY SubmissionAssumption DEF SubmissionInv, SubmissionTypeOK
<1>3. PlaceTypes /\ StoreTypes /\ OutsideTypes /\ back \in [Procs -> Entry]
  BY TypesSplit DEF SubmissionInv
<1>4. /\ Recovered(rec[t]) \in Rec /\ Recovered(rec[t]).intent = rec[t].intent /\ Recovered(rec[t]).mark = FALSE
      /\ Recovered(rec[t]).st = "none" <=> rec[t].st = "none"
      /\ rec[t].st = "active" => Recovered(rec[t]).st = "active"
  BY <1>2, RecoveredIs
<1>5. CASE Exists(t) /\ Goto(p, "submitted")
  <2>1. /\ PlaceTypes' /\ pc'[p] = "submitted" /\ at'[p] = t
        /\ \A q \in Procs \ {p} : pc'[q] = pc[q] /\ at'[q] = at[q]
    <3>1. Goto(p, "submitted") /\ UNCHANGED at /\ at[p] # None /\ "submitted" \in Pcs \ {"idle"}
      BY <1>1, <1>2, <1>4, <1>5 DEF LoadExisting, Pcs, Exists
    <3>2. QED BY <1>1, <1>3, <3>1, GotoMoves
  <2>2. /\ rec'[t] = Recovered(rec[t]) /\ turn'[t] = turn[t] /\ entry'[t] = entry[t]
        /\ held'[t] = held[t] /\ hosted'[t] = hosted[t] /\ node'[t] = node[t]
    BY <1>1, <1>2, <1>3, <1>4, <1>5 DEF LoadExisting, StoreTypes, OutsideTypes, Store, Outside,
       Exists
  <2>3. /\ StoreTypes' /\ OutsideTypes' /\ back' \in [Procs -> Entry]
        /\ \A u \in Tasks \ {t} : Same(u)
        /\ \A q \in Procs \ {p} : back'[q] = back[q]
    BY <1>1, <1>2, <1>3, <1>4, <1>5, BlankStored, SubmissionAssumption DEF LoadExisting,
       StoreTypes, OutsideTypes, Store, Outside, Same, Exists
  <2>4. Whole(t)'
    BY <1>1, <1>2, <1>4, <1>5, <2>2, BlankStored, SubmissionAssumption DEF LoadExisting, Whole,
       Reached, Exists, Pending, Unwritten, Written, Undoing
  <2>5. Reached(p)'
    BY <1>1, <1>2, <1>4, <1>5, <2>1, <2>2, BlankStored, SubmissionAssumption DEF LoadExisting,
       Whole, Reached, Exists, Pending, Unwritten, Written, Undoing
  <2>6. QED
    BY <1>1, <2>1, <2>3, <2>4, <2>5, TypesSplitNext, WorkerStep DEF Still
<1>6. CASE Exists(t) /\ Goto(p, "prompt")
  <2>1. /\ PlaceTypes' /\ pc'[p] = "prompt" /\ at'[p] = t
        /\ \A q \in Procs \ {p} : pc'[q] = pc[q] /\ at'[q] = at[q]
    <3>1. Goto(p, "prompt") /\ UNCHANGED at /\ at[p] # None /\ "prompt" \in Pcs \ {"idle"}
      BY <1>1, <1>2, <1>4, <1>6 DEF LoadExisting, Pcs, Exists
    <3>2. QED BY <1>1, <1>3, <3>1, GotoMoves
  <2>2. /\ rec'[t] = Recovered(rec[t]) /\ turn'[t] = turn[t] /\ entry'[t] = entry[t]
        /\ held'[t] = held[t] /\ hosted'[t] = hosted[t] /\ node'[t] = node[t]
    BY <1>1, <1>2, <1>3, <1>4, <1>6 DEF LoadExisting, StoreTypes, OutsideTypes, Store, Outside,
       Exists
  <2>3. /\ StoreTypes' /\ OutsideTypes' /\ back' \in [Procs -> Entry]
        /\ \A u \in Tasks \ {t} : Same(u)
        /\ \A q \in Procs \ {p} : back'[q] = back[q]
    BY <1>1, <1>2, <1>3, <1>4, <1>6, BlankStored, SubmissionAssumption DEF LoadExisting,
       StoreTypes, OutsideTypes, Store, Outside, Same, Exists
  <2>4. Whole(t)'
    BY <1>1, <1>2, <1>4, <1>6, <2>2, BlankStored, SubmissionAssumption DEF LoadExisting, Whole,
       Reached, Exists, Pending, Unwritten, Written, Undoing
  <2>5. Reached(p)'
    BY <1>1, <1>2, <1>4, <1>6, <2>1, <2>2, BlankStored, SubmissionAssumption DEF LoadExisting,
       Whole, Reached, Exists, Pending, Unwritten, Written, Undoing
  <2>6. QED
    BY <1>1, <2>1, <2>3, <2>4, <2>5, TypesSplitNext, WorkerStep DEF Still
<1>7. CASE ~Exists(t)
  <2>1. /\ PlaceTypes' /\ pc'[p] = "branch" /\ at'[p] = t
        /\ \A q \in Procs \ {p} : pc'[q] = pc[q] /\ at'[q] = at[q]
    <3>1. Goto(p, "branch") /\ UNCHANGED at /\ at[p] # None /\ "branch" \in Pcs \ {"idle"}
      BY <1>1, <1>2, <1>4, <1>7 DEF LoadExisting, Pcs, Exists
    <3>2. QED BY <1>1, <1>3, <3>1, GotoMoves
  <2>2. /\ rec'[t] = rec[t] /\ turn'[t] = turn[t] /\ entry'[t] = entry[t]
        /\ held'[t] = held[t] /\ hosted'[t] = hosted[t] /\ node'[t] = node[t]
    BY <1>1, <1>2, <1>3, <1>4, <1>7 DEF LoadExisting, StoreTypes, OutsideTypes, Store, Outside,
       Exists
  <2>3. /\ StoreTypes' /\ OutsideTypes' /\ back' \in [Procs -> Entry]
        /\ \A u \in Tasks \ {t} : Same(u)
        /\ \A q \in Procs \ {p} : back'[q] = back[q]
    BY <1>1, <1>2, <1>3, <1>4, <1>7, BlankStored, SubmissionAssumption DEF LoadExisting,
       StoreTypes, OutsideTypes, Store, Outside, Same, Exists
  <2>4. Whole(t)'
    BY <1>1, <1>2, <1>4, <1>7, <2>2, BlankStored, SubmissionAssumption DEF LoadExisting, Whole,
       Reached, Exists, Pending, Unwritten, Written, Undoing
  <2>5. Reached(p)'
    BY <1>1, <1>2, <1>4, <1>7, <2>1, <2>2, BlankStored, SubmissionAssumption DEF LoadExisting,
       Whole, Reached, Exists, Pending, Unwritten, Written, Undoing
  <2>6. QED
    BY <1>1, <2>1, <2>3, <2>4, <2>5, TypesSplitNext, WorkerStep DEF Still
<1>8. QED BY <1>1, <1>5, <1>6, <1>7 DEF LoadExisting, Undo

LEMMA ReserveBranchKeeps ==
    ASSUME SubmissionInv, OnePerTask, NEW p \in Procs, ReserveBranch(p)
    PROVE  SubmissionInv'
<1>1. PICK t \in Tasks : t = at[p]
  BY DEF ReserveBranch, SubmissionInv, SubmissionTypeOK
<1>2. Whole(t) /\ Reached(p) /\ rec[t] \in Rec /\ entry[t] \in Entry /\ t # None
  BY SubmissionAssumption DEF SubmissionInv, SubmissionTypeOK
<1>3. PlaceTypes /\ StoreTypes /\ OutsideTypes /\ back \in [Procs -> Entry]
  BY TypesSplit DEF SubmissionInv
<1>4. QED
  <2>1. /\ PlaceTypes' /\ pc'[p] = "create" /\ at'[p] = t
        /\ \A q \in Procs \ {p} : pc'[q] = pc[q] /\ at'[q] = at[q]
    <3>1. Goto(p, "create") /\ UNCHANGED at /\ at[p] # None /\ "create" \in Pcs \ {"idle"}
      BY <1>1, <1>2 DEF ReserveBranch, Pcs
    <3>2. QED BY <1>1, <1>3, <3>1, GotoMoves
  <2>2. /\ rec'[t] = rec[t] /\ turn'[t] = turn[t] /\ entry'[t] = entry[t]
        /\ held'[t] = held[t] \cup {"branch"} /\ hosted'[t] = hosted[t] /\ node'[t] = node[t]
    BY <1>1, <1>2, <1>3 DEF ReserveBranch, StoreTypes, OutsideTypes, Store, Outside
  <2>3. /\ StoreTypes' /\ OutsideTypes' /\ back' \in [Procs -> Entry]
        /\ \A u \in Tasks \ {t} : Same(u)
        /\ \A q \in Procs \ {p} : back'[q] = back[q]
    BY <1>1, <1>2, <1>3, BlankStored, SubmissionAssumption DEF ReserveBranch, StoreTypes,
       OutsideTypes, Store, Outside, Same
  <2>4. Whole(t)'
    BY <1>1, <1>2, <2>2, BlankStored, SubmissionAssumption DEF ReserveBranch, Whole, Reached,
       Exists, Pending, Unwritten, Written, Undoing
  <2>5. Reached(p)'
    BY <1>1, <1>2, <2>1, <2>2, BlankStored, SubmissionAssumption DEF ReserveBranch, Whole,
       Reached, Exists, Pending, Unwritten, Written, Undoing
  <2>6. QED
    BY <1>1, <2>1, <2>3, <2>4, <2>5, TypesSplitNext, WorkerStep DEF Still

LEMMA CreateTaskKeeps ==
    ASSUME SubmissionInv, OnePerTask, NEW p \in Procs, CreateTask(p)
    PROVE  SubmissionInv'
<1>1. PICK t \in Tasks : t = at[p]
  BY DEF CreateTask, SubmissionInv, SubmissionTypeOK
<1>2. Whole(t) /\ Reached(p) /\ rec[t] \in Rec /\ entry[t] \in Entry /\ t # None
  BY SubmissionAssumption DEF SubmissionInv, SubmissionTypeOK
<1>3. PlaceTypes /\ StoreTypes /\ OutsideTypes /\ back \in [Procs -> Entry]
  BY TypesSplit DEF SubmissionInv
<1>4. /\ Recovered(rec[t]) \in Rec /\ Recovered(rec[t]).intent = rec[t].intent /\ Recovered(rec[t]).mark = FALSE
      /\ Recovered(rec[t]).st = "none" <=> rec[t].st = "none"
      /\ rec[t].st = "active" => Recovered(rec[t]).st = "active"
  BY <1>2, RecoveredIs
<1>5. CASE Exists(t)
  <2>1. /\ PlaceTypes' /\ pc'[p] = "prompt" /\ at'[p] = t
        /\ \A q \in Procs \ {p} : pc'[q] = pc[q] /\ at'[q] = at[q]
    <3>1. Goto(p, "prompt") /\ UNCHANGED at /\ at[p] # None /\ "prompt" \in Pcs \ {"idle"}
      BY <1>1, <1>2, <1>4, <1>5 DEF CreateTask, Pcs, Exists
    <3>2. QED BY <1>1, <1>3, <3>1, GotoMoves
  <2>2. /\ rec'[t] = Recovered(rec[t]) /\ turn'[t] = turn[t] /\ entry'[t] = entry[t]
        /\ held'[t] = held[t] /\ hosted'[t] = hosted[t] /\ node'[t] = node[t]
    BY <1>1, <1>2, <1>3, <1>4, <1>5 DEF CreateTask, StoreTypes, OutsideTypes, Store, Outside,
       Exists
  <2>3. /\ StoreTypes' /\ OutsideTypes' /\ back' \in [Procs -> Entry]
        /\ \A u \in Tasks \ {t} : Same(u)
        /\ \A q \in Procs \ {p} : back'[q] = back[q]
    BY <1>1, <1>2, <1>3, <1>4, <1>5, BlankStored, IntendedIs, SubmissionAssumption DEF CreateTask,
       StoreTypes, OutsideTypes, Store, Outside, Same, Exists
  <2>4. Whole(t)'
    BY <1>1, <1>2, <1>4, <1>5, <2>2, BlankStored, IntendedIs, SubmissionAssumption DEF CreateTask,
       Whole, Reached, Exists, Pending, Unwritten, Written, Undoing
  <2>5. Reached(p)'
    BY <1>1, <1>2, <1>4, <1>5, <2>1, <2>2, BlankStored, IntendedIs, SubmissionAssumption DEF
       CreateTask, Whole, Reached, Exists, Pending, Unwritten, Written, Undoing
  <2>6. QED
    BY <1>1, <2>1, <2>3, <2>4, <2>5, TypesSplitNext, WorkerStep DEF Still
<1>6. CASE ~Exists(t)
  <2>1. /\ PlaceTypes' /\ pc'[p] = "prompt" /\ at'[p] = t
        /\ \A q \in Procs \ {p} : pc'[q] = pc[q] /\ at'[q] = at[q]
    <3>1. Goto(p, "prompt") /\ UNCHANGED at /\ at[p] # None /\ "prompt" \in Pcs \ {"idle"}
      BY <1>1, <1>2, <1>4, <1>6 DEF CreateTask, Pcs, Intended, Exists
    <3>2. QED BY <1>1, <1>3, <3>1, GotoMoves
  <2>2. /\ rec'[t] = Intended /\ turn'[t] = turn[t] /\ entry'[t] = entry[t]
        /\ held'[t] = held[t] /\ hosted'[t] = hosted[t] /\ node'[t] = node[t]
    BY <1>1, <1>2, <1>3, <1>4, <1>6 DEF CreateTask, StoreTypes, OutsideTypes, Store, Outside,
       Intended, Exists
  <2>3. /\ StoreTypes' /\ OutsideTypes' /\ back' \in [Procs -> Entry]
        /\ \A u \in Tasks \ {t} : Same(u)
        /\ \A q \in Procs \ {p} : back'[q] = back[q]
    BY <1>1, <1>2, <1>3, <1>4, <1>6, BlankStored, IntendedIs, SubmissionAssumption DEF CreateTask,
       StoreTypes, OutsideTypes, Store, Outside, Same, Intended, Exists
  <2>4. Whole(t)'
    BY <1>1, <1>2, <1>4, <1>6, <2>2, BlankStored, IntendedIs, SubmissionAssumption DEF CreateTask,
       Whole, Reached, Exists, Pending, Unwritten, Written, Undoing
  <2>5. Reached(p)'
    BY <1>1, <1>2, <1>4, <1>6, <2>1, <2>2, BlankStored, IntendedIs, SubmissionAssumption DEF
       CreateTask, Whole, Reached, Exists, Pending, Unwritten, Written, Undoing
  <2>6. QED
    BY <1>1, <2>1, <2>3, <2>4, <2>5, TypesSplitNext, WorkerStep DEF Still
<1>7. QED BY <1>1, <1>5, <1>6 DEF CreateTask, Undo

LEMMA WritePromptKeeps ==
    ASSUME SubmissionInv, OnePerTask, NEW p \in Procs, WritePrompt(p)
    PROVE  SubmissionInv'
<1>1. PICK t \in Tasks : t = at[p]
  BY DEF WritePrompt, SubmissionInv, SubmissionTypeOK
<1>2. Whole(t) /\ Reached(p) /\ rec[t] \in Rec /\ entry[t] \in Entry /\ t # None
  BY SubmissionAssumption DEF SubmissionInv, SubmissionTypeOK
<1>3. PlaceTypes /\ StoreTypes /\ OutsideTypes /\ back \in [Procs -> Entry]
  BY TypesSplit DEF SubmissionInv
<1>4. QED
  <2>1. /\ PlaceTypes' /\ pc'[p] = "enqueue" /\ at'[p] = t
        /\ \A q \in Procs \ {p} : pc'[q] = pc[q] /\ at'[q] = at[q]
    <3>1. Goto(p, "enqueue") /\ UNCHANGED at /\ at[p] # None /\ "enqueue" \in Pcs \ {"idle"}
      BY <1>1, <1>2 DEF WritePrompt, Pcs
    <3>2. QED BY <1>1, <1>3, <3>1, GotoMoves
  <2>2. /\ rec'[t] = rec[t] /\ turn'[t] = "prompt" /\ entry'[t] = entry[t]
        /\ held'[t] = held[t] /\ hosted'[t] = hosted[t] /\ node'[t] = node[t]
    BY <1>1, <1>2, <1>3 DEF WritePrompt, StoreTypes, OutsideTypes, Store, Outside
  <2>3. /\ StoreTypes' /\ OutsideTypes' /\ back' \in [Procs -> Entry]
        /\ \A u \in Tasks \ {t} : Same(u)
        /\ \A q \in Procs \ {p} : back'[q] = back[q]
    BY <1>1, <1>2, <1>3, BlankStored, SubmissionAssumption DEF WritePrompt, StoreTypes,
       OutsideTypes, Store, Outside, Same
  <2>4. Whole(t)'
    BY <1>1, <1>2, <2>2, BlankStored, SubmissionAssumption DEF WritePrompt, Whole, Reached,
       Exists, Pending, Unwritten, Written, Undoing
  <2>5. Reached(p)'
    BY <1>1, <1>2, <2>1, <2>2, BlankStored, SubmissionAssumption DEF WritePrompt, Whole, Reached,
       Exists, Pending, Unwritten, Written, Undoing
  <2>6. QED
    BY <1>1, <2>1, <2>3, <2>4, <2>5, TypesSplitNext, WorkerStep DEF Still

LEMMA EnqueueKeeps ==
    ASSUME SubmissionInv, OnePerTask, NEW p \in Procs, Enqueue(p)
    PROVE  SubmissionInv'
<1>1. PICK t \in Tasks : t = at[p]
  BY DEF Enqueue, SubmissionInv, SubmissionTypeOK
<1>2. Whole(t) /\ Reached(p) /\ rec[t] \in Rec /\ entry[t] \in Entry /\ t # None
  BY SubmissionAssumption DEF SubmissionInv, SubmissionTypeOK
<1>3. PlaceTypes /\ StoreTypes /\ OutsideTypes /\ back \in [Procs -> Entry]
  BY TypesSplit DEF SubmissionInv
<1>4. CASE entry[t].st # "none"
  <2>1. /\ PlaceTypes' /\ pc'[p] = "report" /\ at'[p] = t
        /\ \A q \in Procs \ {p} : pc'[q] = pc[q] /\ at'[q] = at[q]
    <3>1. Goto(p, "report") /\ UNCHANGED at /\ at[p] # None /\ "report" \in Pcs \ {"idle"}
      BY <1>1, <1>2, <1>4 DEF Enqueue, Pcs
    <3>2. QED BY <1>1, <1>3, <3>1, GotoMoves
  <2>2. /\ rec'[t] = rec[t] /\ turn'[t] = turn[t] /\ entry'[t] = entry[t]
        /\ held'[t] = held[t] /\ hosted'[t] = hosted[t] /\ node'[t] = node[t]
    BY <1>1, <1>2, <1>3, <1>4 DEF Enqueue, StoreTypes, OutsideTypes, Store, Outside
  <2>3. /\ StoreTypes' /\ OutsideTypes' /\ back' \in [Procs -> Entry]
        /\ \A u \in Tasks \ {t} : Same(u)
        /\ \A q \in Procs \ {p} : back'[q] = back[q]
    BY <1>1, <1>2, <1>3, <1>4, BlankStored, SubmissionAssumption DEF Enqueue, StoreTypes,
       OutsideTypes, Store, Outside, Same
  <2>4. Whole(t)'
    BY <1>1, <1>2, <1>4, <2>2, BlankStored, SubmissionAssumption DEF Enqueue, Whole, Reached,
       Exists, Pending, Unwritten, Written, Undoing
  <2>5. Reached(p)'
    BY <1>1, <1>2, <1>4, <2>1, <2>2, BlankStored, SubmissionAssumption DEF Enqueue, Whole,
       Reached, Exists, Pending, Unwritten, Written, Undoing
  <2>6. QED
    BY <1>1, <2>1, <2>3, <2>4, <2>5, TypesSplitNext, WorkerStep DEF Still
<1>5. CASE entry[t].st = "none"
  <2>1. /\ PlaceTypes' /\ pc'[p] = "report" /\ at'[p] = t
        /\ \A q \in Procs \ {p} : pc'[q] = pc[q] /\ at'[q] = at[q]
    <3>1. Goto(p, "report") /\ UNCHANGED at /\ at[p] # None /\ "report" \in Pcs \ {"idle"}
      BY <1>1, <1>2, <1>5 DEF Enqueue, Pcs, Entry
    <3>2. QED BY <1>1, <1>3, <3>1, GotoMoves
  <2>2. /\ rec'[t] = rec[t] /\ turn'[t] = turn[t] /\ entry'[t] = [st |-> "waiting", owner |-> p, by |-> p]
        /\ held'[t] = held[t] /\ hosted'[t] = hosted[t] /\ node'[t] = node[t]
    BY <1>1, <1>2, <1>3, <1>5 DEF Enqueue, StoreTypes, OutsideTypes, Store, Outside, Entry
  <2>3. /\ StoreTypes' /\ OutsideTypes' /\ back' \in [Procs -> Entry]
        /\ \A u \in Tasks \ {t} : Same(u)
        /\ \A q \in Procs \ {p} : back'[q] = back[q]
    BY <1>1, <1>2, <1>3, <1>5, BlankStored, SubmissionAssumption DEF Enqueue, StoreTypes,
       OutsideTypes, Store, Outside, Same, Entry
  <2>4. Whole(t)'
    BY <1>1, <1>2, <1>5, <2>2, BlankStored, SubmissionAssumption DEF Enqueue, Whole, Reached,
       Exists, Pending, Unwritten, Written, Undoing, Entry
  <2>5. Reached(p)'
    BY <1>1, <1>2, <1>5, <2>1, <2>2, BlankStored, SubmissionAssumption DEF Enqueue, Whole,
       Reached, Exists, Pending, Unwritten, Written, Undoing, Entry
  <2>6. QED
    BY <1>1, <2>1, <2>3, <2>4, <2>5, TypesSplitNext, WorkerStep DEF Still
<1>6. QED BY <1>1, <1>4, <1>5 DEF Enqueue, Undo

LEMMA ReportKeeps ==
    ASSUME SubmissionInv, OnePerTask, NEW p \in Procs, Report(p)
    PROVE  SubmissionInv'
<1>1. PICK t \in Tasks : t = at[p]
  BY DEF Report, SubmissionInv, SubmissionTypeOK
<1>2. Whole(t) /\ Reached(p) /\ rec[t] \in Rec /\ entry[t] \in Entry /\ t # None
  BY SubmissionAssumption DEF SubmissionInv, SubmissionTypeOK
<1>3. PlaceTypes /\ StoreTypes /\ OutsideTypes /\ back \in [Procs -> Entry]
  BY TypesSplit DEF SubmissionInv
<1>4. QED
  <2>1. /\ PlaceTypes' /\ pc'[p] = "clear" /\ at'[p] = t
        /\ \A q \in Procs \ {p} : pc'[q] = pc[q] /\ at'[q] = at[q]
    <3>1. Goto(p, "clear") /\ UNCHANGED at /\ at[p] # None /\ "clear" \in Pcs \ {"idle"}
      BY <1>1, <1>2 DEF Report, Pcs, Reached, Written, Exists
    <3>2. QED BY <1>1, <1>3, <3>1, GotoMoves
  <2>2. /\ rec'[t] = rec[t] /\ turn'[t] = turn[t] /\ entry'[t] = entry[t]
        /\ held'[t] = held[t] /\ hosted'[t] = hosted[t] /\ node'[t] = node[t]
    BY <1>1, <1>2, <1>3 DEF Report, StoreTypes, OutsideTypes, Store, Outside, Reached, Written,
       Exists
  <2>3. /\ StoreTypes' /\ OutsideTypes' /\ back' \in [Procs -> Entry]
        /\ \A u \in Tasks \ {t} : Same(u)
        /\ \A q \in Procs \ {p} : back'[q] = back[q]
    BY <1>1, <1>2, <1>3, BlankStored, SubmissionAssumption DEF Report, StoreTypes, OutsideTypes,
       Store, Outside, Same, Reached, Written, Exists
  <2>4. Whole(t)'
    BY <1>1, <1>2, <2>2, BlankStored, SubmissionAssumption DEF Report, Whole, Reached, Exists,
       Pending, Unwritten, Written, Undoing
  <2>5. Reached(p)'
    BY <1>1, <1>2, <2>1, <2>2, BlankStored, SubmissionAssumption DEF Report, Whole, Reached,
       Exists, Pending, Unwritten, Written, Undoing
  <2>6. QED
    BY <1>1, <2>1, <2>3, <2>4, <2>5, TypesSplitNext, WorkerStep DEF Still

LEMMA SubmitFailsKeeps ==
    ASSUME SubmissionInv, OnePerTask, NEW p \in Procs, SubmitFails(p)
    PROVE  SubmissionInv'
<1>1. PICK t \in Tasks : t = at[p]
  BY DEF SubmitFails, SubmissionInv, SubmissionTypeOK
<1>2. Whole(t) /\ Reached(p) /\ rec[t] \in Rec /\ entry[t] \in Entry /\ t # None
  BY SubmissionAssumption DEF SubmissionInv, SubmissionTypeOK
<1>3. PlaceTypes /\ StoreTypes /\ OutsideTypes /\ back \in [Procs -> Entry]
  BY TypesSplit DEF SubmissionInv
<1>4. CASE Leave(p)
  <2>1. /\ PlaceTypes' /\ pc'[p] = "idle" /\ at'[p] = None
        /\ \A q \in Procs \ {p} : pc'[q] = pc[q] /\ at'[q] = at[q]
    <3>1. Leave(p)
      BY <1>1, <1>2, <1>4 DEF SubmitFails
    <3>2. QED BY <1>3, <3>1, LeaveMoves
  <2>2. /\ rec'[t] = rec[t] /\ turn'[t] = turn[t] /\ entry'[t] = entry[t]
        /\ held'[t] = held[t] /\ hosted'[t] = hosted[t] /\ node'[t] = node[t]
    BY <1>1, <1>2, <1>3, <1>4 DEF SubmitFails, StoreTypes, OutsideTypes, Store, Outside
  <2>3. /\ StoreTypes' /\ OutsideTypes' /\ back' \in [Procs -> Entry]
        /\ \A u \in Tasks \ {t} : Same(u)
        /\ \A q \in Procs \ {p} : back'[q] = back[q]
    BY <1>1, <1>2, <1>3, <1>4, BlankStored, SubmissionAssumption DEF SubmitFails, StoreTypes,
       OutsideTypes, Store, Outside, Same
  <2>4. Whole(t)'
    BY <1>1, <1>2, <1>4, <2>2, BlankStored, SubmissionAssumption DEF SubmitFails, Whole, Reached,
       Exists, Pending, Unwritten, Written, Undoing
  <2>5. Reached(p)'
    BY <2>1, IdleReached
  <2>6. QED
    BY <1>1, <2>1, <2>3, <2>4, <2>5, TypesSplitNext, WorkerStep DEF Still
<1>5. CASE t \notin Frozen
  <2>1. /\ PlaceTypes' /\ pc'[p] = "undo" /\ at'[p] = t
        /\ \A q \in Procs \ {p} : pc'[q] = pc[q] /\ at'[q] = at[q]
    <3>1. Goto(p, "undo") /\ UNCHANGED at /\ at[p] # None /\ "undo" \in Pcs \ {"idle"}
      BY <1>1, <1>2, <1>5 DEF SubmitFails, Pcs, Undo
    <3>2. QED BY <1>1, <1>3, <3>1, GotoMoves
  <2>2. /\ rec'[t] = rec[t] /\ turn'[t] = turn[t] /\ entry'[t] = entry[t]
        /\ held'[t] = held[t] /\ hosted'[t] = hosted[t] /\ node'[t] = node[t]
    BY <1>1, <1>2, <1>3, <1>5 DEF SubmitFails, StoreTypes, OutsideTypes, Store, Outside, Undo
  <2>3. /\ StoreTypes' /\ OutsideTypes' /\ back' \in [Procs -> Entry]
        /\ \A u \in Tasks \ {t} : Same(u)
        /\ \A q \in Procs \ {p} : back'[q] = back[q]
    BY <1>1, <1>2, <1>3, <1>5, BlankStored, SubmissionAssumption DEF SubmitFails, StoreTypes,
       OutsideTypes, Store, Outside, Same, Undo
  <2>4. Whole(t)'
    BY <1>1, <1>2, <1>5, <2>2, BlankStored, SubmissionAssumption DEF SubmitFails, Whole, Reached,
       Exists, Pending, Unwritten, Written, Undoing, Undo
  <2>5. Reached(p)'
    BY <1>1, <1>2, <1>5, <2>1, <2>2, BlankStored, SubmissionAssumption DEF SubmitFails, Whole,
       Reached, Exists, Pending, Unwritten, Written, Undoing, Undo
  <2>6. QED
    BY <1>1, <2>1, <2>3, <2>4, <2>5, TypesSplitNext, WorkerStep DEF Still
<1>6. QED BY <1>1, <1>4, <1>5 DEF SubmitFails, Undo

LEMMA ClearIntentKeeps ==
    ASSUME SubmissionInv, OnePerTask, NEW p \in Procs, ClearIntent(p)
    PROVE  SubmissionInv'
<1>1. PICK t \in Tasks : t = at[p]
  BY DEF ClearIntent, SubmissionInv, SubmissionTypeOK
<1>2. Whole(t) /\ Reached(p) /\ rec[t] \in Rec /\ entry[t] \in Entry /\ t # None
  BY SubmissionAssumption DEF SubmissionInv, SubmissionTypeOK
<1>3. PlaceTypes /\ StoreTypes /\ OutsideTypes /\ back \in [Procs -> Entry]
  BY TypesSplit DEF SubmissionInv
<1>4. /\ [rec[t] EXCEPT !.intent = FALSE] \in Rec
      /\ [rec[t] EXCEPT !.intent = FALSE].st = rec[t].st /\ [rec[t] EXCEPT !.intent = FALSE].mark = rec[t].mark
      /\ ~[rec[t] EXCEPT !.intent = FALSE].intent
  BY <1>2 DEF Rec
<1>5. QED
  <2>1. /\ PlaceTypes' /\ pc'[p] = "start" /\ at'[p] = t
        /\ \A q \in Procs \ {p} : pc'[q] = pc[q] /\ at'[q] = at[q]
    <3>1. Goto(p, "start") /\ UNCHANGED at /\ at[p] # None /\ "start" \in Pcs \ {"idle"}
      BY <1>1, <1>2, <1>4 DEF ClearIntent, Pcs, Exists, Reached, Written
    <3>2. QED BY <1>1, <1>3, <3>1, GotoMoves
  <2>2. /\ rec'[t] = [rec[t] EXCEPT !.intent = FALSE] /\ turn'[t] = turn[t] /\ entry'[t] = entry[t]
        /\ held'[t] = held[t] /\ hosted'[t] = hosted[t] /\ node'[t] = node[t]
    BY <1>1, <1>2, <1>3, <1>4 DEF ClearIntent, StoreTypes, OutsideTypes, Store, Outside, Exists,
       Reached, Written
  <2>3. /\ StoreTypes' /\ OutsideTypes' /\ back' \in [Procs -> Entry]
        /\ \A u \in Tasks \ {t} : Same(u)
        /\ \A q \in Procs \ {p} : back'[q] = back[q]
    BY <1>1, <1>2, <1>3, <1>4, BlankStored, SubmissionAssumption DEF ClearIntent, StoreTypes,
       OutsideTypes, Store, Outside, Same, Exists, Reached, Written
  <2>4. Whole(t)'
    BY <1>1, <1>2, <1>4, <2>2, BlankStored, SubmissionAssumption DEF ClearIntent, Whole, Reached,
       Exists, Pending, Unwritten, Written, Undoing
  <2>5. Reached(p)'
    BY <1>1, <1>2, <1>4, <2>1, <2>2, BlankStored, SubmissionAssumption DEF ClearIntent, Whole,
       Reached, Exists, Pending, Unwritten, Written, Undoing
  <2>6. QED
    BY <1>1, <2>1, <2>3, <2>4, <2>5, TypesSplitNext, WorkerStep DEF Still

LEMMA StartKeeps ==
    ASSUME SubmissionInv, OnePerTask, NEW p \in Procs, Start(p)
    PROVE  SubmissionInv'
<1>1. PICK t \in Tasks : t = at[p]
  BY DEF Start, SubmissionInv, SubmissionTypeOK
<1>2. Whole(t) /\ Reached(p) /\ rec[t] \in Rec /\ entry[t] \in Entry /\ t # None
  BY SubmissionAssumption DEF SubmissionInv, SubmissionTypeOK
<1>3. PlaceTypes /\ StoreTypes /\ OutsideTypes /\ back \in [Procs -> Entry]
  BY TypesSplit DEF SubmissionInv
<1>4. /\ [entry[t] EXCEPT !.owner = None] \in Entry /\ [entry[t] EXCEPT !.owner = Runner] \in Entry
      /\ [rec[t] EXCEPT !.runner = TRUE] \in Rec
      /\ [entry[t] EXCEPT !.owner = None].owner = None /\ [entry[t] EXCEPT !.owner = None].st = entry[t].st
      /\ [entry[t] EXCEPT !.owner = Runner].owner = Runner /\ [entry[t] EXCEPT !.owner = Runner].st = entry[t].st
      /\ [rec[t] EXCEPT !.runner = TRUE].st = rec[t].st /\ [rec[t] EXCEPT !.runner = TRUE].mark = rec[t].mark
      /\ [rec[t] EXCEPT !.runner = TRUE].intent = rec[t].intent
  BY <1>2 DEF Rec, Entry
<1>5. CASE UNCHANGED <<entry, rec>>
  <2>1. /\ PlaceTypes' /\ pc'[p] = "submitted" /\ at'[p] = t
        /\ \A q \in Procs \ {p} : pc'[q] = pc[q] /\ at'[q] = at[q]
    <3>1. Goto(p, "submitted") /\ UNCHANGED at /\ at[p] # None /\ "submitted" \in Pcs \ {"idle"}
      BY <1>1, <1>2, <1>4, <1>5 DEF Start, Pcs
    <3>2. QED BY <1>1, <1>3, <3>1, GotoMoves
  <2>2. /\ rec'[t] = rec[t] /\ turn'[t] = turn[t] /\ entry'[t] = entry[t]
        /\ held'[t] = held[t] /\ hosted'[t] = hosted[t] /\ node'[t] = node[t]
    BY <1>1, <1>2, <1>3, <1>4, <1>5 DEF Start, StoreTypes, OutsideTypes, Store, Outside
  <2>3. /\ StoreTypes' /\ OutsideTypes' /\ back' \in [Procs -> Entry]
        /\ \A u \in Tasks \ {t} : Same(u)
        /\ \A q \in Procs \ {p} : back'[q] = back[q]
    BY <1>1, <1>2, <1>3, <1>4, <1>5, BlankStored, SubmissionAssumption DEF Start, StoreTypes,
       OutsideTypes, Store, Outside, Same
  <2>4. Whole(t)'
    BY <1>1, <1>2, <1>4, <1>5, <2>2, BlankStored, SubmissionAssumption DEF Start, Whole, Reached,
       Exists, Pending, Unwritten, Written, Undoing
  <2>5. Reached(p)'
    BY <1>1, <1>2, <1>4, <1>5, <2>1, <2>2, BlankStored, SubmissionAssumption DEF Start, Whole,
       Reached, Exists, Pending, Unwritten, Written, Undoing
  <2>6. QED
    BY <1>1, <2>1, <2>3, <2>4, <2>5, TypesSplitNext, WorkerStep DEF Still
<1>6. CASE entry[t].st = "waiting" /\ entry' = [entry EXCEPT ![t].owner = None] /\ rec' = rec
  <2>1. /\ PlaceTypes' /\ pc'[p] = "submitted" /\ at'[p] = t
        /\ \A q \in Procs \ {p} : pc'[q] = pc[q] /\ at'[q] = at[q]
    <3>1. Goto(p, "submitted") /\ UNCHANGED at /\ at[p] # None /\ "submitted" \in Pcs \ {"idle"}
      BY <1>1, <1>2, <1>4, <1>6 DEF Start, Pcs
    <3>2. QED BY <1>1, <1>3, <3>1, GotoMoves
  <2>2. /\ rec'[t] = rec[t] /\ turn'[t] = turn[t] /\ entry'[t] = [entry[t] EXCEPT !.owner = None]
        /\ held'[t] = held[t] /\ hosted'[t] = hosted[t] /\ node'[t] = node[t]
    BY <1>1, <1>2, <1>3, <1>4, <1>6 DEF Start, StoreTypes, OutsideTypes, Store, Outside
  <2>3. /\ StoreTypes' /\ OutsideTypes' /\ back' \in [Procs -> Entry]
        /\ \A u \in Tasks \ {t} : Same(u)
        /\ \A q \in Procs \ {p} : back'[q] = back[q]
    BY <1>1, <1>2, <1>3, <1>4, <1>6, BlankStored, SubmissionAssumption DEF Start, StoreTypes,
       OutsideTypes, Store, Outside, Same
  <2>4. Whole(t)'
    BY <1>1, <1>2, <1>4, <1>6, <2>2, BlankStored, SubmissionAssumption DEF Start, Whole, Reached,
       Exists, Pending, Unwritten, Written, Undoing
  <2>5. Reached(p)'
    BY <1>1, <1>2, <1>4, <1>6, <2>1, <2>2, BlankStored, SubmissionAssumption DEF Start, Whole,
       Reached, Exists, Pending, Unwritten, Written, Undoing
  <2>6. QED
    BY <1>1, <2>1, <2>3, <2>4, <2>5, TypesSplitNext, WorkerStep DEF Still
<1>7. CASE entry[t].st = "waiting" /\ entry' = [entry EXCEPT ![t].owner = Runner] /\ rec' = [rec EXCEPT ![t].runner = TRUE]
  <2>1. /\ PlaceTypes' /\ pc'[p] = "submitted" /\ at'[p] = t
        /\ \A q \in Procs \ {p} : pc'[q] = pc[q] /\ at'[q] = at[q]
    <3>1. Goto(p, "submitted") /\ UNCHANGED at /\ at[p] # None /\ "submitted" \in Pcs \ {"idle"}
      BY <1>1, <1>2, <1>4, <1>7 DEF Start, Pcs
    <3>2. QED BY <1>1, <1>3, <3>1, GotoMoves
  <2>2. /\ rec'[t] = [rec[t] EXCEPT !.runner = TRUE] /\ turn'[t] = turn[t] /\ entry'[t] = [entry[t] EXCEPT !.owner = Runner]
        /\ held'[t] = held[t] /\ hosted'[t] = hosted[t] /\ node'[t] = node[t]
    BY <1>1, <1>2, <1>3, <1>4, <1>7 DEF Start, StoreTypes, OutsideTypes, Store, Outside
  <2>3. /\ StoreTypes' /\ OutsideTypes' /\ back' \in [Procs -> Entry]
        /\ \A u \in Tasks \ {t} : Same(u)
        /\ \A q \in Procs \ {p} : back'[q] = back[q]
    BY <1>1, <1>2, <1>3, <1>4, <1>7, BlankStored, SubmissionAssumption DEF Start, StoreTypes,
       OutsideTypes, Store, Outside, Same
  <2>4. Whole(t)'
    BY <1>1, <1>2, <1>4, <1>7, <2>2, BlankStored, SubmissionAssumption DEF Start, Whole, Reached,
       Exists, Pending, Unwritten, Written, Undoing
  <2>5. Reached(p)'
    BY <1>1, <1>2, <1>4, <1>7, <2>1, <2>2, BlankStored, SubmissionAssumption DEF Start, Whole,
       Reached, Exists, Pending, Unwritten, Written, Undoing
  <2>6. QED
    BY <1>1, <2>1, <2>3, <2>4, <2>5, TypesSplitNext, WorkerStep DEF Still
<1>8. QED BY <1>1, <1>5, <1>6, <1>7 DEF Start, Launch, Startable

LEMMA MarkSubmittedKeeps ==
    ASSUME SubmissionInv, OnePerTask, NEW p \in Procs, MarkSubmitted(p)
    PROVE  SubmissionInv'
<1>1. PICK t \in Tasks : t = at[p]
  BY DEF MarkSubmitted, SubmissionInv, SubmissionTypeOK
<1>2. Whole(t) /\ Reached(p) /\ rec[t] \in Rec /\ entry[t] \in Entry /\ t # None
  BY SubmissionAssumption DEF SubmissionInv, SubmissionTypeOK
<1>3. PlaceTypes /\ StoreTypes /\ OutsideTypes /\ back \in [Procs -> Entry]
  BY TypesSplit DEF SubmissionInv
<1>4. QED
  <2>1. /\ PlaceTypes' /\ pc'[p] = "idle" /\ at'[p] = None
        /\ \A q \in Procs \ {p} : pc'[q] = pc[q] /\ at'[q] = at[q]
    <3>1. Leave(p)
      BY <1>1, <1>2 DEF MarkSubmitted
    <3>2. QED BY <1>3, <3>1, LeaveMoves
  <2>2. /\ rec'[t] = rec[t] /\ turn'[t] = turn[t] /\ entry'[t] = entry[t]
        /\ held'[t] = held[t] /\ hosted'[t] = hosted[t] /\ node'[t] = "submitted"
    BY <1>1, <1>2, <1>3 DEF MarkSubmitted, StoreTypes, OutsideTypes, Store, Outside
  <2>3. /\ StoreTypes' /\ OutsideTypes' /\ back' \in [Procs -> Entry]
        /\ \A u \in Tasks \ {t} : Same(u)
        /\ \A q \in Procs \ {p} : back'[q] = back[q]
    BY <1>1, <1>2, <1>3, BlankStored, SubmissionAssumption DEF MarkSubmitted, StoreTypes,
       OutsideTypes, Store, Outside, Same
  <2>4. Whole(t)'
    BY <1>1, <1>2, <2>2, BlankStored, SubmissionAssumption DEF MarkSubmitted, Whole, Reached,
       Exists, Pending, Unwritten, Written, Undoing
  <2>5. Reached(p)'
    BY <2>1, IdleReached
  <2>6. QED
    BY <1>1, <2>1, <2>3, <2>4, <2>5, TypesSplitNext, WorkerStep DEF Still

-----------------------------------------------------------------------------
(* Rolling back. *)

LEMMA MarkRollbackKeeps ==
    ASSUME SubmissionInv, OnePerTask, NEW p \in Procs, MarkRollback(p)
    PROVE  SubmissionInv'
<1>1. PICK t \in Tasks : t = at[p]
  BY DEF MarkRollback, SubmissionInv, SubmissionTypeOK
<1>2. Whole(t) /\ Reached(p) /\ rec[t] \in Rec /\ entry[t] \in Entry /\ t # None
  BY SubmissionAssumption DEF SubmissionInv, SubmissionTypeOK
<1>3. PlaceTypes /\ StoreTypes /\ OutsideTypes /\ back \in [Procs -> Entry]
  BY TypesSplit DEF SubmissionInv
<1>4. /\ [rec[t] EXCEPT !.st = "abandoned", !.mark = TRUE] \in Rec
      /\ [rec[t] EXCEPT !.st = "abandoned", !.mark = TRUE].st = "abandoned"
      /\ [rec[t] EXCEPT !.st = "abandoned", !.mark = TRUE].mark
      /\ rec' = [rec EXCEPT ![t] = [rec[t] EXCEPT !.st = "abandoned", !.mark = TRUE]]
      /\ UNCHANGED <<turn, entry, held, Outside, back>>
  BY <1>1, <1>2 DEF Rec, MarkRollback, Reached, Undoing, Exists
<1>5. QED
  <2>1. /\ PlaceTypes' /\ pc'[p] = "release" /\ at'[p] = t
        /\ \A q \in Procs \ {p} : pc'[q] = pc[q] /\ at'[q] = at[q]
    <3>1. Goto(p, "release") /\ UNCHANGED at /\ at[p] # None /\ "release" \in Pcs \ {"idle"}
      BY <1>1, <1>2, <1>4 DEF MarkRollback, Pcs, Exists, Reached, Undoing
    <3>2. QED BY <1>1, <1>3, <3>1, GotoMoves
  <2>2. /\ rec'[t] = [rec[t] EXCEPT !.st = "abandoned", !.mark = TRUE] /\ turn'[t] = turn[t] /\ entry'[t] = entry[t]
        /\ held'[t] = held[t] /\ hosted'[t] = hosted[t] /\ node'[t] = node[t]
    BY <1>1, <1>2, <1>3, <1>4 DEF MarkRollback, StoreTypes, OutsideTypes, Store, Outside, Exists,
       Reached, Undoing
  <2>3. /\ StoreTypes' /\ OutsideTypes' /\ back' \in [Procs -> Entry]
        /\ \A u \in Tasks \ {t} : Same(u)
        /\ \A q \in Procs \ {p} : back'[q] = back[q]
    BY <1>1, <1>2, <1>3, <1>4, BlankStored, SubmissionAssumption DEF StoreTypes, OutsideTypes,
       Store, Outside, Same
  <2>4. Whole(t)'
    BY <1>1, <1>2, <1>4, <2>2, BlankStored, SubmissionAssumption DEF MarkRollback, Whole, Reached,
       Exists, Pending, Unwritten, Written, Undoing
  <2>5. Reached(p)'
    BY <1>1, <1>2, <1>4, <2>1, <2>2, BlankStored, SubmissionAssumption DEF MarkRollback, Whole,
       Reached, Exists, Pending, Unwritten, Written, Undoing
  <2>6. QED
    BY <1>1, <2>1, <2>3, <2>4, <2>5, TypesSplitNext, WorkerStep DEF Still

LEMMA CheckRowKeeps ==
    ASSUME SubmissionInv, OnePerTask, NEW p \in Procs, CheckRow(p)
    PROVE  SubmissionInv'
<1>1. PICK t \in Tasks : t = at[p]
  BY DEF CheckRow, SubmissionInv, SubmissionTypeOK
<1>2. Whole(t) /\ Reached(p) /\ rec[t] \in Rec /\ entry[t] \in Entry /\ t # None
  BY SubmissionAssumption DEF SubmissionInv, SubmissionTypeOK
<1>3. PlaceTypes /\ StoreTypes /\ OutsideTypes /\ back \in [Procs -> Entry]
  BY TypesSplit DEF SubmissionInv
<1>4. CASE Leave(p)
  <2>1. /\ PlaceTypes' /\ pc'[p] = "idle" /\ at'[p] = None
        /\ \A q \in Procs \ {p} : pc'[q] = pc[q] /\ at'[q] = at[q]
    <3>1. Leave(p)
      BY <1>1, <1>2, <1>4 DEF CheckRow
    <3>2. QED BY <1>3, <3>1, LeaveMoves
  <2>2. /\ rec'[t] = rec[t] /\ turn'[t] = turn[t] /\ entry'[t] = entry[t]
        /\ held'[t] = held[t] /\ hosted'[t] = hosted[t] /\ node'[t] = node[t]
    BY <1>1, <1>2, <1>3, <1>4 DEF CheckRow, StoreTypes, OutsideTypes, Store, Outside
  <2>3. /\ StoreTypes' /\ OutsideTypes' /\ back' \in [Procs -> Entry]
        /\ \A u \in Tasks \ {t} : Same(u)
        /\ \A q \in Procs \ {p} : back'[q] = back[q]
    BY <1>1, <1>2, <1>3, <1>4, BlankStored, SubmissionAssumption DEF CheckRow, StoreTypes,
       OutsideTypes, Store, Outside, Same
  <2>4. Whole(t)'
    BY <1>1, <1>2, <1>4, <2>2, BlankStored, SubmissionAssumption DEF CheckRow, Whole, Reached,
       Exists, Pending, Unwritten, Written, Undoing
  <2>5. Reached(p)'
    BY <2>1, IdleReached
  <2>6. QED
    BY <1>1, <2>1, <2>3, <2>4, <2>5, TypesSplitNext, WorkerStep DEF Still
<1>5. CASE Goto(p, "release") /\ UNCHANGED at
  <2>1. /\ PlaceTypes' /\ pc'[p] = "release" /\ at'[p] = t
        /\ \A q \in Procs \ {p} : pc'[q] = pc[q] /\ at'[q] = at[q]
    <3>1. Goto(p, "release") /\ UNCHANGED at /\ at[p] # None /\ "release" \in Pcs \ {"idle"}
      BY <1>1, <1>2, <1>5 DEF CheckRow, Pcs
    <3>2. QED BY <1>1, <1>3, <3>1, GotoMoves
  <2>2. /\ rec'[t] = rec[t] /\ turn'[t] = turn[t] /\ entry'[t] = entry[t]
        /\ held'[t] = held[t] /\ hosted'[t] = hosted[t] /\ node'[t] = node[t]
    BY <1>1, <1>2, <1>3, <1>5 DEF CheckRow, StoreTypes, OutsideTypes, Store, Outside
  <2>3. /\ StoreTypes' /\ OutsideTypes' /\ back' \in [Procs -> Entry]
        /\ \A u \in Tasks \ {t} : Same(u)
        /\ \A q \in Procs \ {p} : back'[q] = back[q]
    BY <1>1, <1>2, <1>3, <1>5, BlankStored, SubmissionAssumption DEF CheckRow, StoreTypes,
       OutsideTypes, Store, Outside, Same
  <2>4. Whole(t)'
    BY <1>1, <1>2, <1>5, <2>2, BlankStored, SubmissionAssumption DEF CheckRow, Whole, Reached,
       Exists, Pending, Unwritten, Written, Undoing
  <2>5. Reached(p)'
    BY <1>1, <1>2, <1>5, <2>1, <2>2, BlankStored, SubmissionAssumption DEF CheckRow, Whole,
       Reached, Exists, Pending, Unwritten, Written, Undoing
  <2>6. QED
    BY <1>1, <2>1, <2>3, <2>4, <2>5, TypesSplitNext, WorkerStep DEF Still
<1>6. QED BY <1>1, <1>4, <1>5 DEF CheckRow, Undo

LEMMA ReleaseRefsKeeps ==
    ASSUME SubmissionInv, OnePerTask, NEW p \in Procs, ReleaseRefs(p)
    PROVE  SubmissionInv'
<1>1. PICK t \in Tasks : t = at[p]
  BY DEF ReleaseRefs, SubmissionInv, SubmissionTypeOK
<1>2. Whole(t) /\ Reached(p) /\ rec[t] \in Rec /\ entry[t] \in Entry /\ t # None
  BY SubmissionAssumption DEF SubmissionInv, SubmissionTypeOK
<1>3. PlaceTypes /\ StoreTypes /\ OutsideTypes /\ back \in [Procs -> Entry]
  BY TypesSplit DEF SubmissionInv
<1>4. QED
  <2>1. /\ PlaceTypes' /\ pc'[p] = "unrow" /\ at'[p] = t
        /\ \A q \in Procs \ {p} : pc'[q] = pc[q] /\ at'[q] = at[q]
    <3>1. Goto(p, "unrow") /\ UNCHANGED at /\ at[p] # None /\ "unrow" \in Pcs \ {"idle"}
      BY <1>1, <1>2 DEF ReleaseRefs, Pcs
    <3>2. QED BY <1>1, <1>3, <3>1, GotoMoves
  <2>2. /\ rec'[t] = rec[t] /\ turn'[t] = turn[t] /\ entry'[t] = entry[t]
        /\ held'[t] = {} /\ hosted'[t] = hosted[t] /\ node'[t] = node[t]
    BY <1>1, <1>2, <1>3 DEF ReleaseRefs, StoreTypes, OutsideTypes, Store, Outside
  <2>3. /\ StoreTypes' /\ OutsideTypes' /\ back' \in [Procs -> Entry]
        /\ \A u \in Tasks \ {t} : Same(u)
        /\ \A q \in Procs \ {p} : back'[q] = back[q]
    BY <1>1, <1>2, <1>3, BlankStored, SubmissionAssumption DEF ReleaseRefs, StoreTypes,
       OutsideTypes, Store, Outside, Same
  <2>4. Whole(t)'
    BY <1>1, <1>2, <2>2, BlankStored, SubmissionAssumption DEF ReleaseRefs, Whole, Reached,
       Exists, Pending, Unwritten, Written, Undoing
  <2>5. Reached(p)'
    BY <1>1, <1>2, <2>1, <2>2, BlankStored, SubmissionAssumption DEF ReleaseRefs, Whole, Reached,
       Exists, Pending, Unwritten, Written, Undoing
  <2>6. QED
    BY <1>1, <2>1, <2>3, <2>4, <2>5, TypesSplitNext, WorkerStep DEF Still

LEMMA RemoveRowKeeps ==
    ASSUME SubmissionInv, OnePerTask, NEW p \in Procs, RemoveRow(p)
    PROVE  SubmissionInv'
<1>1. PICK t \in Tasks : t = at[p]
  BY DEF RemoveRow, SubmissionInv, SubmissionTypeOK
<1>2. Whole(t) /\ Reached(p) /\ rec[t] \in Rec /\ entry[t] \in Entry /\ t # None
  BY SubmissionAssumption DEF SubmissionInv, SubmissionTypeOK
<1>3. PlaceTypes /\ StoreTypes /\ OutsideTypes /\ back \in [Procs -> Entry]
  BY TypesSplit DEF SubmissionInv
<1>4. QED
  <2>1. /\ PlaceTypes' /\ pc'[p] = "unturn" /\ at'[p] = t
        /\ \A q \in Procs \ {p} : pc'[q] = pc[q] /\ at'[q] = at[q]
    <3>1. Goto(p, "unturn") /\ UNCHANGED at /\ at[p] # None /\ "unturn" \in Pcs \ {"idle"}
      BY <1>1, <1>2 DEF RemoveRow, Pcs
    <3>2. QED BY <1>1, <1>3, <3>1, GotoMoves
  <2>2. /\ rec'[t] = rec[t] /\ turn'[t] = turn[t] /\ entry'[t] = NoEntry
        /\ held'[t] = held[t] /\ hosted'[t] = hosted[t] /\ node'[t] = node[t] /\ back'[p] = entry[t]
    BY <1>1, <1>2, <1>3 DEF RemoveRow, StoreTypes, OutsideTypes, Store, Outside
  <2>3. /\ StoreTypes' /\ OutsideTypes' /\ back' \in [Procs -> Entry]
        /\ \A u \in Tasks \ {t} : Same(u)
        /\ \A q \in Procs \ {p} : back'[q] = back[q]
    BY <1>1, <1>2, <1>3, BlankStored, SubmissionAssumption DEF RemoveRow, StoreTypes,
       OutsideTypes, Store, Outside, Same
  <2>4. Whole(t)'
    BY <1>1, <1>2, <2>2, BlankStored, SubmissionAssumption DEF RemoveRow, Whole, Reached, Exists,
       Pending, Unwritten, Written, Undoing
  <2>5. Reached(p)'
    BY <1>1, <1>2, <2>1, <2>2, BlankStored, SubmissionAssumption DEF RemoveRow, Whole, Reached,
       Exists, Pending, Unwritten, Written, Undoing
  <2>6. QED
    BY <1>1, <2>1, <2>3, <2>4, <2>5, TypesSplitNext, WorkerStep DEF Still

LEMMA RemoveTurnsKeeps ==
    ASSUME SubmissionInv, OnePerTask, NEW p \in Procs, RemoveTurns(p)
    PROVE  SubmissionInv'
<1>1. PICK t \in Tasks : t = at[p]
  BY DEF RemoveTurns, SubmissionInv, SubmissionTypeOK
<1>2. Whole(t) /\ Reached(p) /\ rec[t] \in Rec /\ entry[t] \in Entry /\ t # None
  BY SubmissionAssumption DEF SubmissionInv, SubmissionTypeOK
<1>3. PlaceTypes /\ StoreTypes /\ OutsideTypes /\ back \in [Procs -> Entry]
  BY TypesSplit DEF SubmissionInv
<1>4. QED
  <2>1. /\ PlaceTypes' /\ pc'[p] = "unrecord" /\ at'[p] = t
        /\ \A q \in Procs \ {p} : pc'[q] = pc[q] /\ at'[q] = at[q]
    <3>1. Goto(p, "unrecord") /\ UNCHANGED at /\ at[p] # None /\ "unrecord" \in Pcs \ {"idle"}
      BY <1>1, <1>2 DEF RemoveTurns, Pcs
    <3>2. QED BY <1>1, <1>3, <3>1, GotoMoves
  <2>2. /\ rec'[t] = rec[t] /\ turn'[t] = "none" /\ entry'[t] = entry[t]
        /\ held'[t] = held[t] /\ hosted'[t] = hosted[t] /\ node'[t] = node[t] /\ back'[p] = NoEntry
    BY <1>1, <1>2, <1>3 DEF RemoveTurns, StoreTypes, OutsideTypes, Store, Outside
  <2>3. /\ StoreTypes' /\ OutsideTypes' /\ back' \in [Procs -> Entry]
        /\ \A u \in Tasks \ {t} : Same(u)
        /\ \A q \in Procs \ {p} : back'[q] = back[q]
    BY <1>1, <1>2, <1>3, BlankStored, SubmissionAssumption DEF RemoveTurns, StoreTypes,
       OutsideTypes, Store, Outside, Same
  <2>4. Whole(t)'
    BY <1>1, <1>2, <2>2, BlankStored, SubmissionAssumption DEF RemoveTurns, Whole, Reached,
       Exists, Pending, Unwritten, Written, Undoing
  <2>5. Reached(p)'
    BY <1>1, <1>2, <2>1, <2>2, BlankStored, SubmissionAssumption DEF RemoveTurns, Whole, Reached,
       Exists, Pending, Unwritten, Written, Undoing
  <2>6. QED
    BY <1>1, <2>1, <2>3, <2>4, <2>5, TypesSplitNext, WorkerStep DEF Still

LEMMA RemoveTurnsFailsKeeps ==
    ASSUME SubmissionInv, OnePerTask, NEW p \in Procs, RemoveTurnsFails(p)
    PROVE  SubmissionInv'
<1>1. PICK t \in Tasks : t = at[p]
  BY DEF RemoveTurnsFails, SubmissionInv, SubmissionTypeOK
<1>2. Whole(t) /\ Reached(p) /\ rec[t] \in Rec /\ entry[t] \in Entry /\ t # None
  BY SubmissionAssumption DEF SubmissionInv, SubmissionTypeOK
<1>3. PlaceTypes /\ StoreTypes /\ OutsideTypes /\ back \in [Procs -> Entry]
  BY TypesSplit DEF SubmissionInv
<1>4. CASE entry[t].st = "none"
  <2>1. /\ PlaceTypes' /\ pc'[p] = "idle" /\ at'[p] = None
        /\ \A q \in Procs \ {p} : pc'[q] = pc[q] /\ at'[q] = at[q]
    <3>1. Leave(p)
      BY <1>1, <1>2, <1>4 DEF RemoveTurnsFails
    <3>2. QED BY <1>3, <3>1, LeaveMoves
  <2>2. /\ rec'[t] = rec[t] /\ turn'[t] = turn[t] /\ entry'[t] = back[p]
        /\ held'[t] = held[t] /\ hosted'[t] = hosted[t] /\ node'[t] = node[t] /\ back'[p] = NoEntry
    BY <1>1, <1>2, <1>3, <1>4 DEF RemoveTurnsFails, StoreTypes, OutsideTypes, Store, Outside
  <2>3. /\ StoreTypes' /\ OutsideTypes' /\ back' \in [Procs -> Entry]
        /\ \A u \in Tasks \ {t} : Same(u)
        /\ \A q \in Procs \ {p} : back'[q] = back[q]
    BY <1>1, <1>2, <1>3, <1>4, BlankStored, SubmissionAssumption DEF RemoveTurnsFails, StoreTypes,
       OutsideTypes, Store, Outside, Same
  <2>4. Whole(t)'
    BY <1>1, <1>2, <1>4, <2>2, BlankStored, SubmissionAssumption DEF RemoveTurnsFails, Whole,
       Reached, Exists, Pending, Unwritten, Written, Undoing
  <2>5. Reached(p)'
    BY <2>1, IdleReached
  <2>6. QED
    BY <1>1, <2>1, <2>3, <2>4, <2>5, TypesSplitNext, WorkerStep DEF Still
<1>5. CASE entry[t].st # "none"
  <2>1. /\ PlaceTypes' /\ pc'[p] = "idle" /\ at'[p] = None
        /\ \A q \in Procs \ {p} : pc'[q] = pc[q] /\ at'[q] = at[q]
    <3>1. Leave(p)
      BY <1>1, <1>2, <1>5 DEF RemoveTurnsFails
    <3>2. QED BY <1>3, <3>1, LeaveMoves
  <2>2. /\ rec'[t] = rec[t] /\ turn'[t] = turn[t] /\ entry'[t] = entry[t]
        /\ held'[t] = held[t] /\ hosted'[t] = hosted[t] /\ node'[t] = node[t] /\ back'[p] = NoEntry
    BY <1>1, <1>2, <1>3, <1>5 DEF RemoveTurnsFails, StoreTypes, OutsideTypes, Store, Outside
  <2>3. /\ StoreTypes' /\ OutsideTypes' /\ back' \in [Procs -> Entry]
        /\ \A u \in Tasks \ {t} : Same(u)
        /\ \A q \in Procs \ {p} : back'[q] = back[q]
    BY <1>1, <1>2, <1>3, <1>5, BlankStored, SubmissionAssumption DEF RemoveTurnsFails, StoreTypes,
       OutsideTypes, Store, Outside, Same
  <2>4. Whole(t)'
    BY <1>1, <1>2, <1>5, <2>2, BlankStored, SubmissionAssumption DEF RemoveTurnsFails, Whole,
       Reached, Exists, Pending, Unwritten, Written, Undoing
  <2>5. Reached(p)'
    BY <2>1, IdleReached
  <2>6. QED
    BY <1>1, <2>1, <2>3, <2>4, <2>5, TypesSplitNext, WorkerStep DEF Still
<1>6. QED BY <1>1, <1>4, <1>5 DEF RemoveTurnsFails, Undo

LEMMA RemoveRecordKeeps ==
    ASSUME SubmissionInv, OnePerTask, NEW p \in Procs, RemoveRecord(p)
    PROVE  SubmissionInv'
<1>1. PICK t \in Tasks : t = at[p]
  BY DEF RemoveRecord, SubmissionInv, SubmissionTypeOK
<1>2. Whole(t) /\ Reached(p) /\ rec[t] \in Rec /\ entry[t] \in Entry /\ t # None
  BY SubmissionAssumption DEF SubmissionInv, SubmissionTypeOK
<1>3. PlaceTypes /\ StoreTypes /\ OutsideTypes /\ back \in [Procs -> Entry]
  BY TypesSplit DEF SubmissionInv
<1>4. QED
  <2>1. /\ PlaceTypes' /\ pc'[p] = "idle" /\ at'[p] = None
        /\ \A q \in Procs \ {p} : pc'[q] = pc[q] /\ at'[q] = at[q]
    <3>1. Leave(p)
      BY <1>1, <1>2 DEF RemoveRecord
    <3>2. QED BY <1>3, <3>1, LeaveMoves
  <2>2. /\ rec'[t] = NoRec /\ turn'[t] = turn[t] /\ entry'[t] = entry[t]
        /\ held'[t] = held[t] /\ hosted'[t] = hosted[t] /\ node'[t] = node[t]
    BY <1>1, <1>2, <1>3 DEF RemoveRecord, StoreTypes, OutsideTypes, Store, Outside
  <2>3. /\ StoreTypes' /\ OutsideTypes' /\ back' \in [Procs -> Entry]
        /\ \A u \in Tasks \ {t} : Same(u)
        /\ \A q \in Procs \ {p} : back'[q] = back[q]
    BY <1>1, <1>2, <1>3, BlankStored, SubmissionAssumption DEF RemoveRecord, StoreTypes,
       OutsideTypes, Store, Outside, Same
  <2>4. Whole(t)'
    BY <1>1, <1>2, <2>2, BlankStored, SubmissionAssumption DEF RemoveRecord, Whole, Reached,
       Exists, Pending, Unwritten, Written, Undoing
  <2>5. Reached(p)'
    BY <2>1, IdleReached
  <2>6. QED
    BY <1>1, <2>1, <2>3, <2>4, <2>5, TypesSplitNext, WorkerStep DEF Still

-----------------------------------------------------------------------------
(* Going on with a complete submission. *)

LEMMA EnqueueMissingKeeps ==
    ASSUME SubmissionInv, OnePerTask, NEW p \in Procs, EnqueueMissing(p)
    PROVE  SubmissionInv'
<1>1. PICK t \in Tasks : t = at[p]
  BY DEF EnqueueMissing, SubmissionInv, SubmissionTypeOK
<1>2. Whole(t) /\ Reached(p) /\ rec[t] \in Rec /\ entry[t] \in Entry /\ t # None
  BY SubmissionAssumption DEF SubmissionInv, SubmissionTypeOK
<1>3. PlaceTypes /\ StoreTypes /\ OutsideTypes /\ back \in [Procs -> Entry]
  BY TypesSplit DEF SubmissionInv
<1>4. CASE entry[t].st # "none"
  <2>1. /\ PlaceTypes' /\ pc'[p] = "relaunch" /\ at'[p] = t
        /\ \A q \in Procs \ {p} : pc'[q] = pc[q] /\ at'[q] = at[q]
    <3>1. Goto(p, "relaunch") /\ UNCHANGED at /\ at[p] # None /\ "relaunch" \in Pcs \ {"idle"}
      BY <1>1, <1>2, <1>4 DEF EnqueueMissing, Pcs
    <3>2. QED BY <1>1, <1>3, <3>1, GotoMoves
  <2>2. /\ rec'[t] = rec[t] /\ turn'[t] = turn[t] /\ entry'[t] = entry[t]
        /\ held'[t] = held[t] /\ hosted'[t] = hosted[t] /\ node'[t] = node[t]
    BY <1>1, <1>2, <1>3, <1>4 DEF EnqueueMissing, StoreTypes, OutsideTypes, Store, Outside
  <2>3. /\ StoreTypes' /\ OutsideTypes' /\ back' \in [Procs -> Entry]
        /\ \A u \in Tasks \ {t} : Same(u)
        /\ \A q \in Procs \ {p} : back'[q] = back[q]
    BY <1>1, <1>2, <1>3, <1>4, BlankStored, SubmissionAssumption DEF EnqueueMissing, StoreTypes,
       OutsideTypes, Store, Outside, Same
  <2>4. Whole(t)'
    BY <1>1, <1>2, <1>4, <2>2, BlankStored, SubmissionAssumption DEF EnqueueMissing, Whole,
       Reached, Exists, Pending, Unwritten, Written, Undoing
  <2>5. Reached(p)'
    BY <1>1, <1>2, <1>4, <2>1, <2>2, BlankStored, SubmissionAssumption DEF EnqueueMissing, Whole,
       Reached, Exists, Pending, Unwritten, Written, Undoing
  <2>6. QED
    BY <1>1, <2>1, <2>3, <2>4, <2>5, TypesSplitNext, WorkerStep DEF Still
<1>5. CASE entry[t].st = "none"
  <2>1. /\ PlaceTypes' /\ pc'[p] = "relaunch" /\ at'[p] = t
        /\ \A q \in Procs \ {p} : pc'[q] = pc[q] /\ at'[q] = at[q]
    <3>1. Goto(p, "relaunch") /\ UNCHANGED at /\ at[p] # None /\ "relaunch" \in Pcs \ {"idle"}
      BY <1>1, <1>2, <1>5 DEF EnqueueMissing, Pcs, Entry
    <3>2. QED BY <1>1, <1>3, <3>1, GotoMoves
  <2>2. /\ rec'[t] = rec[t] /\ turn'[t] = turn[t] /\ entry'[t] = [st |-> "waiting", owner |-> p, by |-> p]
        /\ held'[t] = held[t] /\ hosted'[t] = hosted[t] /\ node'[t] = node[t]
    BY <1>1, <1>2, <1>3, <1>5 DEF EnqueueMissing, StoreTypes, OutsideTypes, Store, Outside, Entry
  <2>3. /\ StoreTypes' /\ OutsideTypes' /\ back' \in [Procs -> Entry]
        /\ \A u \in Tasks \ {t} : Same(u)
        /\ \A q \in Procs \ {p} : back'[q] = back[q]
    BY <1>1, <1>2, <1>3, <1>5, BlankStored, SubmissionAssumption DEF EnqueueMissing, StoreTypes,
       OutsideTypes, Store, Outside, Same, Entry
  <2>4. Whole(t)'
    BY <1>1, <1>2, <1>5, <2>2, BlankStored, SubmissionAssumption DEF EnqueueMissing, Whole,
       Reached, Exists, Pending, Unwritten, Written, Undoing, Entry
  <2>5. Reached(p)'
    BY <1>1, <1>2, <1>5, <2>1, <2>2, BlankStored, SubmissionAssumption DEF EnqueueMissing, Whole,
       Reached, Exists, Pending, Unwritten, Written, Undoing, Entry
  <2>6. QED
    BY <1>1, <2>1, <2>3, <2>4, <2>5, TypesSplitNext, WorkerStep DEF Still
<1>6. QED BY <1>1, <1>4, <1>5 DEF EnqueueMissing, Undo

LEMMA RelaunchKeeps ==
    ASSUME SubmissionInv, OnePerTask, NEW p \in Procs, Relaunch(p)
    PROVE  SubmissionInv'
<1>1. PICK t \in Tasks : t = at[p]
  BY DEF Relaunch, SubmissionInv, SubmissionTypeOK
<1>2. Whole(t) /\ Reached(p) /\ rec[t] \in Rec /\ entry[t] \in Entry /\ t # None
  BY SubmissionAssumption DEF SubmissionInv, SubmissionTypeOK
<1>3. PlaceTypes /\ StoreTypes /\ OutsideTypes /\ back \in [Procs -> Entry]
  BY TypesSplit DEF SubmissionInv
<1>4. /\ [entry[t] EXCEPT !.owner = None] \in Entry /\ [entry[t] EXCEPT !.owner = Runner] \in Entry
      /\ [rec[t] EXCEPT !.runner = TRUE] \in Rec
      /\ [entry[t] EXCEPT !.owner = None].owner = None /\ [entry[t] EXCEPT !.owner = None].st = entry[t].st
      /\ [entry[t] EXCEPT !.owner = Runner].owner = Runner /\ [entry[t] EXCEPT !.owner = Runner].st = entry[t].st
      /\ [rec[t] EXCEPT !.runner = TRUE].st = rec[t].st /\ [rec[t] EXCEPT !.runner = TRUE].mark = rec[t].mark
      /\ [rec[t] EXCEPT !.runner = TRUE].intent = rec[t].intent
  BY <1>2 DEF Rec, Entry
<1>5. CASE UNCHANGED <<entry, rec>>
  <2>1. /\ PlaceTypes' /\ pc'[p] = "idle" /\ at'[p] = None
        /\ \A q \in Procs \ {p} : pc'[q] = pc[q] /\ at'[q] = at[q]
    <3>1. Leave(p)
      BY <1>1, <1>2, <1>4, <1>5 DEF Relaunch
    <3>2. QED BY <1>3, <3>1, LeaveMoves
  <2>2. /\ rec'[t] = rec[t] /\ turn'[t] = turn[t] /\ entry'[t] = entry[t]
        /\ held'[t] = held[t] /\ hosted'[t] = hosted[t] /\ node'[t] = node[t]
    BY <1>1, <1>2, <1>3, <1>4, <1>5 DEF Relaunch, StoreTypes, OutsideTypes, Store, Outside
  <2>3. /\ StoreTypes' /\ OutsideTypes' /\ back' \in [Procs -> Entry]
        /\ \A u \in Tasks \ {t} : Same(u)
        /\ \A q \in Procs \ {p} : back'[q] = back[q]
    BY <1>1, <1>2, <1>3, <1>4, <1>5, BlankStored, SubmissionAssumption DEF Relaunch, StoreTypes,
       OutsideTypes, Store, Outside, Same
  <2>4. Whole(t)'
    BY <1>1, <1>2, <1>4, <1>5, <2>2, BlankStored, SubmissionAssumption DEF Relaunch, Whole,
       Reached, Exists, Pending, Unwritten, Written, Undoing
  <2>5. Reached(p)'
    BY <2>1, IdleReached
  <2>6. QED
    BY <1>1, <2>1, <2>3, <2>4, <2>5, TypesSplitNext, WorkerStep DEF Still
<1>6. CASE entry[t].st = "waiting" /\ entry' = [entry EXCEPT ![t].owner = None] /\ rec' = rec
  <2>1. /\ PlaceTypes' /\ pc'[p] = "idle" /\ at'[p] = None
        /\ \A q \in Procs \ {p} : pc'[q] = pc[q] /\ at'[q] = at[q]
    <3>1. Leave(p)
      BY <1>1, <1>2, <1>4, <1>6 DEF Relaunch
    <3>2. QED BY <1>3, <3>1, LeaveMoves
  <2>2. /\ rec'[t] = rec[t] /\ turn'[t] = turn[t] /\ entry'[t] = [entry[t] EXCEPT !.owner = None]
        /\ held'[t] = held[t] /\ hosted'[t] = hosted[t] /\ node'[t] = node[t]
    BY <1>1, <1>2, <1>3, <1>4, <1>6 DEF Relaunch, StoreTypes, OutsideTypes, Store, Outside
  <2>3. /\ StoreTypes' /\ OutsideTypes' /\ back' \in [Procs -> Entry]
        /\ \A u \in Tasks \ {t} : Same(u)
        /\ \A q \in Procs \ {p} : back'[q] = back[q]
    BY <1>1, <1>2, <1>3, <1>4, <1>6, BlankStored, SubmissionAssumption DEF Relaunch, StoreTypes,
       OutsideTypes, Store, Outside, Same
  <2>4. Whole(t)'
    BY <1>1, <1>2, <1>4, <1>6, <2>2, BlankStored, SubmissionAssumption DEF Relaunch, Whole,
       Reached, Exists, Pending, Unwritten, Written, Undoing
  <2>5. Reached(p)'
    BY <2>1, IdleReached
  <2>6. QED
    BY <1>1, <2>1, <2>3, <2>4, <2>5, TypesSplitNext, WorkerStep DEF Still
<1>7. CASE entry[t].st = "waiting" /\ entry' = [entry EXCEPT ![t].owner = Runner] /\ rec' = [rec EXCEPT ![t].runner = TRUE]
  <2>1. /\ PlaceTypes' /\ pc'[p] = "idle" /\ at'[p] = None
        /\ \A q \in Procs \ {p} : pc'[q] = pc[q] /\ at'[q] = at[q]
    <3>1. Leave(p)
      BY <1>1, <1>2, <1>4, <1>7 DEF Relaunch
    <3>2. QED BY <1>3, <3>1, LeaveMoves
  <2>2. /\ rec'[t] = [rec[t] EXCEPT !.runner = TRUE] /\ turn'[t] = turn[t] /\ entry'[t] = [entry[t] EXCEPT !.owner = Runner]
        /\ held'[t] = held[t] /\ hosted'[t] = hosted[t] /\ node'[t] = node[t]
    BY <1>1, <1>2, <1>3, <1>4, <1>7 DEF Relaunch, StoreTypes, OutsideTypes, Store, Outside
  <2>3. /\ StoreTypes' /\ OutsideTypes' /\ back' \in [Procs -> Entry]
        /\ \A u \in Tasks \ {t} : Same(u)
        /\ \A q \in Procs \ {p} : back'[q] = back[q]
    BY <1>1, <1>2, <1>3, <1>4, <1>7, BlankStored, SubmissionAssumption DEF Relaunch, StoreTypes,
       OutsideTypes, Store, Outside, Same
  <2>4. Whole(t)'
    BY <1>1, <1>2, <1>4, <1>7, <2>2, BlankStored, SubmissionAssumption DEF Relaunch, Whole,
       Reached, Exists, Pending, Unwritten, Written, Undoing
  <2>5. Reached(p)'
    BY <2>1, IdleReached
  <2>6. QED
    BY <1>1, <2>1, <2>3, <2>4, <2>5, TypesSplitNext, WorkerStep DEF Still
<1>8. QED BY <1>1, <1>5, <1>6, <1>7 DEF Relaunch, Launch, Startable

-----------------------------------------------------------------------------
(* A process enters, or dies. *)
LEMMA EnterKeeps ==
    ASSUME SubmissionInv, NEW p \in Procs, NEW t \in Tasks, NEW l \in Pcs \ {"idle"}, Enter(p, t, l),
           UNCHANGED <<Store, hosted, back, live, faults>>, OutsideTypes',
           \A u \in Tasks : node'[u] = "waiting" => node[u] = "waiting",
           Reached(p)'
    PROVE  SubmissionInv'
<1>1. PlaceTypes /\ StoreTypes /\ back \in [Procs -> Entry]
  BY TypesSplit DEF SubmissionInv
<1>2. /\ PlaceTypes' /\ pc'[p] = l /\ at'[p] = t
      /\ \A q \in Procs \ {p} : pc'[q] = pc[q] /\ at'[q] = at[q]
  BY <1>1, EnterMoves
<1>3. rec' = rec /\ turn' = turn /\ entry' = entry /\ held' = held
  BY DEF Store
<1>4. SubmissionTypeOK'
  BY <1>1, <1>2, <1>3, TypesSplitNext DEF StoreTypes
<1>5. ASSUME NEW u \in Tasks PROVE Whole(u)'
  BY <1>3 DEF SubmissionInv, Whole, Exists, Pending
<1>6. ASSUME NEW q \in Procs \ {p} PROVE Reached(q)'
  <2>1. CASE pc[q] = "idle"
    BY <1>2, <2>1, IdleReached
  <2>2. CASE pc[q] # "idle"
    <3>1. at[q] \in Tasks /\ Reached(q)
      BY <2>2 DEF SubmissionInv, SubmissionTypeOK
    <3>2. QED BY <1>2, <1>3, <3>1 DEF Reached, Exists, Pending
  <2>3. QED BY <2>1, <2>2
<1>7. QED BY <1>4, <1>5, <1>6 DEF SubmissionInv

LEMMA BeginKeeps ==
    ASSUME SubmissionInv, NEW p \in Procs, NEW t \in Tasks, Begin(p, t)
    PROVE  SubmissionInv'
<1>1. "pin" \in Pcs \ {"idle"} /\ Enter(p, t, "pin") /\ UNCHANGED <<Store, hosted, back, live, faults>>
  BY DEF Begin, Pcs
<1>2. PlaceTypes /\ OutsideTypes /\ Whole(t)
  BY TypesSplit DEF SubmissionInv
<1>3. OutsideTypes' /\ node'[t] = "claimed" /\ \A u \in Tasks : node'[u] = "waiting" => node[u] = "waiting"
  BY <1>2, SubmissionAssumption DEF Begin, OutsideTypes
<1>4. pc'[p] = "pin" /\ at'[p] = t
  BY <1>1, <1>2, EnterMoves
<1>5. rec' = rec /\ (t \notin Frozen => rec[t] = NoRec)
  BY <1>1, <1>2 DEF Begin, Takeable, Whole, Store
<1>6. Reached(p)'
  BY <1>3, <1>4, <1>5 DEF Reached, Unwritten, Written, Undoing
<1>7. QED BY <1>1, <1>3, <1>6, EnterKeeps

(* A reconciling process has read what it acts on. *)
LEMMA ReconcilerKeeps ==
    ASSUME SubmissionInv, NEW p \in Procs, NEW t \in Tasks,
           RecoverSubmission(p, t) \/ LookForRow(p, t) \/ RestartRow(p, t)
    PROVE  SubmissionInv'
<1>1. PICK l \in {"safe", "requeue", "relaunch"} :
        /\ Enter(p, t, l) /\ Exists(t)
        /\ l = "safe" => Pending(rec[t])
        /\ l # "safe" => ~Pending(rec[t])
        /\ l = "requeue" => turn[t] # "none"
  BY DEF RecoverSubmission, LookForRow, RestartRow, Startable
<1>2. UNCHANGED <<Store, Outside, back>>
  BY DEF RecoverSubmission, LookForRow, RestartRow
<1>3. l \in Pcs \ {"idle"} /\ UNCHANGED <<rec, turn, hosted, live, faults, node, claim>>
  BY <1>1, <1>2 DEF Pcs, Store, Outside
<1>4. PlaceTypes /\ OutsideTypes
  BY TypesSplit DEF SubmissionInv
<1>5. OutsideTypes'
  BY <1>3, <1>4 DEF OutsideTypes
<1>6. pc'[p] = l /\ at'[p] = t
  BY <1>1, <1>3, <1>4, EnterMoves
<1>7. Reached(p)'
  BY <1>1, <1>3, <1>6 DEF Reached, Unwritten, Written, Undoing, Exists, Pending
<1>8. QED BY <1>1, <1>2, <1>3, <1>5, <1>7, EnterKeeps

LEMMA MarkCompleteKeeps ==
    ASSUME SubmissionInv, NEW p \in Procs, NEW t \in Tasks, MarkComplete(p, t)
    PROVE  SubmissionInv'
<1>1. UNCHANGED <<rec, turn, entry, held, hosted, live, pc, at, back, faults>>
  BY DEF MarkComplete, Store
<1>2. PlaceTypes /\ StoreTypes /\ OutsideTypes /\ back \in [Procs -> Entry]
  BY TypesSplit DEF SubmissionInv
<1>3. OutsideTypes' /\ \A u \in Tasks : node'[u] = "waiting" => node[u] = "waiting"
  BY <1>2 DEF MarkComplete, OutsideTypes
<1>4. SubmissionTypeOK'
  BY <1>1, <1>2, <1>3, TypesSplitNext DEF PlaceTypes, StoreTypes
<1>5. ASSUME NEW u \in Tasks PROVE Whole(u)'
  BY <1>1, <1>3 DEF SubmissionInv, Whole, Exists, Pending
<1>6. ASSUME NEW q \in Procs PROVE Reached(q)'
  <2>1. CASE pc[q] = "idle"
    BY <1>1, <2>1, IdleReached
  <2>2. CASE pc[q] # "idle"
    <3>1. at[q] \in Tasks /\ Reached(q)
      BY <2>2 DEF SubmissionInv, SubmissionTypeOK
    <3>2. QED BY <1>1, <1>3, <3>1 DEF Reached, Exists, Pending
  <2>3. QED BY <2>1, <2>2
<1>7. QED BY <1>4, <1>5, <1>6 DEF SubmissionInv

LEMMA DieKeeps ==
    ASSUME SubmissionInv, NEW p \in Procs, Die(p)
    PROVE  SubmissionInv'
<1>1. /\ UNCHANGED <<rec, turn, entry, held, hosted, node, claim>> /\ Leave(p)
      /\ back' = [back EXCEPT ![p] = NoEntry] /\ faults' = faults + 1 /\ faults < MaxFaults
      /\ live' = live \ {p}
  BY DEF Die, Store
<1>2. PlaceTypes /\ StoreTypes /\ OutsideTypes /\ back \in [Procs -> Entry]
  BY TypesSplit DEF SubmissionInv
<1>3. /\ PlaceTypes' /\ pc'[p] = "idle"
      /\ \A q \in Procs \ {p} : pc'[q] = pc[q] /\ at'[q] = at[q]
  BY <1>1, <1>2, LeaveMoves
<1>4. OutsideTypes'
  BY <1>1, <1>2, SubmissionAssumption DEF OutsideTypes
<1>5. back' \in [Procs -> Entry] /\ \A q \in Procs \ {p} : back'[q] = back[q]
  BY <1>1, <1>2, BlankStored
<1>6. SubmissionTypeOK'
  BY <1>1, <1>2, <1>3, <1>4, <1>5, TypesSplitNext DEF StoreTypes
<1>7. \A u : Same(u)
  BY <1>1 DEF Same
<1>8. ASSUME NEW u \in Tasks PROVE Whole(u)'
  BY <1>7, SameWhole DEF SubmissionInv
<1>9. ASSUME NEW q \in Procs PROVE Reached(q)'
  <2>1. CASE q = p
    BY <1>3, <2>1, IdleReached
  <2>2. CASE q # p
    BY <1>3, <1>5, <1>7, <2>2, StillReached DEF SubmissionInv, Still
  <2>3. QED BY <2>1, <2>2
<1>10. QED BY <1>6, <1>8, <1>9 DEF SubmissionInv

-----------------------------------------------------------------------------
(* A turn under its runner: its record is handed over, so nobody undoes it. *)
LEMMA TurnStepKeeps ==
    ASSUME SubmissionInv, NEW t \in Tasks, TurnStep(t)
    PROVE  SubmissionInv'
<1>1. Whole(t) /\ rec[t] \in Rec /\ entry[t] \in Entry
  BY DEF SubmissionInv, SubmissionTypeOK
<1>2. PlaceTypes /\ StoreTypes /\ OutsideTypes /\ back \in [Procs -> Entry]
  BY TypesSplit DEF SubmissionInv
<1>3. UNCHANGED <<held, node, claim, live, pc, at, back, faults>>
  BY DEF TurnStep, RunnerClaims, HostAccepts, HostEnds, RunnerFinishes, RunnerRetires, Store,
     Outside
<1>4. Exists(t) /\ ~Pending(rec[t]) /\ entry[t].st # "none"
  BY <1>1 DEF TurnStep, RunnerClaims, HostAccepts, HostEnds, RunnerFinishes, RunnerRetires, Whole
<1>5. \A u \in Tasks \ {t} : Same(u)
  BY <1>2 DEF TurnStep, RunnerClaims, HostAccepts, HostEnds, RunnerFinishes, RunnerRetires, Store,
     Outside, Same, StoreTypes, OutsideTypes
<1>6. /\ rec' \in [Tasks -> Rec] /\ rec'[t].intent = rec[t].intent /\ rec'[t].mark = rec[t].mark
      /\ rec'[t].st \in {rec[t].st, "active", "done"}
  BY <1>1, <1>2 DEF TurnStep, RunnerClaims, HostAccepts, HostEnds, RunnerFinishes, RunnerRetires,
     Store, StoreTypes, Rec
<1>7. entry' \in [Tasks -> Entry]
  BY <1>1, <1>2, BlankStored DEF TurnStep, RunnerClaims, HostAccepts, HostEnds, RunnerFinishes,
     RunnerRetires, Store, StoreTypes, Entry
<1>8. /\ turn' \in [Tasks -> {"none", "prompt", "retired"}] /\ turn'[t] \in {turn[t], "retired"}
      /\ hosted' \in [Tasks -> {"none", "running", "done"}]
  BY <1>2 DEF TurnStep, RunnerClaims, HostAccepts, HostEnds, RunnerFinishes, RunnerRetires, Store,
     Outside, StoreTypes, OutsideTypes
<1>9. SubmissionTypeOK'
  BY <1>2, <1>3, <1>6, <1>7, <1>8, TypesSplitNext DEF PlaceTypes, StoreTypes, OutsideTypes
<1>10. Exists(t)' /\ ~Pending(rec[t])'
  BY <1>4, <1>6 DEF Exists, Pending
<1>11. Whole(t)'
  <2>1. /\ entry'[t].st = "none" => entry'[t].owner = None
        /\ entry'[t].st = "dispatching" => entry'[t].owner = Runner
        /\ hosted'[t] = "running" => entry'[t].st = "dispatching" /\ rec'[t].st = "active"
        /\ entry'[t].st # "none" => turn'[t] # "none"
    <3>1. CASE RunnerClaims(t)
      BY <1>1, <1>2, <3>1 DEF RunnerClaims, Whole, StoreTypes, Entry, Outside
    <3>2. CASE HostAccepts(t)
      BY <1>1, <1>2, <3>2 DEF HostAccepts, Whole, StoreTypes, OutsideTypes, Rec
    <3>3. CASE HostEnds(t)
      BY <1>1, <1>2, <3>3 DEF HostEnds, Whole, StoreTypes, OutsideTypes, Store
    <3>4. CASE RunnerFinishes(t)
      BY <1>1, <1>2, <3>4 DEF RunnerFinishes, Whole, StoreTypes, OutsideTypes, Outside
    <3>5. CASE RunnerRetires(t)
      BY <1>1, <1>2, <3>5, BlankStored DEF RunnerRetires, Whole, StoreTypes, OutsideTypes, Outside
    <3>6. QED BY <3>1, <3>2, <3>3, <3>4, <3>5 DEF TurnStep
  <2>2. "refs" \in held'[t] /\ node'[t] # "waiting" /\ (t \in Frozen => ~rec'[t].mark)
    BY <1>1, <1>3, <1>4, <1>6, BlankStored DEF Whole, Exists
  <2>3. QED BY <1>10, <2>1, <2>2 DEF Whole
<1>12. ASSUME NEW q \in Procs PROVE Reached(q)'
  <2>1. CASE at[q] # t
    <3>1. CASE pc[q] = "idle"
      BY <1>3, <3>1, IdleReached
    <3>2. CASE pc[q] # "idle"
      <4>1. at[q] \in Tasks \ {t}
        BY <2>1, <3>2 DEF SubmissionInv, SubmissionTypeOK
      <4>2. QED BY <1>3, <1>5, <4>1, StillReached DEF SubmissionInv, Still
    <3>3. QED BY <3>1, <3>2
  <2>2. CASE at[q] = t
    <3>1. Reached(q) /\ pc'[q] = pc[q] /\ at'[q] = t /\ held'[t] = held[t] /\ node'[t] = node[t]
      BY <1>3, <2>2 DEF SubmissionInv
    <3>2. pc[q] \notin Undoing \cup {"undo"} /\ (pc[q] \in Unwritten \cup Written => t \in Frozen \/ rec[t].intent)
      BY <1>4, <2>2, <3>1, BlankStored DEF Reached, Exists
    <3>3. pc[q] \notin {"unturn", "unrecord"}
      BY <3>2 DEF Undoing
    <3>4. ~rec[t].mark /\ ~rec[t].intent
      BY <1>4 DEF Pending
    <3>5. QED
      BY <1>6, <1>8, <1>10, <2>2, <3>1, <3>2, <3>3, <3>4 DEF Reached, Exists, Pending
  <2>3. QED BY <2>1, <2>2
<1>13. ASSUME NEW u \in Tasks PROVE Whole(u)'
  BY <1>5, <1>11, SameWhole DEF SubmissionInv
<1>14. QED BY <1>9, <1>12, <1>13 DEF SubmissionInv

-----------------------------------------------------------------------------
(* The invariant holds while one process works on a task. *)
LEMMA SubmissionInvInit ==
    ASSUME Init PROVE SubmissionInv
<1>1. PICK load \in Loads :
         /\ rec  = [t \in Tasks |-> IF t \in load.tasks THEN NoRec ELSE Ran]
         /\ turn = [t \in Tasks |-> IF t \in load.tasks THEN "none" ELSE "retired"]
         /\ held = [t \in Tasks |-> IF t \in load.tasks THEN {} ELSE {"refs", "branch"}]
         /\ hosted = [t \in Tasks |-> IF t \in load.tasks THEN "none" ELSE "done"]
         /\ node = [t \in Tasks |-> IF t \in load.tasks THEN "waiting" ELSE "submitted"]
         /\ live = load.running /\ faults = load.spent
  BY DEF Init
<1>2. load.running \subseteq Procs /\ load.spent \in 0..MaxFaults
  BY LoadsAssumption DEF Load
<1>3. /\ entry = [t \in Tasks |-> NoEntry] /\ claim = [t \in Tasks |-> None]
      /\ pc = [p \in Procs |-> "idle"] /\ at = [p \in Procs |-> None] /\ back = [p \in Procs |-> NoEntry]
  BY DEF Init
<1>4. Ran \in Rec /\ Ran.st = "done" /\ Ran.intent = FALSE /\ Ran.mark = FALSE
  BY DEF Ran, NoRec, Rec
<1>5. StoreTypes
  BY <1>1, <1>3, <1>4, BlankStored DEF StoreTypes
<1>6. OutsideTypes
  BY <1>1, <1>2, <1>3 DEF OutsideTypes
<1>7. PlaceTypes /\ back \in [Procs -> Entry]
  BY <1>3, BlankStored DEF PlaceTypes, Pcs
<1>8. ASSUME NEW t \in Tasks PROVE Whole(t)
  <2>1. entry[t].st = "none" /\ entry[t].owner = None /\ Runner # None
    BY <1>3, BlankStored, SubmissionAssumption
  <2>2. CASE t \in load.tasks
    BY <1>1, <2>1, <2>2, BlankStored DEF Whole, Exists
  <2>3. CASE t \notin load.tasks
    BY <1>1, <1>4, <2>1, <2>3 DEF Whole, Exists, Pending
  <2>4. QED BY <2>2, <2>3
<1>9. ASSUME NEW p \in Procs PROVE Reached(p)
  BY <1>3 DEF Reached, Unwritten, Written, Undoing
<1>10. QED BY <1>5, <1>6, <1>7, <1>8, <1>9, TypesSplit DEF SubmissionInv

LEMMA SubmissionInvNext ==
    ASSUME SubmissionInv, OnePerTask, [Next]_vars PROVE SubmissionInv'
<1>1. CASE UNCHANGED vars
  BY <1>1 DEF vars, SubmissionInv, SubmissionTypeOK, Whole, Reached, Exists, Pending
<1>2. ASSUME NEW p \in Procs, NEW t \in Tasks,
             Begin(p, t) \/ MarkComplete(p, t) \/ RecoverSubmission(p, t) \/ LookForRow(p, t) \/ RestartRow(p, t)
      PROVE  SubmissionInv'
  BY <1>2, BeginKeeps, MarkCompleteKeeps, ReconcilerKeeps
<1>3. ASSUME NEW p \in Procs, Working(p) PROVE SubmissionInv'
  <2>1. CASE PinBase(p) \/ LoadExisting(p) \/ ReserveBranch(p) \/ CreateTask(p) \/ WritePrompt(p)
    BY <2>1, PinBaseKeeps, LoadExistingKeeps, ReserveBranchKeeps, CreateTaskKeeps,
       WritePromptKeeps
  <2>2. CASE Enqueue(p) \/ Report(p) \/ ClearIntent(p) \/ Start(p) \/ MarkSubmitted(p)
    BY <2>2, EnqueueKeeps, ReportKeeps, ClearIntentKeeps, StartKeeps, MarkSubmittedKeeps
  <2>3. CASE MarkRollback(p) \/ CheckRow(p) \/ ReleaseRefs(p) \/ RemoveRow(p) \/ RemoveTurns(p)
    BY <2>3, MarkRollbackKeeps, CheckRowKeeps, ReleaseRefsKeeps, RemoveRowKeeps, RemoveTurnsKeeps
  <2>4. CASE RemoveRecord(p) \/ EnqueueMissing(p) \/ Relaunch(p)
    BY <2>4, RemoveRecordKeeps, EnqueueMissingKeeps, RelaunchKeeps
  <2>5. QED BY <1>3, <2>1, <2>2, <2>3, <2>4 DEF Working
<1>4. ASSUME NEW p \in Procs, SubmitFails(p) \/ RemoveTurnsFails(p) \/ Die(p) PROVE SubmissionInv'
  BY <1>4, SubmitFailsKeeps, RemoveTurnsFailsKeeps, DieKeeps
<1>5. ASSUME NEW t \in Tasks, TurnStep(t) PROVE SubmissionInv'
  BY <1>5, TurnStepKeeps
<1>6. QED BY <1>1, <1>2, <1>3, <1>4, <1>5 DEF Next

LEMMA SubmissionInvHolds == Spec /\ []OnePerTask => []SubmissionInv
<1>1. Init => SubmissionInv
  BY SubmissionInvInit
<1>2. SubmissionInv /\ OnePerTask /\ [Next]_vars => SubmissionInv'
  BY SubmissionInvNext
<1>3. QED BY <1>1, <1>2, PTL DEF Spec

(* As long as no two processes work on the submission of one task, nothing is
   orphaned, however many tasks are submitted at once and however often a
   submitter, a rollback (complete_submission_rollback) or a reconciliation dies
   or fails: a queue row has its prompt and a prompt its record.  The order of
   submit_with_ids and the reverse order of the rollback are what it rests on. *)
THEOREM NothingIsOrphaned == Spec /\ []OnePerTask => []NothingOrphaned
<1>1. SubmissionInv => NothingOrphaned
  BY DEF SubmissionInv, Whole, NothingOrphaned
<1>2. QED BY <1>1, SubmissionInvHolds, PTL

(* Under the same condition a rollback never takes away what a runner has
   adopted: a row gets a runner only after clear_submission_intent, and
   submission_rollback_is_safe and the marker keep a rollback to records that
   still carry an intent or a mark. *)
THEOREM AdoptedWorkIsKept == Spec /\ []OnePerTask => []AdoptedWorkKept
<1>1. SubmissionInv => AdoptedWorkKept
  BY DEF SubmissionInv, Whole, AdoptedWorkKept
<1>2. QED BY <1>1, SubmissionInvHolds, PTL

-----------------------------------------------------------------------------
(* With MaxWorking 1, as in the runs, no two processes ever work on one task. *)
Solo ==
    \A p \in Procs : pc[p] # "idle" => p \in live /\ \A q \in Procs : pc[q] # "idle" => q = p

LEMMA SoloIsOnePerTask ==
    ASSUME SubmissionTypeOK, Solo PROVE OnePerTask
BY DEF SubmissionTypeOK, Solo, OnePerTask

LEMMA SoloNext ==
    ASSUME MaxWorking = 1, IsFiniteSet(Procs), SubmissionInv, Solo, [Next]_vars
    PROVE  Solo'
<1>1. pc \in [Procs -> Pcs] /\ live \subseteq Procs
  BY DEF SubmissionInv, SubmissionTypeOK
<1>2. ASSUME NEW p \in Procs, NEW l, Goto(p, l), UNCHANGED live, pc[p] # "idle" PROVE Solo'
  BY <1>1, <1>2 DEF Goto, Solo
<1>3. ASSUME NEW p \in Procs, NEW t, NEW l, Enter(p, t, l), UNCHANGED live PROVE Solo'
  <2> DEFINE W == {q \in live : pc[q] # "idle"}
  <2>1. IsFiniteSet(W) /\ Cardinality(W) \in Nat
    BY <1>1, FS_Subset, FS_CardinalityType
  <2>2. Cardinality(W) < 1
    BY <1>3 DEF Enter
  <2>3. Cardinality(W) = 0
    BY <2>1, <2>2
  <2>4. W = {}
    BY <2>1, <2>3, FS_EmptySet
  <2>5. \A q \in Procs : pc[q] = "idle"
    BY <2>4 DEF Solo
  <2>6. QED BY <1>1, <1>3, <2>5 DEF Enter, Goto, Solo
<1>4. CASE UNCHANGED vars
  BY <1>4 DEF vars, Solo
<1>5. ASSUME NEW p \in Procs, NEW t \in Tasks,
             Begin(p, t) \/ RecoverSubmission(p, t) \/ LookForRow(p, t) \/ RestartRow(p, t)
      PROVE  Solo'
  BY <1>3, <1>5 DEF Begin, RecoverSubmission, LookForRow, RestartRow, Outside
<1>6. ASSUME NEW p \in Procs, NEW t \in Tasks, MarkComplete(p, t) PROVE Solo'
  BY <1>6 DEF MarkComplete, Solo
<1>7. ASSUME NEW p \in Procs, Working(p) \/ SubmitFails(p) \/ RemoveTurnsFails(p) PROVE Solo'
  <2>1. /\ \E l : Goto(p, l)
        /\ UNCHANGED live /\ pc[p] # "idle"
    <3>1. CASE PinBase(p) \/ LoadExisting(p) \/ ReserveBranch(p) \/ CreateTask(p) \/ WritePrompt(p)
      BY <3>1 DEF PinBase, LoadExisting, ReserveBranch, CreateTask, WritePrompt, Outside
    <3>2. CASE Enqueue(p) \/ Report(p) \/ ClearIntent(p) \/ Start(p) \/ MarkSubmitted(p) \/ SubmitFails(p)
      BY <3>2 DEF Enqueue, Report, ClearIntent, Start, MarkSubmitted, SubmitFails, Undo, Leave,
         Outside
    <3>3. CASE MarkRollback(p) \/ CheckRow(p) \/ ReleaseRefs(p) \/ RemoveRow(p) \/ RemoveTurns(p)
      BY <3>3 DEF MarkRollback, CheckRow, ReleaseRefs, RemoveRow, RemoveTurns, Leave, Outside
    <3>4. CASE RemoveTurnsFails(p) \/ RemoveRecord(p) \/ EnqueueMissing(p) \/ Relaunch(p)
      BY <3>4 DEF RemoveTurnsFails, RemoveRecord, EnqueueMissing, Relaunch, Leave, Outside
    <3>5. QED BY <1>7, <3>1, <3>2, <3>3, <3>4 DEF Working
  <2>2. QED BY <1>2, <2>1
<1>8. ASSUME NEW p \in Procs, Die(p) PROVE Solo'
  BY <1>1, <1>8 DEF Die, Leave, Goto, Solo
<1>9. ASSUME NEW t \in Tasks, TurnStep(t) PROVE Solo'
  BY <1>9 DEF TurnStep, RunnerClaims, HostAccepts, HostEnds, RunnerFinishes, RunnerRetires,
     Outside, Solo
<1>10. QED BY <1>4, <1>5, <1>6, <1>7, <1>8, <1>9 DEF Next

(* The condition of the two theorems above holds when one process at a time is
   inside a submission or a reconciliation. *)
THEOREM OneWorkerIsEnough ==
    ASSUME MaxWorking = 1, IsFiniteSet(Procs)
    PROVE  Spec => []OnePerTask
<1>1. Init => SubmissionInv /\ Solo
  BY SubmissionInvInit DEF Init, Solo
<1>2. SubmissionInv /\ Solo /\ [Next]_vars => (SubmissionInv /\ Solo)'
  BY SubmissionInvNext, SoloNext, SoloIsOnePerTask DEF SubmissionInv
<1>3. SubmissionInv /\ Solo => OnePerTask
  BY SoloIsOnePerTask DEF SubmissionInv
<1>4. QED BY <1>1, <1>2, <1>3, PTL DEF Spec
=============================================================================
