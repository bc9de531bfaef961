------------------------- MODULE ControllerRequests -------------------------
(***************************************************************************)
(* How a laptop's mutation reaches the controller (controller/envelope.rs, *)
(* execute.rs, store.rs): the envelope the laptop keeps, attempts that may *)
(* be lost or late, the durable row and its pending receipt, the handler   *)
(* under the request's lock and the leader's tick over the receipts.  The  *)
(* mutations say, cancel and close work on one task, a submit on its own.  *)
(***************************************************************************)
EXTENDS Naturals, FiniteSets, Sequences

CONSTANTS
    RequestCount,  \* request ids are 1 .. RequestCount, in the order of names
    Scenarios,     \* which command each request is, and the task to begin with
    MaxSends,      \* bound on the attempts of one request
    TickSize,      \* max_requests_per_tick
    MaxTroubles    \* bound on crashes, lost connections and I/O failures

Requests == 1 .. RequestCount
Commands == {"submit", "say", "cancel", "close"}

ASSUME RequestConstants ==
    /\ RequestCount \in Nat /\ MaxSends \in Nat /\ MaxTroubles \in Nat
    /\ TickSize \in Nat \ {0}
    /\ Scenarios \subseteq [cmd : [Requests -> Commands], state : {"active", "open"}]

VARIABLES
    cmd,        \* request -> its command, constant in a behaviour
    envelope,   \* request -> the laptop's op-<id>.json
    client,     \* request -> the laptop: waiting for attempt n, or not
    flight,     \* request -> attempts whose process has not got the lock yet
    hold,       \* request -> who has the request's lock, and how far it is
    receipt,    \* requests with a file in active/
    row,        \* request -> req-<id>.json
    damaged,    \* requests whose row can no longer be read
    tick,       \* the leader: the names left of its window, the last attempted
    cursor,     \* the last name a tick attempted, 0 for none
    task,       \* the task's record and what its host knows of the last turn
    made,       \* submit requests whose task exists
    troubles

laptop == <<envelope, client, flight>>
rows == <<receipt, row, damaged>>
leader == <<tick, cursor>>
work == <<task, made>>
requestVars == <<cmd, envelope, client, flight, hold, receipt, row, damaged, tick, cursor,
                 task, made, troubles>>

Leader == MaxSends + 1   \* as a holder of a lock; attempts are 1 .. MaxSends
NoTick == [left |-> {}, last |-> 0]
Free == [by |-> 0, at |-> "off", result |-> "none", frozen |-> <<>>]
NoRow == [phase |-> "none", result |-> "none", frozen |-> <<>>]
Turn(r) == [by |-> r, end |-> "none", started |-> r = 0, stop |-> 0]

RequestInit ==
    /\ envelope = [r \in Requests |-> "none"]
    /\ client = [r \in Requests |-> [waits |-> FALSE, n |-> 0]]
    /\ flight = [r \in Requests |-> {}]
    /\ hold = [r \in Requests |-> Free]
    /\ receipt = {} /\ damaged = {} /\ made = {}
    /\ row = [r \in Requests |-> NoRow]
    /\ tick = NoTick /\ cursor = 0
    /\ \E s \in Scenarios :
          LET end == IF s.state = "open" THEN "done" ELSE "none" IN
          /\ cmd = s.cmd
          /\ task = [state |-> s.state, rev |-> 0, closing |-> 0, closed |-> 0,
                     turns |-> <<[Turn(0) EXCEPT !.end = end]>>, host |-> [end |-> end, by |-> 0]]
    /\ troubles = 0

Trouble ==
    /\ troubles < MaxTroubles
    /\ troubles' = troubles + 1

-----------------------------------------------------------------------------
(* The laptop. *)

(* send_controller_mutation: the envelope once, then the same bytes again for
   every attempt and every `controller retry`.  Deleting old settled envelopes
   only takes retries away, and is left out. *)
SendAttempt(r) ==
    /\ ~client[r].waits /\ client[r].n < MaxSends
    /\ envelope[r] \in {"none", "pending", "acknowledged"}
    /\ envelope' = [envelope EXCEPT ![r] = IF @ = "none" THEN "pending" ELSE @]
    /\ client' = [client EXCEPT ![r] = [waits |-> TRUE, n |-> @.n + 1]]
    /\ flight' = [flight EXCEPT ![r] = @ \cup {client[r].n + 1}]
    /\ UNCHANGED <<cmd, hold, rows, leader, work, troubles>>

(* The connection ends without a frame: the attempt's process died, or it
   lives on and the laptop cannot know. *)
ConnectionLost(r) ==
    /\ client[r].waits
    /\ IF client[r].n \in flight[r] \/ hold[r].by = client[r].n
          THEN Trouble ELSE UNCHANGED troubles
    /\ client' = [client EXCEPT ![r].waits = FALSE]
    /\ UNCHANGED <<cmd, envelope, flight, hold, rows, leader, work>>

(* settle_operation_envelope keeps the first definitive reply. *)
SettleEnvelope(r, verdict) ==
    IF envelope[r] = "pending" /\ verdict \in {"acknowledged", "rejected"}
    THEN [envelope EXCEPT ![r] = verdict] ELSE envelope

(* The handler lets the lock go and answers; the laptop hears it if it still
   waits for this attempt. *)
Reply(r, verdict) ==
    /\ hold' = [hold EXCEPT ![r] = Free]
    /\ IF client[r].waits /\ hold[r].by = client[r].n
          THEN /\ client' = [client EXCEPT ![r].waits = FALSE]
               /\ envelope' = SettleEnvelope(r, verdict)
          ELSE UNCHANGED <<client, envelope>>
    /\ UNCHANGED flight

-----------------------------------------------------------------------------
(* handle_with, under the request's lock. *)

(* drive_to_ack: where a row continues. *)
Resume(r) ==
    CASE row[r].phase = "acked" -> "retire"
      [] row[r].phase = "published" /\ row[r].result # "none" -> "ack"
      [] OTHER -> cmd[r]

(* An attempt gets the lock, and reads the row; an unreadable row ends it with
   an error that is not marked resumable. *)
TakeLock(r, n) ==
    /\ hold[r] = Free /\ n \in flight[r]
    /\ hold' = [hold EXCEPT ![r] = [Free EXCEPT !.by = n,
           !.at = IF row[r] = NoRow THEN "prepare" ELSE Resume(r)]]
    /\ flight' = [flight EXCEPT ![r] = @ \ {n}]
    /\ r \notin damaged
    /\ UNCHANGED <<cmd, envelope, client, rows, leader, work, troubles>>

RefuseDamaged(r, n) ==
    /\ hold[r] = Free /\ n \in flight[r] /\ r \in damaged
    /\ flight' = [flight EXCEPT ![r] = @ \ {n}]
    /\ IF client[r].waits /\ client[r].n = n
          THEN /\ client' = [client EXCEPT ![r].waits = FALSE]
               /\ envelope' = SettleEnvelope(r, "rejected")
          ELSE UNCHANGED <<client, envelope>>
    /\ UNCHANGED <<cmd, hold, rows, leader, work, troubles>>

At(r, place) == hold[r].at = place
GoTo(r, place) == hold' = [hold EXCEPT ![r].at = place]

(* What a preparation freezes, and operator_revision_matches against it. *)
Snapshot == [state |-> task.state, rev |-> task.rev, len |-> Len(task.turns)]
RevisionMatches(frozen) == Snapshot = frozen

(* prepare: a say is refused unless the task is open and not closing. *)
Preparable(r) == cmd[r] = "say" => task.state = "open" /\ task.closing = 0

(* ensure_pending_receipt, then prepare: discoverable before published. *)
PrepareRequest(r) ==
    /\ At(r, "prepare") /\ Preparable(r)
    /\ receipt' = receipt \cup {r}
    /\ hold' = [hold EXCEPT ![r].at = "publish", ![r].frozen = Snapshot]
    /\ UNCHANGED <<cmd, laptop, row, damaged, leader, work, troubles>>

(* A refused preparation retires the receipt; the refusal is definitive. *)
RefuseRequest(r) ==
    /\ At(r, "prepare") /\ ~Preparable(r)
    /\ receipt' = receipt \ {r}
    /\ Reply(r, "rejected")
    /\ UNCHANGED <<cmd, row, damaged, leader, work, troubles>>

PublishRow(r) ==
    /\ At(r, "publish")
    /\ row' = [row EXCEPT ![r] = [phase |-> "published", result |-> "none",
                                  frozen |-> hold[r].frozen]]
    /\ hold' = [hold EXCEPT ![r].at = cmd[r], ![r].frozen = <<>>]
    /\ UNCHANGED <<cmd, laptop, receipt, damaged, leader, work, troubles>>

Concluded(r, result) == hold' = [hold EXCEPT ![r].at = "result", ![r].result = result]

(* The execution cannot go on now: the row stays published. *)
Busy(r) ==
    /\ Reply(r, "resumable")
    /\ UNCHANGED work

-----------------------------------------------------------------------------
(* The executions.  A say appends the turn and starts it. *)

Last == task.turns[Len(task.turns)]
StartLast == [task.turns EXCEPT ![Len(task.turns)] = [@ EXCEPT !.started = TRUE]]
EndLast(end, by) == [task.turns EXCEPT ![Len(task.turns)] = [@ EXCEPT !.end = end, !.stop = by]]
HasTurn(r) == \E i \in DOMAIN task.turns : task.turns[i].by = r
Quiet == UNCHANGED <<laptop, work>>

SayForgets(r) ==
    /\ At(r, "say")
    /\ UNCHANGED <<cmd, rows, leader, troubles>>
    /\ \/ /\ ~RevisionMatches(row[r].frozen)
          /\ Concluded(r, "rejected") /\ Quiet
       \/ /\ RevisionMatches(row[r].frozen) /\ task.closing = 0
          /\ task' = [task EXCEPT !.turns = Append(@, [Turn(r) EXCEPT !.started = TRUE]),
                         !.rev = @ + 1, !.state = "active", !.host = [end |-> "none", by |-> 0]]
          /\ Concluded(r, "ok") /\ UNCHANGED <<made, laptop>>
       \/ /\ RevisionMatches(row[r].frozen) /\ task.closing # 0
          /\ Busy(r)

(* say_prepared, resume_prepared_followup and completed_prepared_followup. *)
ExecuteSay(r) ==
    /\ At(r, "say")
    /\ UNCHANGED <<cmd, rows, leader, troubles>>
    /\ \/ /\ Last.by = r /\ Last.end # "none"
          /\ Concluded(r, "ok") /\ Quiet
       \/ /\ Last.by = r /\ Last.end = "none"
          /\ task' = [task EXCEPT !.turns = StartLast]
          /\ Concluded(r, "ok") /\ UNCHANGED <<made, laptop>>
       \/ /\ Last.by # r /\ ~RevisionMatches(row[r].frozen)
          /\ Concluded(r, IF HasTurn(r) THEN "ok" ELSE "rejected") /\ Quiet
       \/ /\ Last.by # r /\ RevisionMatches(row[r].frozen)
          /\ IF task.closing # 0 THEN Busy(r)
             ELSE /\ task' = [task EXCEPT !.turns = Append(@, Turn(r)), !.rev = @ + 1,
                                 !.state = "active", !.host = [end |-> "none", by |-> 0]]
                  /\ UNCHANGED <<hold, made, laptop>>

SameTurns(frozen) == Len(task.turns) = frozen.len

CancelLatest(r) ==
    /\ At(r, "cancel")
    /\ UNCHANGED <<cmd, rows, leader, troubles>>
    /\ \/ /\ Last.end # "none"
          /\ Concluded(r, "ok") /\ Quiet
       \/ /\ Last.end = "none" /\ Last.started
          /\ task' = [task EXCEPT !.host = IF @.end = "none"
                          THEN [end |-> "cancelled", by |-> r] ELSE @]
          /\ GoTo(r, "cancelled") /\ UNCHANGED <<made, laptop>>
       \/ /\ Last.end = "none" /\ ~Last.started
          /\ Busy(r)

(* cancel_from_expected: a turn that runs is cancelled on its host, ... *)
ExecuteCancel(r) ==
    /\ At(r, "cancel")
    /\ UNCHANGED <<cmd, rows, leader, troubles>>
    /\ LET frozen == row[r].frozen IN
       \/ /\ ~SameTurns(frozen)
          /\ Concluded(r, "rejected") /\ Quiet
       \/ /\ SameTurns(frozen) /\ Last.end = "cancelled"
          /\ Concluded(r, "ok") /\ Quiet
       \/ /\ SameTurns(frozen) /\ Last.end # "cancelled" /\ ~RevisionMatches(frozen)
          /\ Concluded(r, "rejected") /\ Quiet
       \/ /\ RevisionMatches(frozen) /\ Last.end = "done"
          /\ Concluded(r, "ok") /\ Quiet
       \/ /\ RevisionMatches(frozen) /\ Last.end = "none" /\ ~Last.started
          /\ task' = [task EXCEPT !.turns = EndLast("cancelled", r), !.rev = @ + 1,
                         !.state = "open", !.host = [end |-> "cancelled", by |-> r]]
          /\ Concluded(r, "ok") /\ UNCHANGED <<made, laptop>>
       \/ /\ RevisionMatches(frozen) /\ Last.end = "none" /\ Last.started
          /\ task' = [task EXCEPT !.host = IF @.end = "none"
                          THEN [end |-> "cancelled", by |-> r] ELSE @]
          /\ GoTo(r, "cancelled") /\ UNCHANGED <<made, laptop>>

Import == [task EXCEPT !.turns = EndLast(task.host.end, task.host.by), !.rev = @ + 1,
                       !.state = "open"]

(* ... then the record takes the host's answer, unless it moved meanwhile:
   cancelled_or_conflict. *)
RecordCancel(r) ==
    /\ At(r, "cancelled")
    /\ UNCHANGED <<cmd, rows, leader, troubles>>
    /\ \/ /\ RevisionMatches(row[r].frozen)
          /\ task' = Import
          /\ Concluded(r, "ok") /\ UNCHANGED <<made, laptop>>
       \/ /\ ~RevisionMatches(row[r].frozen)
          /\ Concluded(r, IF SameTurns(row[r].frozen) /\ Last.end = "cancelled"
                          THEN "ok" ELSE "rejected")
          /\ Quiet

(* close_from_expected: the intent first, ... *)
ExecuteClose(r) ==
    /\ At(r, "close")
    /\ UNCHANGED <<cmd, rows, leader, troubles>>
    /\ LET frozen == row[r].frozen IN
       \/ /\ task.state = "closed"
          /\ Concluded(r, IF SameTurns(frozen) THEN "ok" ELSE "rejected") /\ Quiet
       \/ /\ task.state # "closed" /\ ~RevisionMatches(frozen)
          /\ Concluded(r, "rejected") /\ Quiet
       \/ /\ task.state = "active" /\ RevisionMatches(frozen)
          /\ Busy(r)
       \/ /\ task.state = "open" /\ RevisionMatches(frozen)
          /\ task' = [task EXCEPT !.closing = IF @ = 0 THEN r ELSE @]
          /\ GoTo(r, "closing") /\ UNCHANGED <<made, laptop>>

(* ... then the host, and the record by its answer. *)
FinishClose(r) ==
    /\ At(r, "closing")
    /\ UNCHANGED <<cmd, rows, leader, troubles>>
    /\ task' = IF task.state = "closed" THEN task
               ELSE [task EXCEPT !.state = "closed", !.closed = task.closing, !.closing = 0,
                                 !.rev = @ + 1]
    /\ Concluded(r, "ok") /\ UNCHANGED <<made, laptop>>

(* submit_prepared: replays find the task; otherwise it is admitted and
   recorded, or refused for capacity before anything is recorded. *)
ExecuteSubmit(r) ==
    /\ At(r, "submit")
    /\ UNCHANGED <<cmd, rows, leader, laptop, task, troubles>>
    /\ \/ made' = made \cup {r} /\ Concluded(r, "ok")
       \/ r \notin made /\ UNCHANGED made /\ Concluded(r, "rejected")

Execute(r) ==
    \/ ExecuteSay(r) \/ ExecuteCancel(r) \/ RecordCancel(r)
    \/ ExecuteClose(r) \/ FinishClose(r) \/ ExecuteSubmit(r)

-----------------------------------------------------------------------------
(* The end of drive_to_ack: the result, the acknowledgement, the receipt. *)

SaveResult(r) ==
    /\ At(r, "result")
    /\ row' = [row EXCEPT ![r].result = hold[r].result]
    /\ hold' = [hold EXCEPT ![r].at = "ack", ![r].result = "none"]
    /\ UNCHANGED <<cmd, laptop, receipt, damaged, leader, work, troubles>>

SaveAck(r) ==
    /\ At(r, "ack")
    /\ row' = [row EXCEPT ![r].phase = "acked"]
    /\ GoTo(r, "retire")
    /\ UNCHANGED <<cmd, laptop, receipt, damaged, leader, work, troubles>>

RetireReceipt(r) ==
    /\ At(r, "retire")
    /\ receipt' = receipt \ {r}
    /\ Reply(r, IF row[r].result = "rejected" THEN "rejected" ELSE "acknowledged")
    /\ UNCHANGED <<cmd, row, damaged, leader, work, troubles>>

(* A step of drive_to_ack fails: definitive only behind a saved rejection. *)
DriveFails(r) ==
    /\ hold[r].at \in Commands \cup {"cancelled", "closing", "result", "ack", "retire"}
    /\ Trouble
    /\ Reply(r, IF row[r].result = "rejected" THEN "rejected" ELSE "resumable")
    /\ UNCHANGED <<cmd, rows, leader, work>>

HandlerDies(r) ==
    /\ hold[r].by \in 1 .. MaxSends
    /\ Trouble
    /\ hold' = [hold EXCEPT ![r] = Free]
    /\ UNCHANGED <<cmd, laptop, rows, leader, work>>

DamageRow(r) ==
    /\ row[r] # NoRow /\ hold[r] = Free /\ r \notin damaged
    /\ Trouble
    /\ damaged' = damaged \cup {r}
    /\ UNCHANGED <<cmd, laptop, hold, receipt, row, leader, work>>

-----------------------------------------------------------------------------
(* resume_active_bounded, called by the one leader on every tick. *)

(* The order of a window: the names past the cursor first. *)
Before(a, b) == IF (a > cursor) = (b > cursor) THEN a <= b ELSE a > cursor
Resuming == \E r \in Requests : hold[r].by = Leader

StartTick ==
    /\ tick = NoTick
    /\ \E W \in SUBSET receipt :
          /\ Cardinality(W) = IF TickSize < Cardinality(receipt) THEN TickSize
                                                               ELSE Cardinality(receipt)
          /\ \A a \in W, b \in receipt \ W : Before(a, b)
          /\ tick' = [NoTick EXCEPT !.left = W]
    /\ UNCHANGED <<cmd, laptop, hold, rows, cursor, work, troubles>>

NextName(r) ==
    /\ ~Resuming
    /\ r \in tick.left /\ \A q \in tick.left : Before(r, q)
    /\ tick' = [left |-> tick.left \ {r}, last |-> r]

(* A locked request is skipped, so is a damaged one or one that has settled; a
   receipt without a row is kept, or retired once its grace is over. *)
SkipName(r) ==
    /\ NextName(r)
    /\ \/ /\ hold[r] # Free \/ r \in damaged \/ r \notin receipt
          /\ UNCHANGED receipt
       \/ /\ hold[r] = Free /\ row[r] = NoRow
          /\ receipt' \in {receipt, receipt \ {r}}
    /\ UNCHANGED <<cmd, laptop, hold, row, damaged, cursor, work, troubles>>

ResumeName(r) ==
    /\ NextName(r)
    /\ hold[r] = Free /\ r \in receipt \ damaged /\ row[r] # NoRow
    /\ hold' = [hold EXCEPT ![r] = [Free EXCEPT !.by = Leader, !.at = Resume(r)]]
    /\ UNCHANGED <<cmd, laptop, rows, cursor, work, troubles>>

EndTickWhere ==
    /\ tick.left = {} /\ tick.last # 0 /\ ~Resuming
    /\ cursor' = IF tick.last \in receipt THEN cursor ELSE tick.last
    /\ tick' = NoTick
    /\ UNCHANGED <<cmd, laptop, hold, rows, work, troubles>>

(* Every name attempted moves the cursor, whatever became of it. *)
EndTick ==
    /\ tick.left = {} /\ tick.last # 0 /\ ~Resuming
    /\ cursor' = tick.last
    /\ tick' = NoTick
    /\ UNCHANGED <<cmd, laptop, hold, rows, work, troubles>>

(* The leader dies, or cannot save the cursor. *)
LeaderDies ==
    /\ tick # NoTick
    /\ Trouble
    /\ tick' = NoTick
    /\ hold' = [r \in Requests |-> IF hold[r].by = Leader THEN Free ELSE hold[r]]
    /\ UNCHANGED <<cmd, laptop, rows, cursor, work>>

-----------------------------------------------------------------------------
(* The turn ends on its host; its runner, or whoever recovers the task,
   imports that. *)
TurnEnds ==
    /\ Last.started /\ Last.end = "none" /\ task.host.end = "none"
    /\ task' = [task EXCEPT !.host.end = "done"]
    /\ UNCHANGED <<cmd, laptop, hold, rows, leader, made, troubles>>

ImportEnd ==
    /\ Last.started /\ Last.end = "none" /\ task.host.end # "none"
    /\ task' = Import
    /\ UNCHANGED <<cmd, laptop, hold, rows, leader, made, troubles>>

Handle(r) ==
    \/ PrepareRequest(r) \/ RefuseRequest(r) \/ PublishRow(r)
    \/ Execute(r) \/ SaveResult(r) \/ SaveAck(r) \/ RetireReceipt(r)

Tick ==
    \/ StartTick \/ EndTick
    \/ \E r \in Requests : SkipName(r) \/ ResumeName(r)

RequestNext ==
    \/ Tick \/ LeaderDies \/ TurnEnds \/ ImportEnd
    \/ \E r \in Requests :
          \/ SendAttempt(r) \/ ConnectionLost(r) \/ Handle(r)
          \/ DriveFails(r) \/ HandlerDies(r) \/ DamageRow(r)
          \/ \E n \in flight[r] : TakeLock(r, n) \/ RefuseDamaged(r, n)

RequestSpec == RequestInit /\ [][RequestNext]_requestVars

(* A handler that lives takes its next step, the leader keeps ticking, and
   turns end (they have a time limit) and are imported. *)
RequestFairness ==
    /\ \A r \in Requests : WF_requestVars(Handle(r))
    /\ WF_requestVars(Tick) /\ WF_requestVars(TurnEnds) /\ WF_requestVars(ImportEnd)

RequestFair == RequestSpec /\ RequestFairness

-----------------------------------------------------------------------------
(* Properties. *)

Results == {"none", "ok", "rejected"}
Snapshots == [state : {"active", "open", "closed"}, rev : Nat, len : Nat]
Places == Commands \cup {"off", "prepare", "publish", "cancelled", "closing", "result", "ack",
                         "retire"}
TurnRecords == [by : 0 .. RequestCount, end : {"none", "done", "cancelled"},
                started : BOOLEAN, stop : 0 .. RequestCount]
TaskRecords == [state : {"active", "open", "closed"}, rev : Nat, closing : 0 .. RequestCount,
          closed : 0 .. RequestCount, turns : Seq(TurnRecords),
          host : [end : {"none", "done", "cancelled"}, by : 0 .. RequestCount]]

Handlers == [by : 0 .. Leader, at : Places, result : Results, frozen : Snapshots \cup {<<>>}]
RowFiles == [phase : {"none", "published", "acked"}, result : Results,
             frozen : Snapshots \cup {<<>>}]

(* The laptop's envelopes, the request files and the task record are of their
   kinds (OperationEnvelope, RequestRow, TaskRecord). *)
RequestTypeOK ==
    /\ cmd \in [Requests -> Commands]
    /\ envelope \in [Requests -> {"none", "pending", "acknowledged", "rejected"}]
    /\ client \in [Requests -> [waits : BOOLEAN, n : 0 .. MaxSends]]
    /\ flight \in [Requests -> SUBSET (1 .. MaxSends)]
    /\ hold \in [Requests -> Handlers]
    /\ row \in [Requests -> RowFiles]
    /\ receipt \subseteq Requests /\ damaged \subseteq Requests /\ made \subseteq Requests
    /\ tick \in [left : SUBSET Requests, last : 0 .. RequestCount]
    /\ cursor \in 0 .. RequestCount
    /\ task \in TaskRecords
    /\ troubles \in 0 .. MaxTroubles

(* A request takes effect once and only where it was aimed, however often it
   is sent, resumed or executed again: the turn of a say stands right behind
   the last turn its preparation saw, a cancel stops only that last turn, and
   a close closes only the task it saw. *)
EffectsFenced ==
    \A i \in DOMAIN task.turns :
        LET t == task.turns[i] IN
        /\ t.by # 0 => i = row[t.by].frozen.len + 1
        /\ t.stop # 0 => i = row[t.stop].frozen.len
        /\ task.closed # 0 => Len(task.turns) = row[task.closed].frozen.len

(* What a saved result says is so, and stays so: success means the turn, the
   closed task, the ended turn or the submitted task is there; a rejection of
   a say, a close or a submit means the request did nothing and never will. *)
ResultsTrue ==
    \A r \in Requests :
        /\ row[r].result = "ok" =>
              CASE cmd[r] = "say" -> HasTurn(r)
                [] cmd[r] = "cancel" -> task.turns[row[r].frozen.len].end # "none"
                [] cmd[r] = "close" -> task.state = "closed"
                [] cmd[r] = "submit" -> r \in made
        /\ row[r].result = "rejected" =>
              ~HasTurn(r) /\ r \notin made /\ (task.closed # r /\ task.closing # r)
        /\ envelope[r] = "acknowledged" => row[r].phase = "acked" /\ row[r].result = "ok"

(* Every published request is settled in the end, whether its laptop is there
   or not, and behind requests that can no longer be read. *)
RequestSettles ==
    \A r \in Requests :
        row[r].phase = "published" ~>
            (row[r].phase = "acked" \/ r \in damaged \/ Last.by \in damaged)
=============================================================================
