------------------------------- MODULE Outbox -------------------------------
(***************************************************************************)
(* The host's outbox of publications to the project's origin (outbox.rs):  *)
(* an intent file per turn, the index of due intents, the ledger of the    *)
(* target branch, and the pump that pushes.  A turn's supervisor commits   *)
(* its intent, an operator may retry it, one pump at a time delivers.  All *)
(* turns here publish to one branch; targets do not interact.              *)
(***************************************************************************)
EXTENDS Naturals, FiniteSets, Sequences

CONSTANTS
    Turns,        \* turns that publish a commit to the branch
    None,
    Histories,    \* how the commits may descend from each other: a set of
                  \* functions turn -> the turns whose commits are behind it
    MaxAttempts,  \* MAX_ATTEMPTS
    MaxCommands,  \* bound on operators' commands: retry and outbox --once
    MaxFaults     \* bound on crashes, network and I/O failures,
                  \* and pushes of others to the branch

ASSUME OutboxConstants ==
    /\ Histories \subseteq [Turns -> SUBSET Turns]
    /\ MaxAttempts \in Nat \ {0} /\ MaxCommands \in Nat /\ MaxFaults \in Nat
    /\ Turns \cap {None, "base", "other"} = {}

VARIABLES
    behind,     \* the history at hand, constant in a behaviour
    intent,     \* turn -> delivery/<turn>.json
    due,        \* turn -> its entry in locks/outbox-due: "none", "now", "later"
    pinned,     \* turns whose refs/mac-worker/delivery ref exists
    created,    \* the intents in the order of their created_at
    ledger,     \* last_oid of the target's ledger, as a turn, or None
    tip,        \* the origin's branch: a turn's commit, "base" or "other"
    landed,     \* ghost: commits the branch has contained
    commits,    \* turn -> where its supervisor is in commit_intent
    pump,       \* the holder of outbox.lock
    reset,      \* the operator in retry_task
    revived,    \* ghost: turns an operator has retried
    faults,
    commands

index == <<intent, due, pinned, created>>
remote == <<tip, landed>>
counts == <<revived, faults, commands>>
outboxVars == <<behind, intent, due, pinned, created, ledger, tip, landed, commits,
                pump, reset, revived, faults, commands>>

Absent == [state |-> "none", attempt |-> 0, waits |-> FALSE, superseded |-> FALSE]

Away == [at |-> "off", watch |-> FALSE, scan |-> {}, todo |-> {}, cur |-> None,
         seen |-> "none", book |-> None, outcome |-> "none"]

AtRest == [at |-> "idle", todo |-> {}, cur |-> None]

OutboxInit ==
    /\ behind \in Histories
    /\ intent = [t \in Turns |-> Absent]
    /\ due = [t \in Turns |-> "none"]
    /\ pinned = {}
    /\ created = <<>>
    /\ ledger = None
    /\ tip = "base"
    /\ landed = {}
    /\ commits = [t \in Turns |-> "idle"]
    /\ pump = Away
    /\ reset = AtRest
    /\ revived = {}
    /\ faults = 0
    /\ commands = 0

-----------------------------------------------------------------------------
(* DeliveryState::retains_objects, intent_due, intent_is_redriveable. *)
RetainsObjects(i) == i.state \in {"pending", "retrying"}
IntentDue(i) == RetainsObjects(i) /\ ~i.waits
Blocked(i) == i.state = "delivered" \/ i.superseded
Redriveable(i) == ~Blocked(i) /\ i.state \in {"failed", "retrying"}

(* The flock of an intent, held from the write of the file to the end of the
   operation; a holder that dies loses it. *)
IntentLocked(t) ==
    \/ commits[t] \in {"wrote", "indexed", "pinned"}
    \/ pump.at \in {"index", "book"} /\ pump.cur = t
    \/ reset.at = "index" /\ reset.cur = t

(* sync_due: the entry that an intent in this state leaves in the index. *)
SyncDue(i) ==
    IF ~RetainsObjects(i) THEN "none" ELSE IF i.waits THEN "later" ELSE "now"

Fault ==
    /\ faults < MaxFaults
    /\ faults' = faults + 1

-----------------------------------------------------------------------------
(* commit_intent, called by the supervisor of a finished turn, and again by
   whoever recovers that turn until a call has returned. *)

(* The intent is created, or the one an earlier call left is kept. *)
CommitWrite(t) ==
    /\ commits[t] = "idle"
    /\ ~IntentLocked(t)
    /\ commits' = [commits EXCEPT ![t] = "wrote"]
    /\ intent' = [intent EXCEPT ![t] =
           IF @.state = "none" THEN [Absent EXCEPT !.state = "pending", !.attempt = 1] ELSE @]
    /\ created' = IF intent[t].state = "none" THEN Append(created, t) ELSE created
    /\ UNCHANGED <<behind, due, pinned, ledger, remote, pump, reset, counts>>

CommitIndex(t) ==
    /\ commits[t] = "wrote"
    /\ commits' = [commits EXCEPT ![t] = "indexed"]
    /\ due' = [due EXCEPT ![t] = SyncDue(intent[t])]
    /\ UNCHANGED <<behind, intent, pinned, created, ledger, remote, pump, reset, counts>>

CommitPin(t) ==
    /\ commits[t] = "indexed"
    /\ commits' = [commits EXCEPT ![t] = "pinned"]
    /\ pinned' = pinned \cup {t}
    /\ UNCHANGED <<behind, intent, due, created, ledger, remote, pump, reset, counts>>

(* sync_due again, and the call returns: the turn may now be finished. *)
CommitDone(t) ==
    /\ commits[t] = "pinned"
    /\ commits' = [commits EXCEPT ![t] = "done"]
    /\ due' = [due EXCEPT ![t] = SyncDue(intent[t])]
    /\ UNCHANGED <<behind, intent, pinned, created, ledger, remote, pump, reset, counts>>

(* The supervisor dies or a write fails; the call is made again. *)
CommitFails(t) ==
    /\ commits[t] \in {"wrote", "indexed", "pinned"}
    /\ Fault
    /\ commits' = [commits EXCEPT ![t] = "idle"]
    /\ UNCHANGED <<behind, index, ledger, remote, pump, reset, revived, commands>>

-----------------------------------------------------------------------------
(* run_watch, and pump_due for --once.  Both need outbox.lock. *)

StartWatch ==
    /\ pump.at = "off"
    /\ pump' = [Away EXCEPT !.at = "sweep", !.watch = TRUE, !.scan = Turns]
    /\ UNCHANGED <<behind, index, ledger, remote, commits, reset, counts>>

StartOnce ==
    /\ pump.at = "off"
    /\ commands < MaxCommands
    /\ commands' = commands + 1
    /\ pump' = [Away EXCEPT !.at = "list"]
    /\ UNCHANGED <<behind, index, ledger, remote, commits, reset, revived, faults>>

SweepReadAbsent(t) ==
    /\ pump.at = "sweep" /\ pump.cur = None /\ t \in pump.scan
    /\ pump' = [pump EXCEPT !.cur = t, !.seen = SyncDue(intent[t])]
    /\ UNCHANGED <<behind, index, ledger, remote, commits, reset, counts>>

(* recover_due_index: an intent is loaded, without its lock, ... *)
SweepRead(t) ==
    /\ pump.at = "sweep" /\ pump.cur = None /\ t \in pump.scan
    /\ pump' = IF intent[t].state = "none" THEN [pump EXCEPT !.scan = @ \ {t}]
               ELSE [pump EXCEPT !.cur = t, !.seen = SyncDue(intent[t])]
    /\ UNCHANGED <<behind, index, ledger, remote, commits, reset, counts>>

(* ... and its entry is written or cleared by what was loaded. *)
SweepSync ==
    /\ pump.at = "sweep" /\ pump.cur # None
    /\ due' = [due EXCEPT ![pump.cur] = pump.seen]
    /\ pump' = [pump EXCEPT !.scan = @ \ {pump.cur}, !.cur = None, !.seen = "none"]
    /\ UNCHANGED <<behind, intent, pinned, created, ledger, remote, commits, reset, counts>>

SweepDone ==
    /\ pump.at = "sweep" /\ pump.scan = {}
    /\ pump' = [pump EXCEPT !.at = "list"]
    /\ UNCHANGED <<behind, index, ledger, remote, commits, reset, counts>>

(* list_due: the entries that are due ... *)
ListDue ==
    /\ pump.at = "list"
    /\ pump' = [pump EXCEPT !.at = "scan", !.scan = {t \in Turns : due[t] = "now"}]
    /\ UNCHANGED <<behind, index, ledger, remote, commits, reset, counts>>

(* ... then the intent behind each, without its lock. *)
ScanRead(t) ==
    /\ pump.at = "scan" /\ pump.cur = None /\ t \in pump.scan
    /\ pump' = CASE IntentDue(intent[t]) -> [pump EXCEPT !.scan = @ \ {t}, !.todo = @ \cup {t}]
                 [] intent[t].state \in {"delivered", "failed"} -> [pump EXCEPT !.cur = t]
                 [] OTHER -> [pump EXCEPT !.scan = @ \ {t}]
    /\ UNCHANGED <<behind, index, ledger, remote, commits, reset, counts>>

(* clear_due of an intent that was read as settled. *)
ScanClear ==
    /\ pump.at = "scan" /\ pump.cur # None
    /\ due' = [due EXCEPT ![pump.cur] = "none"]
    /\ pump' = [pump EXCEPT !.scan = @ \ {pump.cur}, !.cur = None]
    /\ UNCHANGED <<behind, intent, pinned, created, ledger, remote, commits, reset, counts>>

(* The next one in the order of creation, or a rest. *)
PickNext ==
    /\ \/ pump.at = "scan" /\ pump.scan = {}
       \/ pump.at = "pick"
    /\ pump' = IF pump.todo = {} THEN [pump EXCEPT !.at = "rest"]
               ELSE LET first == CHOOSE i \in 1 .. Len(created) :
                            /\ created[i] \in pump.todo
                            /\ \A k \in 1 .. i - 1 : created[k] \notin pump.todo
                    IN [pump EXCEPT !.at = "pin", !.cur = created[first],
                                    !.todo = @ \ {created[first]}]
    /\ UNCHANGED <<behind, index, ledger, remote, commits, reset, counts>>

(* ensure_pin. *)
EnsurePin ==
    /\ pump.at = "pin" /\ ~IntentLocked(pump.cur)
    /\ pinned' = IF RetainsObjects(intent[pump.cur]) THEN pinned \cup {pump.cur} ELSE pinned
    /\ pump' = [pump EXCEPT !.at = "take"]
    /\ UNCHANGED <<behind, intent, due, created, ledger, remote, commits, reset, counts>>

Finished == [pump EXCEPT !.at = "pick", !.cur = None, !.book = None, !.outcome = "none"]

Classified(outcome) == [pump EXCEPT !.at = "settle", !.outcome = outcome, !.book = ledger]
ToPush == [pump EXCEPT !.at = "push", !.book = ledger]

(* classify_before_push: what the ledger read just now says of the commit.
   Unreadable ancestry (a fault) means push and see. *)
Classify(t) ==
    IF ledger = None THEN ToPush
    ELSE IF ledger = t THEN Classified("delivered")
    ELSE IF t \in behind[ledger] THEN Classified("superseded")
    ELSE IF ledger \in behind[t] THEN ToPush
    ELSE Classified("retry")

(* The start of pump_one: the intent read again under its lock. *)
Take ==
    /\ pump.at = "take" /\ ~IntentLocked(pump.cur)
    /\ pump' = IF IntentDue(intent[pump.cur]) THEN Classify(pump.cur) ELSE Finished
    /\ UNCHANGED <<behind, index, ledger, remote, commits, reset, counts>>

TakeBlind ==
    /\ pump.at = "take" /\ ~IntentLocked(pump.cur)
    /\ IntentDue(intent[pump.cur]) /\ ledger \notin {None, pump.cur}
    /\ Fault
    /\ pump' = ToPush
    /\ UNCHANGED <<behind, index, ledger, remote, commits, reset, revived, commands>>

(* push_origin, without force: the origin takes a commit that is its tip or
   has its tip behind it. *)
OriginTakes(t) == tip \in {"base", t} \cup behind[t]

LandCommit(t) ==
    /\ tip' = t
    /\ landed' = landed \cup {t} \cup behind[t]

PushOk ==
    /\ pump.at = "push" /\ OriginTakes(pump.cur)
    /\ LandCommit(pump.cur)
    /\ pump' = [pump EXCEPT !.at = "settle", !.outcome = "delivered"]
    /\ UNCHANGED <<behind, index, ledger, commits, reset, counts>>

PushRefused ==
    /\ pump.at = "push" /\ ~OriginTakes(pump.cur)
    /\ pump' = [pump EXCEPT !.at = "ask"]
    /\ UNCHANGED <<behind, index, ledger, remote, commits, reset, counts>>

(* The connection breaks before or after the origin took the commit. *)
PushBreaks ==
    /\ pump.at = "push"
    /\ Fault
    /\ \/ UNCHANGED remote
       \/ OriginTakes(pump.cur) /\ LandCommit(pump.cur)
    /\ pump' = [pump EXCEPT !.at = "ask"]
    /\ UNCHANGED <<behind, index, ledger, commits, reset, revived, commands>>

AdvertisedForeign ==
    LET t == pump.cur IN
    CASE tip = t -> "delivered"
      [] tip # t /\ tip # "base" -> "superseded"
      [] OTHER -> "retry"

(* classify_after_failure: what the origin advertises decides; a tip that is
   not the ledger's proves nothing. *)
AdvertisedOutcome ==
    LET t == pump.cur IN
    CASE tip = t -> "delivered"
      [] tip # t /\ tip \in Turns /\ tip = pump.book /\ t \in behind[tip] -> "superseded"
      [] OTHER -> "retry"

Ask ==
    /\ pump.at = "ask"
    /\ pump' = [pump EXCEPT !.at = "settle", !.outcome = AdvertisedOutcome]
    /\ UNCHANGED <<behind, index, ledger, remote, commits, reset, counts>>

(* No answer, a failed pin, or any other error: mark_operation_failure. *)
DeliverFails ==
    /\ pump.at \in {"pin", "take", "ask"}
    /\ Fault
    /\ pump' = [pump EXCEPT !.at = "settle", !.outcome = "retry"]
    /\ UNCHANGED <<behind, index, ledger, remote, commits, reset, revived, commands>>

AfterAttemptForever(i, outcome) ==
    CASE outcome = "delivered" -> [i EXCEPT !.state = "delivered"]
      [] outcome = "superseded" -> [i EXCEPT !.state = "delivered", !.superseded = TRUE]
      [] OTHER -> [i EXCEPT !.waits = TRUE, !.state = "retrying"]

(* The intent as the end of pump_one, or mark_operation_failure, writes it. *)
AfterAttempt(i, outcome) ==
    CASE outcome = "delivered" -> [i EXCEPT !.state = "delivered"]
      [] outcome = "superseded" -> [i EXCEPT !.state = "delivered", !.superseded = TRUE]
      [] OTHER -> [i EXCEPT !.attempt = @ + 1, !.waits = TRUE,
                     !.state = IF i.attempt + 1 > MaxAttempts THEN "failed" ELSE "retrying"]

(* The lock again, the intent read again: an intent that no longer retains
   its objects is left as it is. *)
Settle ==
    /\ pump.at = "settle" /\ ~IntentLocked(pump.cur)
    /\ IF RetainsObjects(intent[pump.cur])
          THEN /\ intent' = [intent EXCEPT ![pump.cur] = AfterAttempt(@, pump.outcome)]
               /\ pump' = [pump EXCEPT !.at = "index"]
          ELSE UNCHANGED intent /\ pump' = Finished
    /\ UNCHANGED <<behind, due, pinned, created, ledger, remote, commits, reset, counts>>

(* The end of write_intent. *)
SettleIndex ==
    /\ pump.at = "index"
    /\ due' = [due EXCEPT ![pump.cur] = SyncDue(intent[pump.cur])]
    /\ pump' = IF pump.outcome = "delivered" THEN [pump EXCEPT !.at = "book"] ELSE Finished
    /\ UNCHANGED <<behind, intent, pinned, created, ledger, remote, commits, reset, counts>>

(* write_intent fails after the file: the error is marked in turn. *)
SettleIndexFails ==
    /\ pump.at = "index"
    /\ Fault
    /\ pump' = [pump EXCEPT !.at = "settle", !.outcome = "retry"]
    /\ UNCHANGED <<behind, index, ledger, remote, commits, reset, revived, commands>>

WriteLedger ==
    /\ pump.at = "book"
    /\ ledger' = pump.cur
    /\ pump' = Finished
    /\ UNCHANGED <<behind, index, remote, commits, reset, counts>>

(* A watcher sleeps and pumps again; --once is done. *)
PumpAgain ==
    /\ pump.at = "rest"
    /\ pump' = IF pump.watch THEN [pump EXCEPT !.at = "list"] ELSE Away
    /\ UNCHANGED <<behind, index, ledger, remote, commits, reset, counts>>

(* The pump dies anywhere, or a watcher leaves: a stop signal, a replaced
   binary, another installation. *)
PumpStops ==
    /\ pump.at # "off"
    /\ Fault
    /\ pump' = Away
    /\ UNCHANGED <<behind, index, ledger, remote, commits, reset, revived, commands>>

-----------------------------------------------------------------------------
(* retry_task. *)

RetryLook ==
    /\ reset.at = "idle"
    /\ commands < MaxCommands
    /\ \E t \in Turns : Redriveable(intent[t])
    /\ reset' = [AtRest EXCEPT !.at = "reset", !.todo = {t \in Turns : Redriveable(intent[t])}]
    /\ commands' = commands + 1
    /\ UNCHANGED <<behind, index, ledger, remote, commits, pump, revived, faults>>

(* reset_intent: an intent delivered meanwhile ends the command. *)
ResetWrite(t) ==
    /\ reset.at = "reset" /\ t \in reset.todo /\ ~IntentLocked(t)
    /\ IF Redriveable(intent[t])
          THEN /\ intent' = [intent EXCEPT ![t].state = "retrying", ![t].attempt = 0,
                                           ![t].waits = FALSE]
               /\ revived' = revived \cup {t}
               /\ reset' = [reset EXCEPT !.at = "index", !.cur = t]
          ELSE /\ reset' = IF Blocked(intent[t]) THEN AtRest
                           ELSE [reset EXCEPT !.todo = @ \ {t}]
               /\ UNCHANGED <<intent, revived>>
    /\ UNCHANGED <<behind, due, pinned, created, ledger, remote, commits, pump, faults, commands>>

ResetIndex ==
    /\ reset.at = "index"
    /\ due' = [due EXCEPT ![reset.cur] = SyncDue(intent[reset.cur])]
    /\ reset' = [reset EXCEPT !.at = "reset", !.todo = @ \ {reset.cur}, !.cur = None]
    /\ UNCHANGED <<behind, intent, pinned, created, ledger, remote, commits, pump, counts>>

(* Nothing left to reset: the command wakes the watcher and ends. *)
RetryDone ==
    /\ reset.at = "reset" /\ reset.todo = {}
    /\ reset' = AtRest
    /\ UNCHANGED <<behind, index, ledger, remote, commits, pump, counts>>

RetryDies ==
    /\ reset.at # "idle"
    /\ Fault
    /\ reset' = AtRest
    /\ UNCHANGED <<behind, index, ledger, remote, commits, pump, revived, commands>>

(* mark_worker_required, after a wake that found and got no watcher: the
   intent is written as it is read under its lock, and indexed. *)
MarkWorkerRequired(t) ==
    /\ ~pump.watch
    /\ ~IntentLocked(t)
    /\ intent[t].state # "none" /\ due[t] # SyncDue(intent[t])
    /\ due' = [due EXCEPT ![t] = SyncDue(intent[t])]
    /\ UNCHANGED <<behind, intent, pinned, created, ledger, remote, commits, pump, reset, counts>>

-----------------------------------------------------------------------------
(* The backoff of an intent, and of its entry, runs out. *)
BackoffEnds(t) ==
    /\ intent[t].waits \/ due[t] = "later"
    /\ intent' = [intent EXCEPT ![t].waits = FALSE]
    /\ due' = [due EXCEPT ![t] = IF @ = "later" THEN "now" ELSE @]
    /\ UNCHANGED <<behind, pinned, created, ledger, remote, commits, pump, reset, counts>>

(* Somebody else commits on top of the branch. *)
OthersPush ==
    /\ tip # "other"
    /\ Fault
    /\ tip' = "other"
    /\ UNCHANGED <<behind, index, ledger, landed, commits, pump, reset, revived, commands>>

Commit(t) ==
    \/ CommitWrite(t) \/ CommitIndex(t) \/ CommitPin(t) \/ CommitDone(t)

Pump ==
    \/ \E t \in Turns : SweepRead(t) \/ ScanRead(t)
    \/ SweepSync \/ SweepDone \/ ListDue \/ ScanClear \/ PickNext
    \/ EnsurePin \/ Take \/ PushOk \/ PushRefused \/ Ask
    \/ Settle \/ SettleIndex \/ WriteLedger \/ PumpAgain

Retry ==
    \/ ResetIndex \/ RetryDone
    \/ \E t \in Turns : ResetWrite(t)

OutboxFaults ==
    \/ TakeBlind \/ PushBreaks \/ DeliverFails \/ SettleIndexFails \/ PumpStops
    \/ RetryDies \/ OthersPush
    \/ \E t \in Turns : CommitFails(t)

OutboxNext ==
    \/ Pump \/ StartWatch \/ StartOnce \/ Retry \/ RetryLook \/ OutboxFaults
    \/ \E t \in Turns : Commit(t) \/ MarkWorkerRequired(t) \/ BackoffEnds(t)

OutboxSpec == OutboxInit /\ [][OutboxNext]_outboxVars

(* The service manager keeps a watcher running (KeepAlive in the launch agent),
   every process that lives takes its next step, and time passes. *)
OutboxFairness ==
    /\ WF_outboxVars(Pump)
    /\ WF_outboxVars(StartWatch)
    /\ WF_outboxVars(Retry)
    /\ \A t \in Turns : WF_outboxVars(Commit(t)) /\ WF_outboxVars(BackoffEnds(t))

OutboxFair == OutboxSpec /\ OutboxFairness

-----------------------------------------------------------------------------
(* Properties. *)

Intents == [state : {"none", "pending", "retrying", "delivered", "failed"},
            attempt : 0 .. MaxAttempts + 1, waits : BOOLEAN, superseded : BOOLEAN]
Pumps == [at : {"off", "sweep", "list", "scan", "pick", "pin", "take", "push", "ask", "settle",
                "index", "book", "rest"},
          watch : BOOLEAN, scan : SUBSET Turns, todo : SUBSET Turns, cur : Turns \cup {None},
          seen : {"none", "now", "later"}, book : Turns \cup {None},
          outcome : {"none", "delivered", "superseded", "retry"}]

(* Every file of the outbox, and what the pump and an operator remember of
   them, is of its kind (the serde types of DeliveryIntent, DueEntry, Ledger). *)
OutboxTypeOK ==
    /\ behind \in Histories
    /\ intent \in [Turns -> Intents]
    /\ due \in [Turns -> {"none", "now", "later"}]
    /\ pinned \subseteq Turns /\ landed \subseteq Turns /\ revived \subseteq Turns
    /\ created \in Seq(Turns)
    /\ ledger \in Turns \cup {None}
    /\ tip \in Turns \cup {"base", "other"}
    /\ commits \in [Turns -> {"idle", "wrote", "indexed", "pinned", "done"}]
    /\ pump \in Pumps
    /\ reset \in [at : {"idle", "reset", "index"}, todo : SUBSET Turns, cur : Turns \cup {None}]

(* The outbox keeps what Delivery promises: an accepted publication is never
   forgotten, and it is reported delivered only when the origin's branch has
   contained the commit, whether the push, the advertised tip or the ledger
   of a later turn says so. *)
Promise(i) ==
    CASE i.state = "none" -> "none"
      [] RetainsObjects(i) -> "owed"
      [] OTHER -> i.state

PromiseKept == INSTANCE Delivery WITH promise <- [t \in Turns |-> Promise(intent[t])]
DeliveriesKept == PromiseKept!DeliverySpec

(* A publication the turn was finished on stays in the due index as long as
   it is owed, so the pump meets it: the index is written after the intent,
   cleared without the intent's lock and rebuilt by a sweep that may be
   stale.  What an operator retried is excepted: a sweep or a scan that had
   read the failed intent clears the entry of the retried one. *)
OwedIsIndexed ==
    \A t \in Turns \ revived :
        commits[t] = "done" /\ RetainsObjects(intent[t]) => due[t] # "none"

(* Every publication is in the end delivered or given up; one that an
   operator retried may be missing from the index until the next watcher. *)
DeliverySettles ==
    \A t \in Turns : RetainsObjects(intent[t]) ~>
        (intent[t].state \in {"delivered", "failed"} \/ t \in revived)
=============================================================================
