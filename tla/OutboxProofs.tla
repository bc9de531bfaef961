---------------------------- MODULE OutboxProofs ----------------------------
(***************************************************************************)
(* Proofs about Outbox for any number of turns, any history of their       *)
(* commits, any number of attempts, commands and faults: its types, that   *)
(* an owed publication stays in the due index, and that the outbox keeps   *)
(* what Delivery promises.                                                 *)
(***************************************************************************)
EXTENDS Outbox, WellFoundedInduction, TLAPS

-----------------------------------------------------------------------------
(* Types. *)

(* A pump that delivers, or an operator that indexes, has an intent in hand. *)
InHand ==
    /\ pump.at \in {"pin", "take", "push", "ask", "settle", "index", "book"} => pump.cur \in Turns
    /\ reset.at = "index" => reset.cur \in Turns

(* Every intent has its place in the order of creation, so the pump finds the
   first of the ones it has listed; an owed one has attempts left. *)
Numbered ==
    /\ \A t \in Turns : intent[t].state # "none" =>
          \E i \in 1 .. Len(created) : created[i] = t
    /\ \A t \in pump.todo : intent[t].state # "none"
    /\ \A t \in Turns : RetainsObjects(intent[t]) => intent[t].attempt <= MaxAttempts

TypeInv == OutboxTypeOK /\ InHand /\ Numbered

(* A non-empty set of natural numbers has a least element. *)
LEMMA LeastNumber ==
    ASSUME NEW S \in SUBSET Nat, S # {}
    PROVE  \E n \in S : \A m \in S : n <= m
<1> DEFINE R == OpToRel(<, Nat)
<1>1. IsWellFoundedOn(R, Nat)
  BY NatLessThanWellFounded
<1>2. ASSUME NEW x \in Nat, NEW y \in Nat PROVE <<y, x>> \in R <=> y < x
  BY DEF OpToRel
<1> HIDE DEF R
<1>3. PICK n \in S : \A y \in S : ~ (<<y, n>> \in R)
  BY <1>1, WFMin
<1>4. ASSUME NEW m \in S PROVE n <= m
  <2>1. m \in Nat /\ n \in Nat
    OBVIOUS
  <2>2. ~ (m < n)
    BY <1>2, <1>3, <2>1, Zenon
  <2>3. QED BY <2>1, <2>2
<1>5. QED BY <1>4

(* What the outbox writes into an intent is an intent, and an attempt that was
   not the last leaves attempts. *)
LEMMA IntentEdits ==
    ASSUME NEW i \in Intents, NEW n \in 0 .. MaxAttempts + 1, NEW w \in BOOLEAN,
           NEW st \in {"none", "pending", "retrying", "delivered", "failed"}
    PROVE  /\ [i EXCEPT !.waits = w] \in Intents
           /\ [i EXCEPT !.state = st, !.attempt = n, !.waits = w] \in Intents
           /\ [i EXCEPT !.attempt = n, !.waits = w, !.state = st] \in Intents
           /\ [Absent EXCEPT !.state = st, !.attempt = n] \in Intents
<1>1. [i EXCEPT !.waits = w] \in Intents
  BY DEF Intents
<1>4. [i EXCEPT !.state = st, !.attempt = n, !.waits = w] \in Intents
  BY DEF Intents
<1>5. [i EXCEPT !.attempt = n, !.waits = w, !.state = st] \in Intents
  BY DEF Intents
<1>6. [Absent EXCEPT !.state = st, !.attempt = n] \in Intents
  BY DEF Intents, Absent
<1>7. QED
  BY <1>1, <1>4, <1>5, <1>6

LEMMA Attempted ==
    ASSUME NEW i \in Intents, NEW outcome, RetainsObjects(i), i.attempt <= MaxAttempts
    PROVE  /\ AfterAttempt(i, outcome) \in Intents
           /\ AfterAttempt(i, outcome).state # "none"
           /\ RetainsObjects(AfterAttempt(i, outcome)) => AfterAttempt(i, outcome).attempt <= MaxAttempts
<1>1. i.attempt + 1 \in 0 .. MaxAttempts + 1
  BY OutboxConstants DEF Intents, OutboxConstants
<1>2. CASE outcome = "delivered"
  <2>1. AfterAttempt(i, outcome) = [i EXCEPT !.state = "delivered"]
    BY <1>2 DEF AfterAttempt
  <2>2. [i EXCEPT !.state = "delivered"] \in Intents
    BY DEF Intents
  <2>3. [i EXCEPT !.state = "delivered"].state = "delivered"
    BY DEF Intents
  <2>4. QED BY <2>1, <2>2, <2>3 DEF RetainsObjects
<1>3. CASE outcome = "superseded"
  <2>1. AfterAttempt(i, outcome) = [i EXCEPT !.state = "delivered", !.superseded = TRUE]
    BY <1>3 DEF AfterAttempt
  <2>2. [i EXCEPT !.state = "delivered", !.superseded = TRUE] \in Intents
    BY DEF Intents
  <2>3. [i EXCEPT !.state = "delivered", !.superseded = TRUE].state = "delivered"
    BY DEF Intents
  <2>4. QED BY <2>1, <2>2, <2>3 DEF RetainsObjects
<1>4. CASE outcome \notin {"delivered", "superseded"}
  <2> DEFINE st == IF i.attempt + 1 > MaxAttempts THEN "failed" ELSE "retrying"
             out == [i EXCEPT !.attempt = i.attempt + 1, !.waits = TRUE, !.state = st]
  <2>1. AfterAttempt(i, outcome) = out
    BY <1>4 DEF AfterAttempt
  <2>2. st \in {"none", "pending", "retrying", "delivered", "failed"}
    OBVIOUS
  <2>3. out \in Intents
    BY <1>1, <2>2, IntentEdits
  <2>4. out.state = st /\ out.attempt = i.attempt + 1
    BY DEF Intents
  <2>5. st = "failed" \/ i.attempt + 1 <= MaxAttempts
    BY <1>1, OutboxConstants DEF OutboxConstants
  <2>6. QED BY <2>1, <2>3, <2>4, <2>5 DEF RetainsObjects
<1>5. QED
  BY <1>2, <1>3, <1>4
(* The end of an attempt, and the outcomes of its classification. *)
LEMMA PumpEdits ==
    ASSUME pump \in Pumps, ledger \in Turns \cup {None},
           NEW outcome \in {"delivered", "superseded", "retry"}
    PROVE  /\ Finished \in Pumps /\ Finished.at = "pick" /\ Finished.todo = pump.todo
           /\ ToPush \in Pumps /\ ToPush.at = "push" /\ ToPush.todo = pump.todo
           /\ ToPush.cur = pump.cur
           /\ Classified(outcome) \in Pumps /\ Classified(outcome).at = "settle"
           /\ Classified(outcome).todo = pump.todo /\ Classified(outcome).cur = pump.cur
           /\ Classified(outcome).outcome = outcome
<1>1. /\ Finished \in Pumps /\ Finished.at = "pick" /\ Finished.todo = pump.todo
  BY DEF Finished, Pumps
<1>2. /\ ToPush \in Pumps /\ ToPush.at = "push" /\ ToPush.todo = pump.todo
      /\ ToPush.cur = pump.cur
  BY DEF ToPush, Pumps
<1>3. /\ Classified(outcome) \in Pumps /\ Classified(outcome).at = "settle"
      /\ Classified(outcome).todo = pump.todo /\ Classified(outcome).cur = pump.cur
      /\ Classified(outcome).outcome = outcome
  BY DEF Classified, Pumps
<1>4. QED
  BY <1>1, <1>2, <1>3

LEMMA TypeInvInit == OutboxInit => TypeInv
<1> USE OutboxConstants DEF OutboxInit, OutboxConstants
<1>1. OutboxInit => OutboxTypeOK
  BY DEF OutboxTypeOK, Intents, Pumps, Absent, Away, AtRest
<1>2. OutboxInit => InHand /\ Numbered
  BY DEF InHand, Numbered, Absent, Away, AtRest, RetainsObjects
<1>3. QED
  BY <1>1, <1>2 DEF TypeInv

LEMMA TypeInvStep == TypeInv /\ [OutboxNext]_outboxVars => TypeInv'
<1> SUFFICES ASSUME TypeInv, [OutboxNext]_outboxVars PROVE TypeInv'
  OBVIOUS
<1> USE OutboxConstants DEF OutboxConstants, TypeInv, OutboxTypeOK, InHand, Numbered, RetainsObjects,
        index, remote, counts
<1>1. ASSUME NEW t \in Turns, CommitWrite(t) PROVE TypeInv'
  <2>1. PICK i \in Intents : /\ i.state # "none"
                             /\ RetainsObjects(i) => i.attempt <= MaxAttempts
                             /\ intent' = [intent EXCEPT ![t] = i]
    <3>1. CASE intent[t].state = "none"
      <4>1. intent' = [intent EXCEPT ![t] = [Absent EXCEPT !.state = "pending", !.attempt = 1]]
        BY <1>1, <3>1 DEF CommitWrite
      <4>2. [Absent EXCEPT !.state = "pending", !.attempt = 1] \in Intents
        <5>1. Absent \in Intents /\ 1 \in 0 .. MaxAttempts + 1
          BY DEF Absent, Intents
        <5>2. QED
          BY <5>1, IntentEdits
      <4>3. /\ [Absent EXCEPT !.state = "pending", !.attempt = 1].state = "pending"
            /\ [Absent EXCEPT !.state = "pending", !.attempt = 1].attempt = 1
        BY DEF Absent
      <4>4. 1 <= MaxAttempts
        OBVIOUS
      <4>5. WITNESS [Absent EXCEPT !.state = "pending", !.attempt = 1] \in Intents
      <4>6. QED
        BY <4>1, <4>3, <4>4
    <3>2. CASE intent[t].state # "none"
      <4>1. intent' = [intent EXCEPT ![t] = intent[t]]
        BY <1>1, <3>2 DEF CommitWrite
      <4>2. QED
        BY <3>2, <4>1
    <3>3. QED
      BY <3>1, <3>2
  <2>2. /\ created' \in Seq(Turns)
        /\ Len(created') \in Nat /\ Len(created) \in Nat
        /\ \A k \in 1 .. Len(created) : k \in 1 .. Len(created') /\ created'[k] = created[k]
        /\ intent[t].state = "none" =>
              Len(created') \in 1 .. Len(created') /\ created'[Len(created')] = t
    BY <1>1 DEF CommitWrite
  <2>3. OutboxTypeOK'
    BY <1>1, <2>1, <2>2 DEF CommitWrite
  <2>4. \A u \in Turns : intent'[u].state # "none" =>
           \E k \in 1 .. Len(created') : created'[k] = u
    BY <2>1, <2>2
  <2>5. InHand'
    BY <1>1 DEF CommitWrite
  <2>6. Numbered'
    BY <1>1, <2>1, <2>4 DEF CommitWrite
  <2>7. QED
    BY <2>3, <2>5, <2>6
<1>2. ASSUME NEW t \in Turns, CommitIndex(t) PROVE TypeInv'
  BY <1>2 DEF CommitIndex, SyncDue, Pumps
<1>3. ASSUME NEW t \in Turns, CommitPin(t) PROVE TypeInv'
  BY <1>3 DEF CommitPin, Pumps
<1>4. ASSUME NEW t \in Turns, CommitDone(t) PROVE TypeInv'
  BY <1>4 DEF CommitDone, SyncDue, Pumps
<1>5. ASSUME NEW t \in Turns, CommitFails(t) PROVE TypeInv'
  BY <1>5 DEF CommitFails, Fault, Pumps
<1>6. ASSUME StartWatch PROVE TypeInv'
  BY <1>6 DEF StartWatch, Away, Pumps
<1>7. ASSUME StartOnce PROVE TypeInv'
  BY <1>7 DEF StartOnce, Away, Pumps
<1>8. ASSUME NEW t \in Turns, SweepRead(t) PROVE TypeInv'
  <2>1. pump' \in Pumps
    <3>1. SyncDue(intent[t]) \in {"none", "now", "later"}
      BY DEF SyncDue
    <3>2. QED
      BY <1>8, <3>1 DEF SweepRead, Pumps
  <2>2. pump'.at = pump.at /\ pump'.todo = pump.todo
    BY <1>8 DEF SweepRead, Pumps
  <2>3. QED
    BY <1>8, <2>1, <2>2 DEF SweepRead
<1>9. ASSUME SweepSync PROVE TypeInv'
  BY <1>9 DEF SweepSync, Pumps
<1>10. ASSUME SweepDone PROVE TypeInv'
  BY <1>10 DEF SweepDone, Pumps
<1>11. ASSUME ListDue PROVE TypeInv'
  BY <1>11 DEF ListDue, Pumps
<1>12. ASSUME NEW t \in Turns, ScanRead(t) PROVE TypeInv'
  <2>1. /\ pump' \in Pumps /\ pump'.at = "scan"
        /\ pump'.todo \in {pump.todo, pump.todo \cup {t}}
        /\ pump'.todo # pump.todo => IntentDue(intent[t])
    <3>1. CASE IntentDue(intent[t])
      <4>1. pump' = [pump EXCEPT !.scan = @ \ {t}, !.todo = @ \cup {t}]
        BY <1>12, <3>1 DEF ScanRead, IntentDue
      <4>2. pump' \in Pumps /\ pump'.at = pump.at /\ pump'.todo = pump.todo \cup {t}
        BY <4>1 DEF Pumps
      <4>3. QED
        BY <1>12, <3>1, <4>2 DEF ScanRead
    <3>2. CASE ~IntentDue(intent[t])
      <4>1. /\ pump' \in {[pump EXCEPT !.cur = t], [pump EXCEPT !.scan = @ \ {t}]}
            /\ pump.at = "scan" /\ pump \in Pumps
        BY <1>12, <3>2 DEF ScanRead
      <4>2. CASE pump' = [pump EXCEPT !.cur = t]
        BY ONLY <4>1, <4>2, <1>12 DEF Pumps
      <4>3. CASE pump' = [pump EXCEPT !.scan = @ \ {t}]
        BY ONLY <4>1, <4>3 DEF Pumps
      <4>4. QED
        BY <4>1, <4>2, <4>3
    <3>3. QED
      BY <3>1, <3>2
  <2>2. QED
    BY <1>12, <2>1 DEF ScanRead, IntentDue
<1>13. ASSUME ScanClear PROVE TypeInv'
  BY <1>13 DEF ScanClear, Pumps
<1>14. ASSUME PickNext PROVE TypeInv'
  <2> DEFINE IsFirst(i) == /\ i \in 1 .. Len(created)
                           /\ created[i] \in pump.todo
                           /\ \A k \in 1 .. i - 1 : created[k] \notin pump.todo
             first == CHOOSE i \in 1 .. Len(created) :
                         /\ created[i] \in pump.todo
                         /\ \A k \in 1 .. i - 1 : created[k] \notin pump.todo
  <2>1. CASE pump.todo = {}
    <3>1. pump' = [pump EXCEPT !.at = "rest"] /\ pump \in Pumps
      BY <1>14, <2>1 DEF PickNext
    <3>2. pump' \in Pumps /\ pump'.at = "rest" /\ pump'.todo = pump.todo
      BY ONLY <3>1 DEF Pumps
    <3>3. QED
      BY <1>14, <3>2 DEF PickNext
  <2>2. CASE pump.todo # {}
    <3>1. \E i : IsFirst(i)
      <4> DEFINE S == {i \in 1 .. Len(created) : created[i] \in pump.todo}
      <4>1. S # {} /\ S \in SUBSET Nat
        BY <2>2 DEF Pumps
      <4> HIDE DEF S
      <4>2. PICK n \in S : \A m \in S : n <= m
        BY <4>1, LeastNumber
      <4>3. IsFirst(n)
        BY <4>2 DEF S
      <4>4. QED
        BY <4>3
    <3>2. IsFirst(first)
      BY <3>1
    <3> HIDE DEF first
    <3>3. pump' = [pump EXCEPT !.at = "pin", !.cur = created[first],
                               !.todo = @ \ {created[first]}]
      BY <1>14, <2>2 DEF PickNext, first
    <3>4. created[first] \in Turns
      BY <3>2 DEF Pumps
    <3>5. pump' \in Pumps /\ pump'.cur \in Turns /\ pump'.todo \subseteq pump.todo
      BY <3>3, <3>4 DEF Pumps
    <3>6. QED
      BY <1>14, <3>5 DEF PickNext
  <2>3. QED
    BY <2>1, <2>2
<1>15. ASSUME EnsurePin PROVE TypeInv'
  BY <1>15 DEF EnsurePin, Pumps
<1>16. ASSUME Take PROVE TypeInv'
  <2>1. /\ pump' \in Pumps /\ pump'.todo = pump.todo
        /\ pump'.at = "pick" \/ pump'.cur = pump.cur
    <3>1. pump' \in {Finished, ToPush, Classified("delivered"), Classified("superseded"),
                     Classified("retry")}
      BY <1>16 DEF Take, Classify
    <3>2. QED
      BY <3>1, PumpEdits
  <2>2. QED
    BY <1>16, <2>1 DEF Take
<1>17. ASSUME TakeBlind PROVE TypeInv'
  BY <1>17 DEF TakeBlind, ToPush, Fault, Pumps
<1>18. ASSUME PushOk PROVE TypeInv'
  <2>1. /\ landed' \subseteq Turns
        /\ tip' \in Turns \cup {"base", "other"}
    BY <1>18 DEF PushOk, LandCommit
  <2>2. pump' \in Pumps /\ pump'.todo = pump.todo /\ pump'.cur = pump.cur
    BY <1>18 DEF PushOk, Pumps
  <2>3. QED
    BY <1>18, <2>1, <2>2 DEF PushOk, Fault
<1>19. ASSUME PushRefused PROVE TypeInv'
  BY <1>19 DEF PushRefused, Pumps
<1>20. ASSUME PushBreaks PROVE TypeInv'
  <2>1. /\ landed' \subseteq Turns
        /\ tip' \in Turns \cup {"base", "other"}
    BY <1>20 DEF PushBreaks, LandCommit
  <2>2. pump' \in Pumps /\ pump'.todo = pump.todo /\ pump'.cur = pump.cur
    BY <1>20 DEF PushBreaks, Pumps
  <2>3. QED
    BY <1>20, <2>1, <2>2 DEF PushBreaks, Fault
<1>21. ASSUME Ask PROVE TypeInv'
  BY <1>21 DEF Ask, AdvertisedOutcome, Pumps
<1>22. ASSUME DeliverFails PROVE TypeInv'
  BY <1>22 DEF DeliverFails, Fault, Pumps
<1>23. ASSUME Settle PROVE TypeInv'
  <2>1. CASE RetainsObjects(intent[pump.cur])
    <3>1. intent[pump.cur] \in Intents /\ pump.outcome \in {"none", "delivered", "superseded", "retry"}
      BY <1>23 DEF Settle, Pumps
    <3>2. pump.cur \in Turns /\ intent[pump.cur].attempt <= MaxAttempts
      BY <1>23, <2>1 DEF Settle
    <3> DEFINE after == AfterAttempt(intent[pump.cur], pump.outcome)
    <3>5. /\ after \in Intents /\ after.state # "none"
          /\ RetainsObjects(after) => after.attempt <= MaxAttempts
      BY <2>1, <3>1, <3>2, Attempted
    <3>6. intent' = [intent EXCEPT ![pump.cur] = after]
      BY <1>23, <2>1 DEF Settle
    <3> HIDE DEF after
    <3>3. pump' \in Pumps /\ pump'.todo = pump.todo /\ pump'.cur = pump.cur
      BY <1>23, <2>1 DEF Settle, Pumps
    <3>4. QED
      BY <1>23, <2>1, <3>2, <3>3, <3>5, <3>6 DEF Settle, Pumps
  <2>2. CASE ~RetainsObjects(intent[pump.cur])
    <3>1. pump' \in Pumps /\ pump'.todo = pump.todo /\ pump'.at = "pick"
      BY <1>23, <2>2, PumpEdits DEF Settle
    <3>2. QED
      BY <1>23, <2>2, <3>1 DEF Settle
  <2>3. QED
    BY <2>1, <2>2
<1>24. ASSUME SettleIndex PROVE TypeInv'
  BY <1>24 DEF SettleIndex, SyncDue, Finished, Pumps
<1>25. ASSUME SettleIndexFails PROVE TypeInv'
  BY <1>25 DEF SettleIndexFails, Fault, Pumps
<1>26. ASSUME WriteLedger PROVE TypeInv'
  BY <1>26 DEF WriteLedger, Finished, Pumps
<1>27. ASSUME PumpAgain PROVE TypeInv'
  BY <1>27 DEF PumpAgain, Away, Pumps
<1>28. ASSUME PumpStops PROVE TypeInv'
  BY <1>28 DEF PumpStops, Away, Fault, Pumps
<1>29. ASSUME RetryLook PROVE TypeInv'
  <2>1. /\ reset' \in [at : {"idle", "reset", "index"}, todo : SUBSET Turns, cur : Turns \cup {None}]
        /\ reset'.at = "reset"
    BY <1>29 DEF RetryLook, AtRest
  <2>2. QED
    BY <1>29, <2>1 DEF RetryLook
<1>30. ASSUME NEW t \in Turns, ResetWrite(t) PROVE TypeInv'
  <2>1. CASE Redriveable(intent[t])
    <3>1. intent' = [intent EXCEPT ![t] = [intent[t] EXCEPT !.state = "retrying", !.attempt = 0,
                                                            !.waits = FALSE]]
      BY <1>30, <2>1 DEF ResetWrite
    <3>2. [intent[t] EXCEPT !.state = "retrying", !.attempt = 0, !.waits = FALSE] \in Intents
      <4>1. 0 \in 0 .. MaxAttempts + 1
        OBVIOUS
      <4>2. QED
        BY <4>1, IntentEdits
    <3>5. /\ [intent[t] EXCEPT !.state = "retrying", !.attempt = 0, !.waits = FALSE].state = "retrying"
          /\ [intent[t] EXCEPT !.state = "retrying", !.attempt = 0, !.waits = FALSE].attempt = 0
      BY DEF Intents
    <3>3. reset' = [reset EXCEPT !.at = "index", !.cur = t]
      BY <1>30, <2>1 DEF ResetWrite
    <3>4. /\ reset' \in [at : {"idle", "reset", "index"}, todo : SUBSET Turns,
                         cur : Turns \cup {None}]
          /\ reset'.cur \in Turns
      BY <3>3
    <3>6. intent' \in [Turns -> Intents] /\ Numbered'
      BY <1>30, <3>1, <3>2, <3>5, <2>1 DEF ResetWrite, Redriveable
    <3>7. QED
      BY <1>30, <2>1, <3>4, <3>6 DEF ResetWrite
  <2>2. CASE ~Redriveable(intent[t])
    <3>1. reset' \in {AtRest, [reset EXCEPT !.todo = @ \ {t}]}
      BY <1>30, <2>2 DEF ResetWrite
    <3>2. QED
      BY <1>30, <2>2, <3>1 DEF ResetWrite, AtRest
  <2>3. QED
    BY <2>1, <2>2
<1>31. ASSUME ResetIndex PROVE TypeInv'
  <2>1. /\ reset' \in [at : {"idle", "reset", "index"}, todo : SUBSET Turns, cur : Turns \cup {None}]
        /\ reset'.at = "reset"
    BY <1>31 DEF ResetIndex
  <2>2. due' \in [Turns -> {"none", "now", "later"}]
    BY <1>31 DEF ResetIndex, SyncDue
  <2>3. QED
    BY <1>31, <2>1, <2>2 DEF ResetIndex
<1>32. ASSUME RetryDone PROVE TypeInv'
  BY <1>32 DEF RetryDone, AtRest, Pumps
<1>33. ASSUME RetryDies PROVE TypeInv'
  BY <1>33 DEF RetryDies, AtRest, Fault, Pumps
<1>34. ASSUME NEW t \in Turns, MarkWorkerRequired(t) PROVE TypeInv'
  BY <1>34 DEF MarkWorkerRequired, SyncDue, Pumps
<1>35. ASSUME NEW t \in Turns, BackoffEnds(t) PROVE TypeInv'
  <2>1. intent' = [intent EXCEPT ![t] = [intent[t] EXCEPT !.waits = FALSE]]
    BY <1>35 DEF BackoffEnds
  <2>2. [intent[t] EXCEPT !.waits = FALSE] \in Intents
    <3>1. 0 \in 0 .. MaxAttempts + 1 /\ intent[t] \in Intents
      OBVIOUS
    <3>2. QED
      BY <3>1, IntentEdits
  <2>3. /\ intent' \in [Turns -> Intents]
        /\ \A u \in Turns : /\ intent'[u].state = intent[u].state
                            /\ intent'[u].attempt = intent[u].attempt
    BY <2>1, <2>2 DEF Intents
  <2>4. QED
    BY <1>35, <2>3 DEF BackoffEnds
<1>36. ASSUME OthersPush PROVE TypeInv'
  BY <1>36 DEF OthersPush, Fault, Pumps
<1>37. CASE UNCHANGED outboxVars
  BY <1>37 DEF outboxVars, Pumps
<1>38. QED
  BY <1>1, <1>2, <1>3, <1>4, <1>5, <1>6, <1>7, <1>8, <1>9, <1>10, <1>11, <1>12, <1>13, <1>14, <1>15, <1>16, <1>17, <1>18, <1>19, <1>20, <1>21, <1>22, <1>23, <1>24, <1>25, <1>26, <1>27, <1>28, <1>29, <1>30, <1>31, <1>32, <1>33, <1>34, <1>35, <1>36, <1>37
  DEF OutboxNext, Pump, Retry, OutboxFaults, Commit

-----------------------------------------------------------------------------
(* The due index. *)

(* The pump clears an entry only if it has read its intent as settled: since
   then an operator may have revived it, nothing else can. *)
SettledRead ==
    \/ pump.at = "sweep" /\ pump.cur # None /\ pump.seen = "none"
    \/ pump.at = "scan" /\ pump.cur # None
    => pump.cur \in revived \/ intent[pump.cur].state \in {"delivered", "failed"}

(* Between two intents the pump has none in hand. *)
HandsFree ==
    /\ pump.at \in {"list", "pick", "rest"} => pump.cur = None
    /\ pump.at \in {"sweep", "scan"} => pump.cur \in pump.scan \cup {None}

IndexInv == OwedIsIndexed /\ SettledRead /\ HandsFree

LEMMA IndexInvInit == OutboxInit => IndexInv
  BY DEF OutboxInit, IndexInv, OwedIsIndexed, SettledRead, HandsFree, Away, Absent, RetainsObjects

LEMMA IndexInvStep == TypeInv /\ IndexInv /\ [OutboxNext]_outboxVars => IndexInv'
<1> SUFFICES ASSUME TypeInv, IndexInv, [OutboxNext]_outboxVars PROVE IndexInv'
  OBVIOUS
<1>a. /\ intent \in [Turns -> Intents] /\ due \in [Turns -> {"none", "now", "later"}]
      /\ commits \in [Turns -> {"idle", "wrote", "indexed", "pinned", "done"}]
      /\ pump \in Pumps /\ revived \subseteq Turns /\ None \notin Turns
  BY OutboxConstants DEF OutboxConstants, TypeInv, OutboxTypeOK
<1>b. InHand
  BY DEF TypeInv
<1> USE <1>a, <1>b DEF InHand, IndexInv, OwedIsIndexed, SettledRead, HandsFree, RetainsObjects, index, remote, counts
<1>1. ASSUME NEW t \in Turns, CommitWrite(t) PROVE IndexInv'
  BY <1>1 DEF CommitWrite, Absent, Pumps, Intents
<1>2. ASSUME NEW t \in Turns, CommitIndex(t) PROVE IndexInv'
  BY <1>2 DEF CommitIndex, SyncDue, Pumps, Intents
<1>3. ASSUME NEW t \in Turns, CommitPin(t) PROVE IndexInv'
  BY <1>3 DEF CommitPin, Pumps, Intents
<1>4. ASSUME NEW t \in Turns, CommitDone(t) PROVE IndexInv'
  BY <1>4 DEF CommitDone, SyncDue, Pumps, Intents
<1>5. ASSUME NEW t \in Turns, CommitFails(t) PROVE IndexInv'
  BY <1>5 DEF CommitFails, Fault, Pumps, Intents
<1>6. ASSUME StartWatch PROVE IndexInv'
  BY <1>6 DEF StartWatch, Away, Pumps, Intents
<1>7. ASSUME StartOnce PROVE IndexInv'
  BY <1>7 DEF StartOnce, Away, Pumps, Intents
<1>8. ASSUME NEW t \in Turns, SweepRead(t) PROVE IndexInv'
  BY <1>8 DEF SweepRead, SyncDue, Pumps, Intents
<1>9. ASSUME SweepSync PROVE IndexInv'
  BY <1>9 DEF SweepSync, Pumps, Intents
<1>10. ASSUME SweepDone PROVE IndexInv'
  BY <1>10 DEF SweepDone, Pumps, Intents
<1>11. ASSUME ListDue PROVE IndexInv'
  BY <1>11 DEF ListDue, Pumps, Intents
<1>12. ASSUME NEW t \in Turns, ScanRead(t) PROVE IndexInv'
  BY <1>12 DEF ScanRead, Pumps, Intents
<1>13. ASSUME ScanClear PROVE IndexInv'
  BY <1>13 DEF ScanClear, Pumps, Intents
<1>14. ASSUME PickNext PROVE IndexInv'
  BY <1>14 DEF PickNext, Pumps, Intents
<1>15. ASSUME EnsurePin PROVE IndexInv'
  BY <1>15 DEF EnsurePin, Pumps, Intents
<1>16. ASSUME Take PROVE IndexInv'
  BY <1>16 DEF Take, Classify, Classified, ToPush, Finished, Pumps, Intents
<1>17. ASSUME TakeBlind PROVE IndexInv'
  BY <1>17 DEF TakeBlind, ToPush, Fault, Pumps, Intents
<1>18. ASSUME PushOk PROVE IndexInv'
  BY <1>18 DEF PushOk, LandCommit, Pumps, Intents
<1>19. ASSUME PushRefused PROVE IndexInv'
  BY <1>19 DEF PushRefused, Pumps, Intents
<1>20. ASSUME PushBreaks PROVE IndexInv'
  BY <1>20 DEF PushBreaks, LandCommit, Fault, Pumps, Intents
<1>21. ASSUME Ask PROVE IndexInv'
  BY <1>21 DEF Ask, AdvertisedOutcome, Pumps, Intents
<1>22. ASSUME DeliverFails PROVE IndexInv'
  BY <1>22 DEF DeliverFails, Fault, Pumps, Intents
<1>23. ASSUME Settle PROVE IndexInv'
  <2>1. CASE RetainsObjects(intent[pump.cur])
    <3>1. /\ pump' = [pump EXCEPT !.at = "index"] /\ UNCHANGED <<due, commits, revived>>
          /\ intent' = [intent EXCEPT ![pump.cur] = AfterAttempt(intent[pump.cur], pump.outcome)]
      BY <1>23, <2>1 DEF Settle
    <3>2. QED
      BY <2>1, <3>1 DEF Pumps
  <2>2. CASE ~RetainsObjects(intent[pump.cur])
    BY <1>23, <2>2 DEF Settle, Finished, Pumps
  <2>3. QED
    BY <2>1, <2>2
<1>24. ASSUME SettleIndex PROVE IndexInv'
  BY <1>24 DEF SettleIndex, SyncDue, Finished, Pumps, Intents
<1>25. ASSUME SettleIndexFails PROVE IndexInv'
  BY <1>25 DEF SettleIndexFails, Fault, Pumps, Intents
<1>26. ASSUME WriteLedger PROVE IndexInv'
  BY <1>26 DEF WriteLedger, Finished, Pumps, Intents
<1>27. ASSUME PumpAgain PROVE IndexInv'
  BY <1>27 DEF PumpAgain, Away, Pumps, Intents
<1>28. ASSUME PumpStops PROVE IndexInv'
  BY <1>28 DEF PumpStops, Away, Fault, Pumps, Intents
<1>29. ASSUME RetryLook PROVE IndexInv'
  BY <1>29 DEF RetryLook, AtRest, Pumps, Intents
<1>30. ASSUME NEW t \in Turns, ResetWrite(t) PROVE IndexInv'
  BY <1>30 DEF ResetWrite, AtRest, Redriveable, Blocked, Pumps, Intents
<1>31. ASSUME ResetIndex PROVE IndexInv'
  BY <1>31 DEF ResetIndex, SyncDue, Pumps, Intents
<1>32. ASSUME RetryDone PROVE IndexInv'
  BY <1>32 DEF RetryDone, AtRest, Pumps, Intents
<1>33. ASSUME RetryDies PROVE IndexInv'
  BY <1>33 DEF RetryDies, AtRest, Fault, Pumps, Intents
<1>34. ASSUME NEW t \in Turns, MarkWorkerRequired(t) PROVE IndexInv'
  BY <1>34 DEF MarkWorkerRequired, SyncDue, Pumps, Intents
<1>35. ASSUME NEW t \in Turns, BackoffEnds(t) PROVE IndexInv'
  BY <1>35 DEF BackoffEnds, Pumps, Intents
<1>36. ASSUME OthersPush PROVE IndexInv'
  BY <1>36 DEF OthersPush, Fault, Pumps, Intents
<1>37. CASE UNCHANGED outboxVars
  BY <1>37 DEF outboxVars, Pumps, Intents
<1>38. QED
  BY <1>1, <1>2, <1>3, <1>4, <1>5, <1>6, <1>7, <1>8, <1>9, <1>10, <1>11, <1>12, <1>13, <1>14, <1>15, <1>16, <1>17, <1>18, <1>19, <1>20, <1>21, <1>22, <1>23, <1>24, <1>25, <1>26, <1>27, <1>28, <1>29, <1>30, <1>31, <1>32, <1>33, <1>34, <1>35, <1>36, <1>37
  DEF OutboxNext, Pump, Retry, OutboxFaults, Commit

-----------------------------------------------------------------------------
(* What is on the branch. *)

Landed(t) == t \in landed /\ behind[t] \subseteq landed

(* The ledger and the tip name commits the branch has contained, with all that
   is behind them; so does an outcome that says delivered. *)
LandInv ==
    /\ ledger # None => Landed(ledger)
    /\ tip \in Turns => Landed(tip)
    /\ pump.at \in {"settle", "index", "book"} =>
          /\ pump.outcome = "delivered" => Landed(pump.cur)
          /\ pump.outcome = "superseded" => pump.cur \in landed
    /\ pump.at = "book" => pump.outcome = "delivered"

LEMMA LandInvInit == OutboxInit => LandInv
  BY OutboxConstants DEF OutboxConstants, OutboxInit, LandInv, Away

LEMMA LandInvStep == TypeInv /\ LandInv /\ [OutboxNext]_outboxVars => LandInv'
<1> SUFFICES ASSUME TypeInv, LandInv, [OutboxNext]_outboxVars PROVE LandInv'
  OBVIOUS
<1>a. /\ behind \in [Turns -> SUBSET Turns] /\ ledger \in Turns \cup {None}
      /\ tip \in Turns \cup {"base", "other"} /\ landed \subseteq Turns
      /\ pump \in Pumps /\ Turns \cap {None, "base", "other"} = {}
  BY OutboxConstants DEF OutboxConstants, TypeInv, OutboxTypeOK
<1>b. InHand
  BY DEF TypeInv
<1> USE <1>a, <1>b DEF InHand, LandInv, Landed, index, remote, counts
<1>1. ASSUME NEW t \in Turns, CommitWrite(t) PROVE LandInv'
  BY <1>1 DEF CommitWrite, Absent, Pumps
<1>2. ASSUME NEW t \in Turns, CommitIndex(t) PROVE LandInv'
  BY <1>2 DEF CommitIndex, SyncDue, Pumps
<1>3. ASSUME NEW t \in Turns, CommitPin(t) PROVE LandInv'
  BY <1>3 DEF CommitPin, Pumps
<1>4. ASSUME NEW t \in Turns, CommitDone(t) PROVE LandInv'
  BY <1>4 DEF CommitDone, SyncDue, Pumps
<1>5. ASSUME NEW t \in Turns, CommitFails(t) PROVE LandInv'
  BY <1>5 DEF CommitFails, Fault, Pumps
<1>6. ASSUME StartWatch PROVE LandInv'
  BY <1>6 DEF StartWatch, Away, Pumps
<1>7. ASSUME StartOnce PROVE LandInv'
  BY <1>7 DEF StartOnce, Away, Pumps
<1>8. ASSUME NEW t \in Turns, SweepRead(t) PROVE LandInv'
  BY <1>8 DEF SweepRead, SyncDue, Pumps
<1>9. ASSUME SweepSync PROVE LandInv'
  BY <1>9 DEF SweepSync, Pumps
<1>10. ASSUME SweepDone PROVE LandInv'
  BY <1>10 DEF SweepDone, Pumps
<1>11. ASSUME ListDue PROVE LandInv'
  BY <1>11 DEF ListDue, Pumps
<1>12. ASSUME NEW t \in Turns, ScanRead(t) PROVE LandInv'
  BY <1>12 DEF ScanRead, Pumps
<1>13. ASSUME ScanClear PROVE LandInv'
  BY <1>13 DEF ScanClear, Pumps
<1>14. ASSUME PickNext PROVE LandInv'
  BY <1>14 DEF PickNext, Pumps
<1>15. ASSUME EnsurePin PROVE LandInv'
  BY <1>15 DEF EnsurePin, Pumps
<1>16. ASSUME Take PROVE LandInv'
  BY <1>16 DEF Take, Classify, Classified, ToPush, Finished, Pumps
<1>17. ASSUME TakeBlind PROVE LandInv'
  BY <1>17 DEF TakeBlind, ToPush, Fault, Pumps
<1>18. ASSUME PushOk PROVE LandInv'
  BY <1>18 DEF PushOk, LandCommit, Pumps
<1>19. ASSUME PushRefused PROVE LandInv'
  BY <1>19 DEF PushRefused, Pumps
<1>20. ASSUME PushBreaks PROVE LandInv'
  BY <1>20 DEF PushBreaks, LandCommit, Fault, Pumps
<1>21. ASSUME Ask PROVE LandInv'
  BY <1>21 DEF Ask, AdvertisedOutcome, Pumps
<1>22. ASSUME DeliverFails PROVE LandInv'
  BY <1>22 DEF DeliverFails, Fault, Pumps
<1>23. ASSUME Settle PROVE LandInv'
  BY <1>23 DEF Settle, AfterAttempt, Finished, Pumps
<1>24. ASSUME SettleIndex PROVE LandInv'
  BY <1>24 DEF SettleIndex, SyncDue, Finished, Pumps
<1>25. ASSUME SettleIndexFails PROVE LandInv'
  BY <1>25 DEF SettleIndexFails, Fault, Pumps
<1>26. ASSUME WriteLedger PROVE LandInv'
  BY <1>26 DEF WriteLedger, Finished, Pumps
<1>27. ASSUME PumpAgain PROVE LandInv'
  BY <1>27 DEF PumpAgain, Away, Pumps
<1>28. ASSUME PumpStops PROVE LandInv'
  BY <1>28 DEF PumpStops, Away, Fault, Pumps
<1>29. ASSUME RetryLook PROVE LandInv'
  BY <1>29 DEF RetryLook, AtRest, Pumps
<1>30. ASSUME NEW t \in Turns, ResetWrite(t) PROVE LandInv'
  BY <1>30 DEF ResetWrite, AtRest, Redriveable, Blocked, Pumps
<1>31. ASSUME ResetIndex PROVE LandInv'
  BY <1>31 DEF ResetIndex, SyncDue, Pumps
<1>32. ASSUME RetryDone PROVE LandInv'
  BY <1>32 DEF RetryDone, AtRest, Pumps
<1>33. ASSUME RetryDies PROVE LandInv'
  BY <1>33 DEF RetryDies, AtRest, Fault, Pumps
<1>34. ASSUME NEW t \in Turns, MarkWorkerRequired(t) PROVE LandInv'
  BY <1>34 DEF MarkWorkerRequired, SyncDue, Pumps
<1>35. ASSUME NEW t \in Turns, BackoffEnds(t) PROVE LandInv'
  BY <1>35 DEF BackoffEnds, Pumps
<1>36. ASSUME OthersPush PROVE LandInv'
  BY <1>36 DEF OthersPush, Fault, Pumps
<1>37. CASE UNCHANGED outboxVars
  BY <1>37 DEF outboxVars, Pumps
<1>38. QED
  BY <1>1, <1>2, <1>3, <1>4, <1>5, <1>6, <1>7, <1>8, <1>9, <1>10, <1>11, <1>12, <1>13, <1>14, <1>15, <1>16, <1>17, <1>18, <1>19, <1>20, <1>21, <1>22, <1>23, <1>24, <1>25, <1>26, <1>27, <1>28, <1>29, <1>30, <1>31, <1>32, <1>33, <1>34, <1>35, <1>36, <1>37
  DEF OutboxNext, Pump, Retry, OutboxFaults, Commit

-----------------------------------------------------------------------------
(* The outbox implements Delivery. *)

(* How a state of an intent is read as a promise. *)
LEMMA PromiseOf ==
    ASSUME NEW i
    PROVE  /\ i.state = "none" => Promise(i) = "none"
           /\ i.state \in {"pending", "retrying"} => Promise(i) = "owed"
           /\ i.state \in {"delivered", "failed"} => Promise(i) = i.state
<1>1. ASSUME i.state = "none" PROVE Promise(i) = "none"
  BY <1>1 DEF Promise, RetainsObjects
<1>2. ASSUME i.state \in {"pending", "retrying"} PROVE Promise(i) = "owed"
  BY <1>2 DEF Promise, RetainsObjects
<1>3. ASSUME i.state \in {"delivered", "failed"} PROVE Promise(i) = i.state
  BY <1>3 DEF Promise, RetainsObjects
<1>4. QED
  BY <1>1, <1>2, <1>3

(* The promise of a turn changes only when its intent changes state. *)
LEMMA SamePromises ==
    ASSUME \A t \in Turns : Promise(intent'[t]) = Promise(intent[t])
    PROVE  [t \in Turns |-> Promise(intent[t])]' = [t \in Turns |-> Promise(intent[t])]
  OBVIOUS

(* One intent is replaced by another. *)
LEMMA OnePromise ==
    ASSUME intent \in [Turns -> Intents], NEW t \in Turns, NEW i,
           intent' = [intent EXCEPT ![t] = i]
    PROVE  [u \in Turns |-> Promise(intent[u])]'
              = [[u \in Turns |-> Promise(intent[u])] EXCEPT ![t] = Promise(i)]
  OBVIOUS

LEMMA PromiseInit == OutboxInit => PromiseKept!DeliveryInit
  BY PromiseOf DEF OutboxInit, PromiseKept!DeliveryInit, Absent

LEMMA PromiseStep ==
    TypeInv /\ LandInv /\ TypeInv' /\ [OutboxNext]_outboxVars
       => [PromiseKept!DeliveryNext]_(PromiseKept!deliveryVars)
<1> SUFFICES ASSUME TypeInv, LandInv, TypeInv', [OutboxNext]_outboxVars
             PROVE  [PromiseKept!DeliveryNext]_(PromiseKept!deliveryVars)
  OBVIOUS
<1> DEFINE promise == [t \in Turns |-> Promise(intent[t])]
           Step == [PromiseKept!DeliveryNext]_(PromiseKept!deliveryVars)
<1>a. intent \in [Turns -> Intents] /\ landed \subseteq Turns /\ landed' \subseteq Turns
  BY DEF TypeInv, OutboxTypeOK
<1>b. ASSUME UNCHANGED <<intent, landed>> PROVE Step
  BY <1>b DEF PromiseKept!deliveryVars
<1>1. ASSUME NEW t \in Turns, CommitWrite(t) PROVE Step
  <2>1. CASE intent[t].state = "none"
    <3> DEFINE i == [Absent EXCEPT !.state = "pending", !.attempt = 1]
    <3>1. intent' = [intent EXCEPT ![t] = i] /\ landed' = landed
      BY <1>1, <2>1 DEF CommitWrite, remote
    <3>2. Promise(i) = "owed"
      BY DEF Promise, Absent, RetainsObjects
    <3> HIDE DEF i
    <3>3. promise' = [promise EXCEPT ![t] = "owed"] /\ promise[t] = "none"
      BY <1>a, <2>1, <3>1, <3>2, OnePromise, PromiseOf
    <3>4. PromiseKept!Accept(t)
      BY <3>1, <3>3 DEF PromiseKept!Accept
    <3>5. QED
      BY <3>4 DEF PromiseKept!DeliveryNext
  <2>2. CASE intent[t].state # "none"
    BY <1>1, <1>a, <1>b, <2>2 DEF CommitWrite, remote
  <2>3. QED
    BY <2>1, <2>2
<1>2. ASSUME PushOk \/ PushBreaks PROVE Step
  <2>1. landed \subseteq landed' /\ intent' = intent
    BY <1>2 DEF PushOk, PushBreaks, LandCommit, index, remote
  <2>2. promise' = promise
    BY <2>1
  <2>3. PromiseKept!Land
    BY <1>a, <2>1, <2>2 DEF PromiseKept!Land
  <2>4. QED
    BY <2>3 DEF PromiseKept!DeliveryNext
<1>3. ASSUME Settle PROVE Step
  <2>1. CASE ~RetainsObjects(intent[pump.cur])
    BY <1>3, <1>b, <2>1 DEF Settle, remote
  <2>2. CASE RetainsObjects(intent[pump.cur])
    <3> DEFINE t == pump.cur
               i == AfterAttempt(intent[pump.cur], pump.outcome)
    <3>1. /\ t \in Turns /\ intent[t] \in Intents
          /\ pump.outcome \in {"none", "delivered", "superseded", "retry"}
      BY <1>3 DEF Settle, TypeInv, InHand, OutboxTypeOK, Pumps
    <3>2. intent' = [intent EXCEPT ![t] = i] /\ landed' = landed
      BY <1>3, <2>2 DEF Settle, remote
    <3>3. promise[t] = "owed"
      BY <2>2, <3>1 DEF Promise, RetainsObjects
    <3>4. promise' = [promise EXCEPT ![t] = Promise(i)]
      <4> HIDE DEF i, t
      <4>1. QED BY <1>a, <3>1, <3>2, OnePromise
    <3>5. Promise(i) \in {"owed", "failed"} \/ (Promise(i) = "delivered" /\ t \in landed)
      <4>1. CASE pump.outcome \in {"delivered", "superseded"}
        <5>1. i.state = "delivered"
          BY <3>1, <4>1 DEF AfterAttempt, Intents
        <5>2. t \in landed
          BY <1>3, <4>1 DEF Settle, LandInv, Landed
        <5>3. QED
          BY <5>1, <5>2 DEF Promise, RetainsObjects
      <4>2. CASE pump.outcome \notin {"delivered", "superseded"}
        <5>1. i.state \in {"failed", "retrying"}
          BY <3>1, <4>2 DEF AfterAttempt, Intents
        <5>2. QED
          BY <5>1, PromiseOf
      <4>3. QED
        BY <4>1, <4>2
    <3> HIDE DEF i, t
    <3>6. CASE Promise(i) = "owed"
      <4>1. promise' = promise
        BY <3>1, <3>3, <3>4, <3>6
      <4>2. QED
        BY <3>2, <4>1 DEF PromiseKept!deliveryVars
    <3>7. CASE Promise(i) = "failed"
      BY <3>1, <3>2, <3>3, <3>4, <3>7 DEF PromiseKept!GiveUp, PromiseKept!DeliveryNext
    <3>8. CASE Promise(i) = "delivered" /\ t \in landed
      BY <3>1, <3>2, <3>3, <3>4, <3>8 DEF PromiseKept!Deliver, PromiseKept!DeliveryNext
    <3>9. QED
      BY <3>5, <3>6, <3>7, <3>8
  <2>3. QED
    BY <2>1, <2>2
<1>4. ASSUME NEW t \in Turns, ResetWrite(t) PROVE Step
  <2>1. CASE ~Redriveable(intent[t])
    BY <1>4, <1>b, <2>1 DEF ResetWrite, remote
  <2>2. CASE Redriveable(intent[t])
    <3> DEFINE i == [intent[t] EXCEPT !.state = "retrying", !.attempt = 0, !.waits = FALSE]
    <3>1. intent' = [intent EXCEPT ![t] = i] /\ landed' = landed
      BY <1>4, <2>2 DEF ResetWrite, remote
    <3>2. Promise(i) = "owed"
      BY <1>a DEF Promise, RetainsObjects, Intents
    <3> HIDE DEF i
    <3>3. promise' = [promise EXCEPT ![t] = "owed"]
      BY <1>a, <3>1, <3>2, OnePromise
    <3>4. promise[t] \in {"owed", "failed"}
      BY <1>a, <2>2 DEF Redriveable, Promise, RetainsObjects
    <3>5. CASE promise[t] = "owed"
      <4>1. promise' = promise
        BY <3>3, <3>5
      <4>2. QED
        BY <3>1, <4>1 DEF PromiseKept!deliveryVars
    <3>6. CASE promise[t] = "failed"
      BY <3>1, <3>3, <3>6 DEF PromiseKept!Revive, PromiseKept!DeliveryNext
    <3>7. QED
      BY <3>4, <3>5, <3>6
  <2>3. QED
    BY <2>1, <2>2
<1>5. ASSUME NEW t \in Turns, BackoffEnds(t) PROVE Step
  <2>1. \A u \in Turns : Promise(intent'[u]) = Promise(intent[u])
    BY <1>5, <1>a DEF BackoffEnds, Promise, RetainsObjects, Intents
  <2>2. promise' = promise
    BY <2>1, SamePromises
  <2>3. landed' = landed
    BY <1>5 DEF BackoffEnds, remote
  <2>4. QED
    BY <2>2, <2>3 DEF PromiseKept!deliveryVars
<1>6. ASSUME NEW t \in Turns,
             \/ CommitIndex(t) \/ CommitPin(t) \/ CommitDone(t) \/ CommitFails(t)
             \/ SweepRead(t) \/ ScanRead(t) \/ MarkWorkerRequired(t)
      PROVE  Step
  BY <1>6, <1>b DEF CommitIndex, CommitPin, CommitDone, CommitFails, SweepRead, ScanRead,
                    MarkWorkerRequired, index, remote
<1>7. ASSUME \/ StartWatch \/ StartOnce \/ SweepSync \/ SweepDone \/ ListDue \/ ScanClear
             \/ PickNext \/ EnsurePin \/ Take \/ TakeBlind \/ PushRefused \/ Ask \/ DeliverFails
      PROVE  Step
  BY <1>7, <1>b DEF StartWatch, StartOnce, SweepSync, SweepDone, ListDue, ScanClear, PickNext,
                    EnsurePin, Take, TakeBlind, PushRefused, Ask, DeliverFails, index, remote
<1>8. ASSUME \/ SettleIndex \/ SettleIndexFails \/ WriteLedger \/ PumpAgain \/ PumpStops
             \/ RetryLook \/ ResetIndex \/ RetryDone \/ RetryDies \/ OthersPush
      PROVE  Step
  BY <1>8, <1>b DEF SettleIndex, SettleIndexFails, WriteLedger, PumpAgain, PumpStops, RetryLook,
                    ResetIndex, RetryDone, RetryDies, OthersPush, index, remote
<1>9. CASE UNCHANGED outboxVars
  BY <1>9, <1>b DEF outboxVars
<1>10. QED
  BY <1>1, <1>2, <1>3, <1>4, <1>5, <1>6, <1>7, <1>8, <1>9
  DEF OutboxNext, Pump, Retry, OutboxFaults, Commit

-----------------------------------------------------------------------------
(* The theorems. *)

(* The files of the outbox and the memory of its processes keep their types. *)
THEOREM OutboxTypes == OutboxSpec => []OutboxTypeOK
<1>1. OutboxSpec => []TypeInv
  BY TypeInvInit, TypeInvStep, PTL DEF OutboxSpec
<1>2. TypeInv => OutboxTypeOK
  BY DEF TypeInv
<1>3. QED
  BY <1>1, <1>2, PTL

(* An owed publication of a finished turn stays in locks/outbox-due, although
   commit_intent, recover_due_index, list_due and pump_one write the index at
   other times than the intent, for any number of turns, attempts and faults. *)
THEOREM OwedStaysIndexed == OutboxSpec => []OwedIsIndexed
<1>1. OutboxSpec => []TypeInv
  BY TypeInvInit, TypeInvStep, PTL DEF OutboxSpec
<1>2. OutboxSpec => []IndexInv
  BY <1>1, IndexInvInit, IndexInvStep, PTL DEF OutboxSpec
<1>3. IndexInv => OwedIsIndexed
  BY DEF IndexInv
<1>4. QED
  BY <1>2, <1>3, PTL

(* Every behaviour of the outbox is one of Delivery: it forgets no publication
   it accepted, reports none delivered whose commit the branch never contained,
   and only retry_task takes up one that was given up. *)
THEOREM OutboxKeepsPromises == OutboxSpec => DeliveriesKept
<1>1. OutboxSpec => []TypeInv
  BY TypeInvInit, TypeInvStep, PTL DEF OutboxSpec
<1>2. OutboxSpec => []LandInv
  BY <1>1, LandInvInit, LandInvStep, PTL DEF OutboxSpec
<1>3. QED
  BY <1>1, <1>2, PromiseInit, PromiseStep, PTL DEF OutboxSpec, DeliveriesKept, PromiseKept!DeliverySpec
=============================================================================
