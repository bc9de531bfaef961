------------------------- MODULE RunnerSlotsProofs -------------------------
(***************************************************************************)
(* Proofs about RunnerSlots for every number of turns, launchers, runners, *)
(* tokens and faults: the type invariant, OneRunnerPerTurn, ExecutorAlone  *)
(* and WithinSlots.  The last two follow from SlotsInv: who has the right  *)
(* to a turn (TokenInv), who holds the lock of its journal (FlockInv), who *)
(* works under it (RunInv), and who is counted against the slots (SeatInv).*)
(***************************************************************************)
EXTENDS RunnerSlots, FiniteSetTheorems, TLAPS

\* Every process that is in the middle of something works on a turn.
Placed == \A p \in Procs : pc[p] \notin {"idle", "dead", "next"} => at[p] \in Jobs

TypeInv == TypeOK /\ Placed

LEMMA RowTypes ==
    /\ NoRes \in Reservation
    /\ NoRow \in Row
    /\ \A r \in Row : Park(r) \in Row
<1>1. NoRes \in Reservation
  BY DEF NoRes, Reservation
<1>2. 0 \in 0..ParkAfter
  BY ConstantsAssumption DEF ConstantsAssumption
<1>3. NoRow \in Row
  BY <1>1, <1>2 DEF NoRow, Row
<1>4. ASSUME NEW r \in Row PROVE Park(r) \in Row
  BY <1>1 DEF Row, Park
<1> QED BY <1>1, <1>3, <1>4

LEMMA InitTypeInv == Init => TypeInv
  BY ConstantsAssumption, LoadsAssumption, RowTypes
  DEF Init, Load, TypeInv, TypeOK, Placed, Log, NoLog, Procs, LaunchPcs, RunnerPcs, OtherPcs

\* What every process step of the model leaves well typed: its own local state.
LEMMA ForgetTypes ==
    ASSUME TypeOK, NEW p \in Procs, Forget(p)
    PROVE  /\ at' \in [Procs -> Jobs \cup {None}]
           /\ tok' \in [Procs -> Tokens \cup {None}]
           /\ kid' \in [Procs -> Procs \cup {None}]
           /\ want' \in [Procs -> Row]
           /\ via' \in [Procs -> {"none", "submit", "replace", "parked"}]
  BY RowTypes DEF TypeOK, Forget

LEMMA UnlockedType ==
    ASSUME TypeOK, NEW p \in Procs
    PROVE  Unlocked(p) \in [Jobs -> Log]
  BY DEF TypeOK, Unlocked, Log

\* The ways in which the actions edit a queue row or a journal.
LEMMA RowTable ==
    ASSUME row \in [Jobs -> Row], NEW j \in Jobs, NEW r \in Row
    PROVE  row[j] \in Row /\ [row EXCEPT ![j] = r] \in [Jobs -> Row]
  OBVIOUS

LEMMA OwnerEdit ==
    ASSUME row \in [Jobs -> Row], NEW j \in Jobs, NEW p \in Procs \cup {None}
    PROVE  /\ [row EXCEPT ![j].owner = p] \in [Jobs -> Row]
           /\ [row EXCEPT ![j].st = "waiting", ![j].owner = p] \in [Jobs -> Row]
<1>1. [row EXCEPT ![j].owner = p] \in [Jobs -> Row]
  BY DEF Row
<1>2. [row EXCEPT ![j].st = "waiting", ![j].owner = p] \in [Jobs -> Row]
  BY DEF Row
<1> QED BY <1>1, <1>2

LEMMA StateEdit ==
    ASSUME row \in [Jobs -> Row], NEW j \in Jobs,
           NEW st \in {"absent", "waiting", "dispatching", "parked"}
    PROVE  [row EXCEPT ![j].st = st] \in [Jobs -> Row]
  BY DEF Row

LEMMA CancelEdit ==
    ASSUME row \in [Jobs -> Row], NEW j \in Jobs
    PROVE  [row EXCEPT ![j].cancel = TRUE] \in [Jobs -> Row]
  BY DEF Row

LEMMA FailsEdit ==
    ASSUME row \in [Jobs -> Row], NEW j \in Jobs, NEW n \in 0..ParkAfter
    PROVE  [row EXCEPT ![j].fails = n] \in [Jobs -> Row]
  BY DEF Row

LEMMA ReservationEdit ==
    ASSUME row \in [Jobs -> Row], NEW j \in Jobs, NEW x \in Reservation
    PROVE  [row EXCEPT ![j].res = x] \in [Jobs -> Row]
  BY DEF Row

LEMMA ChildEdit ==
    ASSUME NEW r \in Row, NEW c \in Procs \cup {None}
    PROVE  [r EXCEPT !.res.child = c] \in Row
<1>1. r.res \in Reservation
  BY DEF Row
<1>2. [r.res EXCEPT !.child = c] \in Reservation
  BY <1>1 DEF Reservation
<1> QED BY <1>2 DEF Row

LEMMA ResetEdit ==
    ASSUME NEW r \in Row, NEW o \in Procs \cup {None},
           NEW st \in {"absent", "waiting", "dispatching", "parked"}
    PROVE  [r EXCEPT !.fails = 0, !.st = st, !.owner = o] \in Row
<1>1. 0 \in 0..ParkAfter
  BY ConstantsAssumption DEF ConstantsAssumption
<1> QED BY <1>1 DEF Row

LEMMA ReleasedType ==
    ASSUME row \in [Jobs -> Row], NEW p \in Procs, NEW j \in Jobs
    PROVE  Released(p, j) \in [Jobs -> Row]
  BY ReservationEdit, RowTypes DEF Released

LEMMA LogEdits ==
    ASSUME log \in [Jobs -> Log], NEW j \in Jobs, NEW p \in Procs
    PROVE  /\ [log EXCEPT ![j].holder = p] \in [Jobs -> Log]
           /\ [log EXCEPT ![j].holder = p, ![j].done = TRUE, ![j].used = TRUE] \in [Jobs -> Log]
           /\ [log EXCEPT ![j].accepted = TRUE, ![j].used = TRUE] \in [Jobs -> Log]
           /\ [log EXCEPT ![j].done = TRUE] \in [Jobs -> Log]
  BY DEF Log

LEMMA BeginRetireTypes ==
    ASSUME TypeOK, NEW p \in Procs, NEW j \in Jobs, NEW r \in Row, BeginRetire(p, j, r)
    PROVE  /\ turn' \in [Jobs -> {"new", "open", "closed"}]
           /\ log' \in [Jobs -> Log]
           /\ pc' \in [Procs -> LaunchPcs \cup RunnerPcs \cup OtherPcs]
           /\ at' \in [Procs -> Jobs \cup {None}]
           /\ want' \in [Procs -> Row]
  BY LogEdits DEF TypeOK, BeginRetire, Goto, OtherPcs

LEMMA TypeInvStep == TypeInv /\ [Next]_vars => TypeInv'
<1> SUFFICES ASSUME TypeInv, [Next]_vars PROVE TypeInv'
  OBVIOUS
<1> USE ConstantsAssumption
<1> USE DEF ConstantsAssumption, TypeInv
<1>1. ASSUME NEW p \in Launchers, NEW j \in Jobs, Submit(p, j) PROVE TypeInv'
  <2>a. p \in Procs
    BY DEF Procs
  <2>row. row' \in [Jobs -> Row]
    BY <1>1, <2>a, RowTypes, RowTable DEF Submit, TypeOK, Row, NoRow, NoRes, Reservation
  <2>nextId. nextId' \in Nat
    BY <1>1, <2>a DEF Submit, TypeOK
  <2>turn. turn' \in [Jobs -> {"new", "open", "closed"}]
    BY <1>1, <2>a DEF Submit, TypeOK
  <2>pc. pc' \in [Procs -> LaunchPcs \cup RunnerPcs \cup OtherPcs]
    BY <1>1, <2>a DEF Submit, TypeOK, Goto, LaunchPcs, RunnerPcs, OtherPcs
  <2>at. at' \in [Procs -> Jobs \cup {None}]
    BY <1>1, <2>a DEF Submit, TypeOK
  <2>via. via' \in [Procs -> {"none", "submit", "replace", "parked"}]
    BY <1>1, <2>a DEF Submit, TypeOK
  <2>ok. TypeOK'
    BY <1>1, <2>row, <2>nextId, <2>turn, <2>pc, <2>at, <2>via DEF Submit, TypeOK
  <2>pl. Placed'
    BY <1>1, <2>a DEF Submit, TypeOK, Placed, Goto, Idle
  <2> QED BY <2>ok, <2>pl
<1>2. ASSUME NEW p \in Launchers, NEW j \in Jobs, NEW seen \in SUBSET Dead, AdoptFence(p, j, seen) PROVE TypeInv'
  <2>a. p \in Procs
    BY DEF Procs
  <2>log. log' \in [Jobs -> Log]
    BY <1>2, <2>a, LogEdits, UnlockedType DEF AdoptFence, TypeOK
  <2>pc. pc' \in [Procs -> LaunchPcs \cup RunnerPcs \cup OtherPcs]
    BY <1>2, <2>a DEF AdoptFence, TypeOK, Goto, LaunchPcs, RunnerPcs, OtherPcs
  <2>at. at' \in [Procs -> Jobs \cup {None}]
    BY <1>2, <2>a DEF AdoptFence, TypeOK
  <2>ok. TypeOK'
    BY <1>2, <2>log, <2>pc, <2>at DEF AdoptFence, TypeOK
  <2>pl. Placed'
    BY <1>2, <2>a DEF AdoptFence, TypeOK, Placed, Goto, Idle
  <2> QED BY <2>ok, <2>pl
<1>3. ASSUME NEW p \in Launchers, AdoptRow(p) PROVE TypeInv'
  <2>a. p \in Procs
    BY DEF Procs
  <2>b. at[p] \in Jobs
    BY <1>3, <2>a DEF AdoptRow, Placed
  <2>row0. row' = row \/ row' = [row EXCEPT ![at[p]].owner = p]
    BY <1>3, <2>a, <2>b DEF AdoptRow
  <2>row1. [row EXCEPT ![at[p]].owner = p] \in [Jobs -> Row]
    BY <2>a, <2>b, OwnerEdit DEF TypeOK
  <2>row. row' \in [Jobs -> Row]
    BY <2>row0, <2>row1 DEF TypeOK
  <2>log0. log' = log \/ log' = Unlocked(p)
    BY <1>3, <2>a, <2>b DEF AdoptRow
  <2>log. log' \in [Jobs -> Log]
    BY <2>log0, <2>a, <2>b, UnlockedType DEF TypeOK
  <2>pc. pc' \in [Procs -> LaunchPcs \cup RunnerPcs \cup OtherPcs]
    BY <1>3, <2>a, <2>b DEF AdoptRow, TypeOK, Goto, LaunchPcs, RunnerPcs, OtherPcs, Return
  <2>at. at' \in [Procs -> Jobs \cup {None}]
    BY <1>3, <2>a, <2>b, ForgetTypes DEF AdoptRow, TypeOK, Return
  <2>tok. tok' \in [Procs -> Tokens \cup {None}]
    BY <1>3, <2>a, <2>b, ForgetTypes DEF AdoptRow, TypeOK, Return
  <2>kid. kid' \in [Procs -> Procs \cup {None}]
    BY <1>3, <2>a, <2>b, ForgetTypes DEF AdoptRow, TypeOK, Return
  <2>want0. want' = [want EXCEPT ![p] = row'[at[p]]] \/ Forget(p)
    BY <1>3, <2>a, <2>b DEF AdoptRow, Return
  <2>want. want' \in [Procs -> Row]
    BY <2>want0, <2>a, <2>b, <2>row, ForgetTypes DEF TypeOK
  <2>via. via' \in [Procs -> {"none", "submit", "replace", "parked"}]
    BY <1>3, <2>a, <2>b, ForgetTypes DEF AdoptRow, TypeOK, Return
  <2>ok. TypeOK'
    BY <1>3, <2>row, <2>log, <2>pc, <2>at, <2>tok, <2>kid, <2>want, <2>via DEF AdoptRow, TypeOK
  <2>pl. Placed'
    BY <1>3, <2>a, <2>b DEF AdoptRow, TypeOK, Placed, Goto, Return, Forget
  <2> QED BY <2>ok, <2>pl
<1>4. ASSUME NEW p \in Launchers, NEW j \in Jobs, NEW seen \in SUBSET Dead, ClearDeadRunner(p, j, seen) PROVE TypeInv'
  <2>a. p \in Procs
    BY DEF Procs
  <2>runner. runner' \in [Jobs -> Procs \cup {None}]
    BY <1>4, <2>a DEF ClearDeadRunner, TypeOK
  <2>ok. TypeOK'
    BY <1>4, <2>runner DEF ClearDeadRunner, TypeOK
  <2>pl. Placed'
    BY <1>4, <2>a DEF ClearDeadRunner, TypeOK, Placed, Goto, Idle
  <2> QED BY <2>ok, <2>pl
<1>5. ASSUME NEW p \in Launchers, NEW j \in Jobs, NEW seen \in SUBSET Dead, StartReplacement(p, j, seen) PROVE TypeInv'
  <2>a. p \in Procs
    BY DEF Procs
  <2>row0. row' = row \/ row' = [row EXCEPT ![j] = Park(row[j])]
    BY <1>5, <2>a DEF StartReplacement
  <2>row. row' \in [Jobs -> Row]
    BY <2>row0, <2>a, RowTable, RowTypes DEF TypeOK
  <2>pc. pc' \in [Procs -> LaunchPcs \cup RunnerPcs \cup OtherPcs]
    BY <1>5, <2>a DEF StartReplacement, TypeOK, Goto, LaunchPcs, RunnerPcs, OtherPcs
  <2>at. at' \in [Procs -> Jobs \cup {None}]
    BY <1>5, <2>a DEF StartReplacement, TypeOK
  <2>via. via' \in [Procs -> {"none", "submit", "replace", "parked"}]
    BY <1>5, <2>a DEF StartReplacement, TypeOK
  <2>ok. TypeOK'
    BY <1>5, <2>row, <2>pc, <2>at, <2>via DEF StartReplacement, TypeOK
  <2>pl. Placed'
    BY <1>5, <2>a DEF StartReplacement, TypeOK, Placed, Goto, Idle
  <2> QED BY <2>ok, <2>pl
<1>6. ASSUME NEW p \in Procs, NEW j \in Jobs, UnparkOldest(p, j) PROVE TypeInv'
  <2>row0. row' = [row EXCEPT ![j].st = "waiting", ![j].owner = p]
    BY <1>6 DEF UnparkOldest
  <2>row1. [row EXCEPT ![j].st = "waiting", ![j].owner = p] \in [Jobs -> Row]
    BY OwnerEdit DEF TypeOK
  <2>row. row' \in [Jobs -> Row]
    BY <2>row0, <2>row1 DEF TypeOK
  <2>pc. pc' \in [Procs -> LaunchPcs \cup RunnerPcs \cup OtherPcs]
    BY <1>6 DEF UnparkOldest, TypeOK, Goto, LaunchPcs, RunnerPcs, OtherPcs
  <2>at. at' \in [Procs -> Jobs \cup {None}]
    BY <1>6 DEF UnparkOldest, TypeOK
  <2>via. via' \in [Procs -> {"none", "submit", "replace", "parked"}]
    BY <1>6 DEF UnparkOldest, TypeOK
  <2>ok. TypeOK'
    BY <1>6, <2>row, <2>pc, <2>at, <2>via DEF UnparkOldest, TypeOK
  <2>pl. Placed'
    BY <1>6 DEF UnparkOldest, TypeOK, Placed, Goto, Idle, Unparkable
  <2> QED BY <2>ok, <2>pl
<1>7. ASSUME NEW p \in Procs, NothingParked(p) PROVE TypeInv'
  <2>pc. pc' \in [Procs -> LaunchPcs \cup RunnerPcs \cup OtherPcs]
    BY <1>7 DEF NothingParked, TypeOK, Goto, LaunchPcs, RunnerPcs, OtherPcs, Return
  <2>at. at' \in [Procs -> Jobs \cup {None}]
    BY <1>7, ForgetTypes DEF NothingParked, TypeOK, Return
  <2>tok. tok' \in [Procs -> Tokens \cup {None}]
    BY <1>7, ForgetTypes DEF NothingParked, TypeOK, Return
  <2>kid. kid' \in [Procs -> Procs \cup {None}]
    BY <1>7, ForgetTypes DEF NothingParked, TypeOK, Return
  <2>want. want' \in [Procs -> Row]
    BY <1>7, ForgetTypes, RowTypes, RowTable DEF NothingParked, TypeOK, Return
  <2>via. via' \in [Procs -> {"none", "submit", "replace", "parked"}]
    BY <1>7, ForgetTypes DEF NothingParked, TypeOK, Return
  <2>ok. TypeOK'
    BY <1>7, <2>pc, <2>at, <2>tok, <2>kid, <2>want, <2>via DEF NothingParked, TypeOK
  <2>pl. Placed'
    BY <1>7 DEF NothingParked, TypeOK, Placed, Goto, Return, Unparkable, Forget
  <2> QED BY <2>ok, <2>pl
<1>8. ASSUME NEW p \in Launchers, ResetFailures(p) PROVE TypeInv'
  <2>a. p \in Procs
    BY DEF Procs
  <2>row1. ASSUME NEW j \in Jobs PROVE row'[j] \in Row
    <3>1. row[j] \in Row
      BY DEF TypeOK
    <3>2. ASSUME NEW st \in {"absent", "waiting", "dispatching", "parked"},
                 NEW o \in Procs \cup {None}
          PROVE  [row[j] EXCEPT !.fails = 0, !.st = st, !.owner = o] \in Row
      BY <3>1, ResetEdit
    <3>3. row[j].st \in {"absent", "waiting", "dispatching", "parked"}
          /\ row[j].owner \in Procs \cup {None}
      BY <3>1 DEF Row
    <3>4. row'[j] = row[j] \/ \E st \in {"absent", "waiting", "dispatching", "parked"},
                                o \in Procs \cup {None} :
                             row'[j] = [row[j] EXCEPT !.fails = 0, !.st = st, !.owner = o]
      BY <1>8, <2>a, <3>3 DEF ResetFailures
    <3> QED BY <3>1, <3>2, <3>4
  <2>row. row' \in [Jobs -> Row]
    BY <1>8, <2>row1 DEF ResetFailures
  <2>ok. TypeOK'
    BY <1>8, <2>row DEF ResetFailures, TypeOK
  <2>pl. Placed'
    BY <1>8, <2>a DEF ResetFailures, TypeOK, Placed, Goto, Idle
  <2> QED BY <2>ok, <2>pl
<1>9. ASSUME NEW p \in Launchers, NEW j \in Jobs, RetainCancel(p, j) PROVE TypeInv'
  <2>a. p \in Procs
    BY DEF Procs
  <2>row0. row' = [row EXCEPT ![j].cancel = TRUE]
    BY <1>9, <2>a DEF RetainCancel
  <2>row. row' \in [Jobs -> Row]
    BY <2>row0, <2>a, CancelEdit DEF TypeOK
  <2>ok. TypeOK'
    BY <1>9, <2>row DEF RetainCancel, TypeOK
  <2>pl. Placed'
    BY <1>9, <2>a DEF RetainCancel, TypeOK, Placed, Goto, Idle
  <2> QED BY <2>ok, <2>pl
<1>10. ASSUME NEW p \in Launchers, NEW j \in Jobs, FinishWaitingCancellation(p, j) PROVE TypeInv'
  <2>a. p \in Procs
    BY DEF Procs
  <2>ret. BeginRetire(p, j, row[j])
    BY <1>10, <2>a DEF FinishWaitingCancellation
  <2>turn. turn' \in [Jobs -> {"new", "open", "closed"}]
    BY <2>ret, <2>a, BeginRetireTypes, RowTable, ForgetTypes DEF TypeOK, Return
  <2>log. log' \in [Jobs -> Log]
    BY <2>ret, <2>a, BeginRetireTypes, RowTable, ForgetTypes DEF TypeOK, Return
  <2>pc. pc' \in [Procs -> LaunchPcs \cup RunnerPcs \cup OtherPcs]
    BY <1>10, <2>a DEF FinishWaitingCancellation, TypeOK, Goto, LaunchPcs, RunnerPcs, OtherPcs, BeginRetire
  <2>at. at' \in [Procs -> Jobs \cup {None}]
    BY <2>ret, <2>a, BeginRetireTypes, RowTable, ForgetTypes DEF TypeOK, Return
  <2>want. want' \in [Procs -> Row]
    BY <2>ret, <2>a, BeginRetireTypes, RowTable, ForgetTypes DEF TypeOK, Return
  <2>ok. TypeOK'
    BY <1>10, <2>ret, <2>turn, <2>log, <2>pc, <2>at, <2>want DEF FinishWaitingCancellation, TypeOK
  <2>pl. Placed'
    BY <1>10, <2>a DEF FinishWaitingCancellation, TypeOK, Placed, Goto, BeginRetire, Idle
  <2> QED BY <2>ok, <2>pl
<1>11. ASSUME NEW p \in Procs, RemoveRow(p) PROVE TypeInv'
  <2>b. at[p] \in Jobs
    BY <1>11 DEF RemoveRow, Placed
  <2>row. row' \in [Jobs -> Row]
    BY <1>11, <2>b, RowTypes, RowTable DEF RemoveRow, TypeOK
  <2>runner. runner' \in [Jobs -> Procs \cup {None}]
    BY <1>11, <2>b DEF RemoveRow, TypeOK
  <2>log. log' \in [Jobs -> Log]
    BY <1>11, <2>b, LogEdits, UnlockedType DEF RemoveRow, TypeOK
  <2>pc. pc' \in [Procs -> LaunchPcs \cup RunnerPcs \cup OtherPcs]
    BY <1>11, <2>b DEF RemoveRow, TypeOK, Goto, LaunchPcs, RunnerPcs, OtherPcs, Return
  <2>at. at' \in [Procs -> Jobs \cup {None}]
    BY <1>11, <2>b, ForgetTypes DEF RemoveRow, TypeOK, Return, local
  <2>tok. tok' \in [Procs -> Tokens \cup {None}]
    BY <1>11, <2>b, ForgetTypes DEF RemoveRow, TypeOK, Return, local
  <2>kid. kid' \in [Procs -> Procs \cup {None}]
    BY <1>11, <2>b, ForgetTypes DEF RemoveRow, TypeOK, Return, local
  <2>want. want' \in [Procs -> Row]
    BY <1>11, <2>b, ForgetTypes, RowTypes, RowTable, <2>row DEF RemoveRow, TypeOK, Return, local
  <2>via. via' \in [Procs -> {"none", "submit", "replace", "parked"}]
    BY <1>11, <2>b, ForgetTypes DEF RemoveRow, TypeOK, Return, local
  <2>ok. TypeOK'
    BY <1>11, <2>row, <2>runner, <2>log, <2>pc, <2>at, <2>tok, <2>kid, <2>want, <2>via DEF RemoveRow, TypeOK
  <2>pl. Placed'
    BY <1>11, <2>b DEF RemoveRow, TypeOK, Placed, Goto, Return, Forget, local
  <2> QED BY <2>ok, <2>pl
<1>12. ASSUME NEW p \in Procs, NEW seen \in SUBSET Dead, ReserveSlot(p, seen) PROVE TypeInv'
  <2>b. at[p] \in Jobs
    BY <1>12 DEF ReserveSlot, Placed
  <2>new. NewToken \in Tokens
    BY <1>12 DEF ReserveSlot, NewToken
  <2>res. [by |-> p, tok |-> NewToken, child |-> None] \in Reservation
    BY <2>new DEF Reservation
  <2>row1. [row EXCEPT ![at[p]].res = [by |-> p, tok |-> NewToken, child |-> None]] \in [Jobs -> Row]
    BY <2>b, <2>res, ReservationEdit DEF TypeOK
  <2>row. row' \in [Jobs -> Row]
    BY <1>12, <2>row1 DEF ReserveSlot
  <2>pc. pc' \in [Procs -> LaunchPcs \cup RunnerPcs \cup OtherPcs]
    BY <1>12, <2>b DEF ReserveSlot, TypeOK, Goto, LaunchPcs, RunnerPcs, OtherPcs
  <2>tok. tok' \in [Procs -> Tokens \cup {None}]
    BY <1>12, <2>b DEF ReserveSlot, TypeOK, NewToken
  <2>ok. TypeOK'
    BY <1>12, <2>row, <2>pc, <2>tok DEF ReserveSlot, TypeOK
  <2>pl. Placed'
    BY <1>12, <2>b DEF ReserveSlot, TypeOK, Placed, Goto
  <2> QED BY <2>ok, <2>pl
<1>13. ASSUME NEW p \in Procs, NEW seen \in SUBSET Dead, ReserveRefused(p, seen) PROVE TypeInv'
  <2>b. at[p] \in Jobs
    BY <1>13 DEF ReserveRefused, Placed
  <2>pc. pc' \in [Procs -> LaunchPcs \cup RunnerPcs \cup OtherPcs]
    BY <1>13, <2>b DEF ReserveRefused, TypeOK, Goto, LaunchPcs, RunnerPcs, OtherPcs, Return
  <2>at. at' \in [Procs -> Jobs \cup {None}]
    BY <1>13, <2>b, ForgetTypes DEF ReserveRefused, TypeOK, Return, local
  <2>tok. tok' \in [Procs -> Tokens \cup {None}]
    BY <1>13, <2>b, ForgetTypes DEF ReserveRefused, TypeOK, Return, local
  <2>kid. kid' \in [Procs -> Procs \cup {None}]
    BY <1>13, <2>b, ForgetTypes DEF ReserveRefused, TypeOK, Return, local
  <2>want. want' \in [Procs -> Row]
    BY <1>13, <2>b, ForgetTypes, RowTypes, RowTable DEF ReserveRefused, TypeOK, Return, local
  <2>via. via' \in [Procs -> {"none", "submit", "replace", "parked"}]
    BY <1>13, <2>b, ForgetTypes DEF ReserveRefused, TypeOK, Return, local
  <2>ok. TypeOK'
    BY <1>13, <2>pc, <2>at, <2>tok, <2>kid, <2>want, <2>via DEF ReserveRefused, TypeOK
  <2>pl. Placed'
    BY <1>13, <2>b DEF ReserveRefused, TypeOK, Placed, Goto, Return, local, Forget
  <2> QED BY <2>ok, <2>pl
<1>14. ASSUME NEW p \in Procs, RowRetiredBeforeReserve(p) PROVE TypeInv'
  <2>b. at[p] \in Jobs
    BY <1>14 DEF RowRetiredBeforeReserve, Placed
  <2>pc. pc' \in [Procs -> LaunchPcs \cup RunnerPcs \cup OtherPcs]
    BY <1>14, <2>b DEF RowRetiredBeforeReserve, TypeOK, Goto, LaunchPcs, RunnerPcs, OtherPcs
  <2>ok. TypeOK'
    BY <1>14, <2>pc DEF RowRetiredBeforeReserve, TypeOK
  <2>pl. Placed'
    BY <1>14, <2>b DEF RowRetiredBeforeReserve, TypeOK, Placed, Goto
  <2> QED BY <2>ok, <2>pl
<1>15. ASSUME NEW p \in Procs, ParkSaturated(p) PROVE TypeInv'
  <2>b. at[p] \in Jobs
    BY <1>15 DEF ParkSaturated, Placed
  <2>row. row' \in [Jobs -> Row]
    BY <1>15, <2>b, RowTypes, RowTable DEF ParkSaturated, TypeOK
  <2>pc. pc' \in [Procs -> LaunchPcs \cup RunnerPcs \cup OtherPcs]
    BY <1>15, <2>b DEF ParkSaturated, TypeOK, Goto, LaunchPcs, RunnerPcs, OtherPcs, Return
  <2>at. at' \in [Procs -> Jobs \cup {None}]
    BY <1>15, <2>b, ForgetTypes DEF ParkSaturated, TypeOK, Return
  <2>tok. tok' \in [Procs -> Tokens \cup {None}]
    BY <1>15, <2>b, ForgetTypes DEF ParkSaturated, TypeOK, Return
  <2>kid. kid' \in [Procs -> Procs \cup {None}]
    BY <1>15, <2>b, ForgetTypes DEF ParkSaturated, TypeOK, Return
  <2>want. want' \in [Procs -> Row]
    BY <1>15, <2>b, ForgetTypes, RowTypes, RowTable, <2>row DEF ParkSaturated, TypeOK, Return
  <2>via. via' \in [Procs -> {"none", "submit", "replace", "parked"}]
    BY <1>15, <2>b, ForgetTypes DEF ParkSaturated, TypeOK, Return
  <2>ok. TypeOK'
    BY <1>15, <2>row, <2>pc, <2>at, <2>tok, <2>kid, <2>want, <2>via DEF ParkSaturated, TypeOK
  <2>pl. Placed'
    BY <1>15, <2>b DEF ParkSaturated, TypeOK, Placed, Goto, Return, Forget
  <2> QED BY <2>ok, <2>pl
<1>16. ASSUME NEW p \in Procs, ReadExpected(p) PROVE TypeInv'
  <2>b. at[p] \in Jobs
    BY <1>16 DEF ReadExpected, Placed
  <2>pc. pc' \in [Procs -> LaunchPcs \cup RunnerPcs \cup OtherPcs]
    BY <1>16, <2>b DEF ReadExpected, TypeOK, Goto, LaunchPcs, RunnerPcs, OtherPcs
  <2>want0. want' = want \/ want' = [want EXCEPT ![p] = row[at[p]]]
    BY <1>16, <2>b DEF ReadExpected
  <2>want. want' \in [Procs -> Row]
    BY <2>want0, <2>b, RowTable DEF TypeOK
  <2>ok. TypeOK'
    BY <1>16, <2>pc, <2>want DEF ReadExpected, TypeOK
  <2>pl. Placed'
    BY <1>16, <2>b DEF ReadExpected, TypeOK, Placed, Goto
  <2> QED BY <2>ok, <2>pl
<1>17. ASSUME NEW p \in Procs, CheckPermit(p) PROVE TypeInv'
  <2>b. at[p] \in Jobs
    BY <1>17 DEF CheckPermit, Placed
  <2>row0. row' = row \/ row' = Released(p, at[p])
    BY <1>17, <2>b DEF CheckPermit
  <2>row. row' \in [Jobs -> Row]
    BY <2>row0, <2>b, ReleasedType DEF TypeOK
  <2>pc. pc' \in [Procs -> LaunchPcs \cup RunnerPcs \cup OtherPcs]
    BY <1>17, <2>b DEF CheckPermit, TypeOK, Goto, LaunchPcs, RunnerPcs, OtherPcs
  <2>ok. TypeOK'
    BY <1>17, <2>row, <2>pc DEF CheckPermit, TypeOK
  <2>pl. Placed'
    BY <1>17, <2>b DEF CheckPermit, TypeOK, Placed, Goto
  <2> QED BY <2>ok, <2>pl
<1>18. ASSUME NEW p \in Procs, HandoffTimeout(p) PROVE TypeInv'
  <2>b. at[p] \in Jobs
    BY <1>18 DEF HandoffTimeout, Placed
  <2>row0. row' = Released(p, at[p])
    BY <1>18, <2>b DEF HandoffTimeout
  <2>row. row' \in [Jobs -> Row]
    BY <2>row0, <2>b, ReleasedType DEF TypeOK
  <2>pc. pc' \in [Procs -> LaunchPcs \cup RunnerPcs \cup OtherPcs]
    BY <1>18, <2>b DEF HandoffTimeout, TypeOK, Goto, LaunchPcs, RunnerPcs, OtherPcs
  <2>ok. TypeOK'
    BY <1>18, <2>row, <2>pc DEF HandoffTimeout, TypeOK
  <2>pl. Placed'
    BY <1>18, <2>b DEF HandoffTimeout, TypeOK, Placed, Goto
  <2> QED BY <2>ok, <2>pl
<1>19. ASSUME NEW p \in Procs, NEW c \in Runners, Spawn(p, c) PROVE TypeInv'
  <2>c. c \in Procs
    BY DEF Procs
  <2>b. at[p] \in Jobs
    BY <1>19, <2>c DEF Spawn, Placed
  <2>pc. pc' \in [Procs -> LaunchPcs \cup RunnerPcs \cup OtherPcs]
    BY <1>19, <2>c, <2>b DEF Spawn, TypeOK, Goto, LaunchPcs, RunnerPcs, OtherPcs
  <2>at. at' \in [Procs -> Jobs \cup {None}]
    BY <1>19, <2>c, <2>b DEF Spawn, TypeOK
  <2>tok. tok' \in [Procs -> Tokens \cup {None}]
    BY <1>19, <2>c, <2>b DEF Spawn, TypeOK
  <2>kid. kid' \in [Procs -> Procs \cup {None}]
    BY <1>19, <2>c, <2>b DEF Spawn, TypeOK
  <2>ok. TypeOK'
    BY <1>19, <2>pc, <2>at, <2>tok, <2>kid DEF Spawn, TypeOK
  <2>pl. Placed'
    BY <1>19, <2>c, <2>b DEF Spawn, TypeOK, Placed, Goto
  <2> QED BY <2>ok, <2>pl
<1>20. ASSUME NEW p \in Procs, SpawnFails(p) PROVE TypeInv'
  <2>b. at[p] \in Jobs
    BY <1>20 DEF SpawnFails, Placed
  <2>row0. row' = Released(p, at[p])
    BY <1>20, <2>b DEF SpawnFails
  <2>row. row' \in [Jobs -> Row]
    BY <2>row0, <2>b, ReleasedType DEF TypeOK
  <2>pc. pc' \in [Procs -> LaunchPcs \cup RunnerPcs \cup OtherPcs]
    BY <1>20, <2>b DEF SpawnFails, TypeOK, Goto, LaunchPcs, RunnerPcs, OtherPcs
  <2>faults. faults' \in 0..MaxFaults
    BY <1>20, <2>b DEF SpawnFails, TypeOK
  <2>ok. TypeOK'
    BY <1>20, <2>row, <2>pc, <2>faults DEF SpawnFails, TypeOK
  <2>pl. Placed'
    BY <1>20, <2>b DEF SpawnFails, TypeOK, Placed, Goto
  <2> QED BY <2>ok, <2>pl
<1>21. ASSUME NEW p \in Procs, BindChild(p) PROVE TypeInv'
  <2>b. at[p] \in Jobs
    BY <1>21 DEF BindChild, Placed
  <2>row0. row' = row \/ row' = [row EXCEPT ![at[p]] = [row[at[p]] EXCEPT !.res.child = kid[p]]]
    BY <1>21, <2>b DEF BindChild
  <2>row. row' \in [Jobs -> Row]
    BY <2>row0, <2>b, RowTable, ChildEdit DEF TypeOK
  <2>pc. pc' \in [Procs -> LaunchPcs \cup RunnerPcs \cup OtherPcs]
    BY <1>21, <2>b DEF BindChild, TypeOK, Goto, LaunchPcs, RunnerPcs, OtherPcs
  <2>want0. want' = want \/ want' = [want EXCEPT ![p] = [want[p] EXCEPT !.res.child = kid[p]]]
    BY <1>21, <2>b DEF BindChild
  <2>want. want' \in [Procs -> Row]
    BY <2>want0, <2>b, ChildEdit DEF TypeOK
  <2>ok. TypeOK'
    BY <1>21, <2>row, <2>pc, <2>want DEF BindChild, TypeOK
  <2>pl. Placed'
    BY <1>21, <2>b DEF BindChild, TypeOK, Placed, Goto
  <2> QED BY <2>ok, <2>pl
<1>22. ASSUME NEW p \in Procs, FenceHandoff(p) PROVE TypeInv'
  <2>b. at[p] \in Jobs
    BY <1>22 DEF FenceHandoff, Placed
  <2>log0. log' = log \/ log' = [log EXCEPT ![at[p]].holder = p]
    BY <1>22, <2>b DEF FenceHandoff
  <2>log. log' \in [Jobs -> Log]
    BY <2>log0, <2>b DEF TypeOK, Log
  <2>pc. pc' \in [Procs -> LaunchPcs \cup RunnerPcs \cup OtherPcs]
    BY <1>22, <2>b DEF FenceHandoff, TypeOK, Goto, LaunchPcs, RunnerPcs, OtherPcs
  <2>ok. TypeOK'
    BY <1>22, <2>log, <2>pc DEF FenceHandoff, TypeOK
  <2>pl. Placed'
    BY <1>22, <2>b DEF FenceHandoff, TypeOK, Placed, Goto
  <2> QED BY <2>ok, <2>pl
<1>23. ASSUME NEW p \in Procs, NEW w \in 1..3, CompleteSpawn(p, w) PROVE TypeInv'
  <2>b. at[p] \in Jobs
    BY <1>23 DEF CompleteSpawn, Placed
  <2> DEFINE r == row[at[p]]
              adopted == [r EXCEPT !.owner = kid[p],
                            !.res = IF @ = NoRes THEN @ ELSE [@ EXCEPT !.child = kid[p]]]
  <2>row0. \/ row' = row
           \/ row' = [row EXCEPT ![at[p]] = adopted]
           \/ row' = [row EXCEPT ![at[p]] = [adopted EXCEPT !.res = NoRes]]
    BY <1>23 DEF CompleteSpawn
  <2>row1. r \in Row /\ r.res \in Reservation /\ kid[p] \in Procs \cup {None}
    BY <2>b DEF TypeOK, Row
  <2>row2. [r.res EXCEPT !.child = kid[p]] \in Reservation
    BY <2>row1 DEF Reservation
  <2>row3. adopted \in Row
    BY <2>row1, <2>row2 DEF Row
  <2>row4. [adopted EXCEPT !.res = NoRes] \in Row
    BY <2>row3, RowTypes DEF Row
  <2>row. row' \in [Jobs -> Row]
    BY <2>b, <2>row0, <2>row3, <2>row4 DEF TypeOK
  <2>runner. runner' \in [Jobs -> Procs \cup {None}]
    BY <1>23, <2>b DEF CompleteSpawn, TypeOK
  <2>log. log' \in [Jobs -> Log]
    BY <1>23, <2>b, LogEdits, UnlockedType DEF CompleteSpawn, TypeOK
  <2>pc. pc' \in [Procs -> LaunchPcs \cup RunnerPcs \cup OtherPcs]
    BY <1>23, <2>b DEF CompleteSpawn, TypeOK, Goto, LaunchPcs, RunnerPcs, OtherPcs, Return
  <2>at. at' \in [Procs -> Jobs \cup {None}]
    BY <1>23, <2>b, ForgetTypes DEF CompleteSpawn, TypeOK, Return
  <2>tok. tok' \in [Procs -> Tokens \cup {None}]
    BY <1>23, <2>b, ForgetTypes DEF CompleteSpawn, TypeOK, Return
  <2>kid. kid' \in [Procs -> Procs \cup {None}]
    BY <1>23, <2>b, ForgetTypes DEF CompleteSpawn, TypeOK, Return
  <2>want. want' \in [Procs -> Row]
    BY <1>23, <2>b, ForgetTypes, RowTypes, RowTable, <2>row DEF CompleteSpawn, TypeOK, Return
  <2>via. via' \in [Procs -> {"none", "submit", "replace", "parked"}]
    BY <1>23, <2>b, ForgetTypes DEF CompleteSpawn, TypeOK, Return
  <2>faults. faults' \in 0..MaxFaults
    BY <1>23, <2>b DEF CompleteSpawn, TypeOK
  <2>ok. TypeOK'
    BY <1>23, <2>row, <2>runner, <2>log, <2>pc, <2>at, <2>tok, <2>kid, <2>want, <2>via, <2>faults DEF CompleteSpawn, TypeOK
  <2>pl. Placed'
    BY <1>23, <2>b DEF CompleteSpawn, TypeOK, Placed, Goto, Return, Forget
  <2> QED BY <2>ok, <2>pl
<1>24. ASSUME NEW p \in Procs, StartFailed(p) PROVE TypeInv'
  <2>b. at[p] \in Jobs
    BY <1>24 DEF StartFailed, Placed
  <2>row0. row' = row \/ row' = [row EXCEPT ![at[p]].cancel = TRUE]
    BY <1>24, <2>b DEF StartFailed
  <2>row. row' \in [Jobs -> Row]
    BY <2>row0, <2>b, CancelEdit DEF TypeOK
  <2>ret. (UNCHANGED <<turn, log>> /\ Return(p)) \/ BeginRetire(p, at[p], row'[at[p]])
    BY <1>24, <2>b DEF StartFailed
  <2>turn. turn' \in [Jobs -> {"new", "open", "closed"}]
    BY <2>ret, <2>b, BeginRetireTypes, RowTable, ForgetTypes, <2>row DEF TypeOK, Return
  <2>log. log' \in [Jobs -> Log]
    BY <2>ret, <2>b, BeginRetireTypes, RowTable, ForgetTypes, <2>row DEF TypeOK, Return
  <2>pc. pc' \in [Procs -> LaunchPcs \cup RunnerPcs \cup OtherPcs]
    BY <1>24, <2>b DEF StartFailed, TypeOK, Goto, LaunchPcs, RunnerPcs, OtherPcs, Return, BeginRetire
  <2>at. at' \in [Procs -> Jobs \cup {None}]
    BY <2>ret, <2>b, BeginRetireTypes, RowTable, ForgetTypes, <2>row DEF TypeOK, Return
  <2>tok. tok' \in [Procs -> Tokens \cup {None}]
    BY <1>24, <2>b, ForgetTypes DEF StartFailed, TypeOK, BeginRetire, Return
  <2>kid. kid' \in [Procs -> Procs \cup {None}]
    BY <1>24, <2>b, ForgetTypes DEF StartFailed, TypeOK, BeginRetire, Return
  <2>want. want' \in [Procs -> Row]
    BY <2>ret, <2>b, BeginRetireTypes, RowTable, ForgetTypes, <2>row DEF TypeOK, Return
  <2>via. via' \in [Procs -> {"none", "submit", "replace", "parked"}]
    BY <1>24, <2>b, ForgetTypes DEF StartFailed, TypeOK, BeginRetire, Return
  <2>ok. TypeOK'
    BY <1>24, <2>row, <2>ret, <2>turn, <2>log, <2>pc, <2>at, <2>tok, <2>kid, <2>want, <2>via DEF StartFailed, TypeOK
  <2>pl. Placed'
    BY <1>24, <2>b DEF StartFailed, TypeOK, Placed, Goto, BeginRetire, Return, Forget
  <2> QED BY <2>ok, <2>pl
<1>25. ASSUME NEW c \in Runners, NEW seen \in SUBSET Dead, TakeOver(c, seen) PROVE TypeInv'
  <2>a. c \in Procs
    BY DEF Procs
  <2>b. at[c] \in Jobs
    BY <1>25, <2>a DEF TakeOver, Placed
  <2>row0. row' = row \/ row' = [row EXCEPT ![at[c]].owner = c]
    BY <1>25, <2>a, <2>b DEF TakeOver
  <2>row1. [row EXCEPT ![at[c]].owner = c] \in [Jobs -> Row]
    BY <2>a, <2>b, OwnerEdit DEF TypeOK
  <2>row. row' \in [Jobs -> Row]
    BY <2>row0, <2>row1 DEF TypeOK
  <2>pc. pc' \in [Procs -> LaunchPcs \cup RunnerPcs \cup OtherPcs]
    BY <1>25, <2>a, <2>b DEF TakeOver, TypeOK, Goto, LaunchPcs, RunnerPcs, OtherPcs
  <2>ok. TypeOK'
    BY <1>25, <2>row, <2>pc DEF TakeOver, TypeOK, Quiet
  <2>pl. Placed'
    BY <1>25, <2>a, <2>b DEF TakeOver, TypeOK, Placed, Goto
  <2> QED BY <2>ok, <2>pl
<1>26. ASSUME NEW c \in Runners, NEW seen \in SUBSET Dead, AdoptionTimeout(c, seen) PROVE TypeInv'
  <2>a. c \in Procs
    BY DEF Procs
  <2>b. at[c] \in Jobs
    BY <1>26, <2>a DEF AdoptionTimeout, Placed
  <2>pc. pc' \in [Procs -> LaunchPcs \cup RunnerPcs \cup OtherPcs]
    BY <1>26, <2>a, <2>b DEF AdoptionTimeout, TypeOK, Goto, LaunchPcs, RunnerPcs, OtherPcs
  <2>faults. faults' \in 0..MaxFaults
    BY <1>26, <2>a, <2>b DEF AdoptionTimeout, TypeOK
  <2>ok. TypeOK'
    BY <1>26, <2>pc, <2>faults DEF AdoptionTimeout, TypeOK
  <2>pl. Placed'
    BY <1>26, <2>a, <2>b DEF AdoptionTimeout, TypeOK, Placed, Goto
  <2> QED BY <2>ok, <2>pl
<1>27. ASSUME NEW c \in Runners, InspectOwned(c) PROVE TypeInv'
  <2>a. c \in Procs
    BY DEF Procs
  <2>b. at[c] \in Jobs
    BY <1>27, <2>a DEF InspectOwned, Placed
  <2>row0. row' = row \/ \E st \in {"waiting", "dispatching"} : row' = [row EXCEPT ![at[c]].st = st]
    BY <1>27, <2>a, <2>b DEF InspectOwned, BeginRetire
  <2>row1. \A st \in {"waiting", "dispatching"} : [row EXCEPT ![at[c]].st = st] \in [Jobs -> Row]
    BY <2>a, <2>b, StateEdit DEF TypeOK
  <2>row. row' \in [Jobs -> Row]
    BY <2>row0, <2>row1 DEF TypeOK
  <2>ret. UNCHANGED <<turn, log, at, want>> \/ BeginRetire(c, at[c], row[at[c]])
    BY <1>27, <2>a, <2>b DEF InspectOwned
  <2>turn. turn' \in [Jobs -> {"new", "open", "closed"}]
    BY <2>ret, <2>a, <2>b, BeginRetireTypes, RowTable, ForgetTypes, <2>row DEF TypeOK, Return
  <2>log. log' \in [Jobs -> Log]
    BY <2>ret, <2>a, <2>b, BeginRetireTypes, RowTable, ForgetTypes, <2>row DEF TypeOK, Return
  <2>pc. pc' \in [Procs -> LaunchPcs \cup RunnerPcs \cup OtherPcs]
    BY <1>27, <2>a, <2>b DEF InspectOwned, TypeOK, Goto, LaunchPcs, RunnerPcs, OtherPcs, BeginRetire
  <2>at. at' \in [Procs -> Jobs \cup {None}]
    BY <2>ret, <2>a, <2>b, BeginRetireTypes, RowTable, ForgetTypes, <2>row DEF TypeOK, Return
  <2>want. want' \in [Procs -> Row]
    BY <2>ret, <2>a, <2>b, BeginRetireTypes, RowTable, ForgetTypes, <2>row DEF TypeOK, Return
  <2>ok. TypeOK'
    BY <1>27, <2>row, <2>ret, <2>turn, <2>log, <2>pc, <2>at, <2>want DEF InspectOwned, TypeOK, Quiet
  <2>pl. Placed'
    BY <1>27, <2>a, <2>b DEF InspectOwned, TypeOK, Placed, Goto, BeginRetire
  <2> QED BY <2>ok, <2>pl
<1>28. ASSUME NEW c \in Runners, InspectForeign(c) PROVE TypeInv'
  <2>a. c \in Procs
    BY DEF Procs
  <2>b. at[c] \in Jobs
    BY <1>28, <2>a DEF InspectForeign, Placed
  <2>ret. UNCHANGED <<turn, log, at, want>> \/ BeginRetire(c, at[c], row[at[c]])
    BY <1>28, <2>a, <2>b DEF InspectForeign
  <2>turn. turn' \in [Jobs -> {"new", "open", "closed"}]
    BY <2>ret, <2>a, <2>b, BeginRetireTypes, RowTable, ForgetTypes DEF TypeOK, Return
  <2>log. log' \in [Jobs -> Log]
    BY <2>ret, <2>a, <2>b, BeginRetireTypes, RowTable, ForgetTypes DEF TypeOK, Return
  <2>pc. pc' \in [Procs -> LaunchPcs \cup RunnerPcs \cup OtherPcs]
    BY <1>28, <2>a, <2>b DEF InspectForeign, TypeOK, Goto, LaunchPcs, RunnerPcs, OtherPcs, BeginRetire
  <2>at. at' \in [Procs -> Jobs \cup {None}]
    BY <2>ret, <2>a, <2>b, BeginRetireTypes, RowTable, ForgetTypes DEF TypeOK, Return
  <2>want. want' \in [Procs -> Row]
    BY <2>ret, <2>a, <2>b, BeginRetireTypes, RowTable, ForgetTypes DEF TypeOK, Return
  <2>ok. TypeOK'
    BY <1>28, <2>ret, <2>turn, <2>log, <2>pc, <2>at, <2>want DEF InspectForeign, TypeOK, Quiet
  <2>pl. Placed'
    BY <1>28, <2>a, <2>b DEF InspectForeign, TypeOK, Placed, Goto, BeginRetire
  <2> QED BY <2>ok, <2>pl
<1>29. ASSUME NEW c \in Runners, Claim(c) PROVE TypeInv'
  <2>a. c \in Procs
    BY DEF Procs
  <2>b. at[c] \in Jobs
    BY <1>29, <2>a DEF Claim, Placed
  <2>row0. row' = row \/ \E st \in {"waiting", "dispatching"} : row' = [row EXCEPT ![at[c]].st = st]
    BY <1>29, <2>a, <2>b DEF Claim
  <2>row1. \A st \in {"waiting", "dispatching"} : [row EXCEPT ![at[c]].st = st] \in [Jobs -> Row]
    BY <2>a, <2>b, StateEdit DEF TypeOK
  <2>row. row' \in [Jobs -> Row]
    BY <2>row0, <2>row1 DEF TypeOK
  <2>pc. pc' \in [Procs -> LaunchPcs \cup RunnerPcs \cup OtherPcs]
    BY <1>29, <2>a, <2>b DEF Claim, TypeOK, Goto, LaunchPcs, RunnerPcs, OtherPcs
  <2>ok. TypeOK'
    BY <1>29, <2>row, <2>pc DEF Claim, TypeOK, Quiet
  <2>pl. Placed'
    BY <1>29, <2>a, <2>b DEF Claim, TypeOK, Placed, Goto
  <2> QED BY <2>ok, <2>pl
<1>30. ASSUME NEW c \in Runners, ClaimBlocked(c) PROVE TypeInv'
  <2>a. c \in Procs
    BY DEF Procs
  <2>b. at[c] \in Jobs
    BY <1>30, <2>a DEF ClaimBlocked, Placed
  <2>ret. UNCHANGED <<turn, log, at, want>> \/ BeginRetire(c, at[c], row[at[c]])
    BY <1>30, <2>a, <2>b DEF ClaimBlocked
  <2>turn. turn' \in [Jobs -> {"new", "open", "closed"}]
    BY <2>ret, <2>a, <2>b, BeginRetireTypes, RowTable, ForgetTypes DEF TypeOK, Return
  <2>log. log' \in [Jobs -> Log]
    BY <2>ret, <2>a, <2>b, BeginRetireTypes, RowTable, ForgetTypes DEF TypeOK, Return
  <2>pc. pc' \in [Procs -> LaunchPcs \cup RunnerPcs \cup OtherPcs]
    BY <1>30, <2>a, <2>b DEF ClaimBlocked, TypeOK, Goto, LaunchPcs, RunnerPcs, OtherPcs, BeginRetire
  <2>at. at' \in [Procs -> Jobs \cup {None}]
    BY <2>ret, <2>a, <2>b, BeginRetireTypes, RowTable, ForgetTypes DEF TypeOK, Return
  <2>want. want' \in [Procs -> Row]
    BY <2>ret, <2>a, <2>b, BeginRetireTypes, RowTable, ForgetTypes DEF TypeOK, Return
  <2>ok. TypeOK'
    BY <1>30, <2>ret, <2>turn, <2>log, <2>pc, <2>at, <2>want DEF ClaimBlocked, TypeOK, Quiet
  <2>pl. Placed'
    BY <1>30, <2>a, <2>b DEF ClaimBlocked, TypeOK, Placed, Goto, BeginRetire
  <2> QED BY <2>ok, <2>pl
<1>31. ASSUME NEW c \in Runners, OpenJournal(c) PROVE TypeInv'
  <2>a. c \in Procs
    BY DEF Procs
  <2>b. at[c] \in Jobs
    BY <1>31, <2>a DEF OpenJournal, Placed
  <2>turn. turn' \in [Jobs -> {"new", "open", "closed"}]
    BY <1>31, <2>a, <2>b DEF OpenJournal, TypeOK, BeginRetire
  <2>log0. log' = [log EXCEPT ![at[c]].holder = c] \/ BeginRetire(c, at[c], row[at[c]]) \/ log' = log
    BY <1>31 DEF OpenJournal
  <2>log1. [log EXCEPT ![at[c]].holder = c] \in [Jobs -> Log]
    BY <2>a, <2>b, LogEdits DEF TypeOK
  <2>log2. row[at[c]] \in Row
    BY <2>b DEF TypeOK
  <2>log. log' \in [Jobs -> Log]
    BY <2>a, <2>b, <2>log0, <2>log1, <2>log2, BeginRetireTypes DEF TypeOK
  <2>pc. pc' \in [Procs -> LaunchPcs \cup RunnerPcs \cup OtherPcs]
    BY <1>31, <2>a, <2>b DEF OpenJournal, TypeOK, Goto, LaunchPcs, RunnerPcs, OtherPcs, BeginRetire
  <2>at. at' \in [Procs -> Jobs \cup {None}]
    BY <1>31, <2>a, <2>b DEF OpenJournal, TypeOK, BeginRetire
  <2>want. want' \in [Procs -> Row]
    BY <1>31, <2>a, <2>b, RowTypes, RowTable DEF OpenJournal, TypeOK, BeginRetire
  <2>ok. TypeOK'
    BY <1>31, <2>turn, <2>log, <2>pc, <2>at, <2>want DEF OpenJournal, TypeOK, Quiet
  <2>pl. Placed'
    BY <1>31, <2>a, <2>b DEF OpenJournal, TypeOK, Placed, Goto, BeginRetire
  <2> QED BY <2>ok, <2>pl
<1>32. ASSUME NEW c \in Runners, Accept(c) PROVE TypeInv'
  <2>a. c \in Procs
    BY DEF Procs
  <2>b. at[c] \in Jobs
    BY <1>32, <2>a DEF Accept, Placed
  <2>log. log' \in [Jobs -> Log]
    BY <1>32, <2>a, <2>b, LogEdits, UnlockedType DEF Accept, TypeOK
  <2>ok. TypeOK'
    BY <1>32, <2>log DEF Accept, TypeOK, Quiet
  <2>pl. Placed'
    BY <1>32, <2>a, <2>b DEF Accept, TypeOK, Placed, Goto
  <2> QED BY <2>ok, <2>pl
<1>33. ASSUME NEW c \in Runners, Finish(c) PROVE TypeInv'
  <2>a. c \in Procs
    BY DEF Procs
  <2>b. at[c] \in Jobs
    BY <1>33, <2>a DEF Finish, Placed
  <2>turn. turn' \in [Jobs -> {"new", "open", "closed"}]
    BY <1>33, <2>a, <2>b DEF Finish, TypeOK
  <2>log. log' \in [Jobs -> Log]
    BY <1>33, <2>a, <2>b, LogEdits, UnlockedType DEF Finish, TypeOK
  <2>pc. pc' \in [Procs -> LaunchPcs \cup RunnerPcs \cup OtherPcs]
    BY <1>33, <2>a, <2>b DEF Finish, TypeOK, Goto, LaunchPcs, RunnerPcs, OtherPcs
  <2>want. want' \in [Procs -> Row]
    BY <1>33, <2>a, <2>b, RowTypes, RowTable DEF Finish, TypeOK, Row, NoRow, NoRes, Reservation
  <2>ok. TypeOK'
    BY <1>33, <2>turn, <2>log, <2>pc, <2>want DEF Finish, TypeOK, Quiet
  <2>pl. Placed'
    BY <1>33, <2>a, <2>b DEF Finish, TypeOK, Placed, Goto
  <2> QED BY <2>ok, <2>pl
<1>34. ASSUME NEW c \in Runners, RunError(c) PROVE TypeInv'
  <2>a. c \in Procs
    BY DEF Procs
  <2>log. log' \in [Jobs -> Log]
    BY <1>34, <2>a, LogEdits, UnlockedType DEF RunError, TypeOK
  <2>pc. pc' \in [Procs -> LaunchPcs \cup RunnerPcs \cup OtherPcs]
    BY <1>34, <2>a DEF RunError, TypeOK, Goto, LaunchPcs, RunnerPcs, OtherPcs
  <2>faults. faults' \in 0..MaxFaults
    BY <1>34, <2>a DEF RunError, TypeOK
  <2>ok. TypeOK'
    BY <1>34, <2>log, <2>pc, <2>faults DEF RunError, TypeOK
  <2>pl. Placed'
    BY <1>34, <2>a DEF RunError, TypeOK, Placed, Goto
  <2> QED BY <2>ok, <2>pl
<1>35. ASSUME NEW c \in Runners, ErrorCleanup(c) PROVE TypeInv'
  <2>a. c \in Procs
    BY DEF Procs
  <2>b. at[c] \in Jobs
    BY <1>35, <2>a DEF ErrorCleanup, Placed
  <2>row0. row' = row \/ \E st \in {"waiting", "dispatching"} : row' = [row EXCEPT ![at[c]].st = st]
    BY <1>35, <2>a, <2>b DEF ErrorCleanup
  <2>row1. \A st \in {"waiting", "dispatching"} : [row EXCEPT ![at[c]].st = st] \in [Jobs -> Row]
    BY <2>a, <2>b, StateEdit DEF TypeOK
  <2>row. row' \in [Jobs -> Row]
    BY <2>row0, <2>row1 DEF TypeOK
  <2>runner. runner' \in [Jobs -> Procs \cup {None}]
    BY <1>35, <2>a, <2>b DEF ErrorCleanup, TypeOK
  <2>pc. pc' \in [Procs -> LaunchPcs \cup RunnerPcs \cup OtherPcs]
    BY <1>35, <2>a, <2>b DEF ErrorCleanup, TypeOK, Goto, LaunchPcs, RunnerPcs, OtherPcs
  <2>ok. TypeOK'
    BY <1>35, <2>row, <2>runner, <2>pc DEF ErrorCleanup, TypeOK, Quiet
  <2>pl. Placed'
    BY <1>35, <2>a, <2>b DEF ErrorCleanup, TypeOK, Placed, Goto
  <2> QED BY <2>ok, <2>pl
<1>36. ASSUME NEW c \in Runners, ExitRunner(c) PROVE TypeInv'
  <2>a. c \in Procs
    BY DEF Procs
  <2>b. at[c] \in Jobs
    BY <1>36, <2>a DEF ExitRunner, Placed
  <2>row2. \A n \in {1, row[at[c]].fails + 1} : Streak(n) \in 0..ParkAfter
    BY <2>b DEF TypeOK, Row, Streak
  <2>row0. row' = row \/ \E n \in {1, row[at[c]].fails + 1} : row' = [row EXCEPT ![at[c]].fails = Streak(n)]
    BY <1>36 DEF ExitRunner
  <2>row1. \A n \in 0..ParkAfter : [row EXCEPT ![at[c]].fails = n] \in [Jobs -> Row]
    BY <2>b, FailsEdit DEF TypeOK
  <2>row. row' \in [Jobs -> Row]
    BY <2>row0, <2>row1, <2>row2 DEF TypeOK
  <2>log0. log' = log \/ log' = [log EXCEPT ![at[c]].used = TRUE, ![at[c]].late = @ \/ log[at[c]].used]
    BY <1>36 DEF ExitRunner
  <2>log1. [log EXCEPT ![at[c]].used = TRUE, ![at[c]].late = @ \/ log[at[c]].used] \in [Jobs -> Log]
    <3>1. log \in [Jobs -> Log] /\ log[at[c]] \in Log
      BY <2>b DEF TypeOK
    <3>2. (log[at[c]].late \/ log[at[c]].used) \in BOOLEAN
      OBVIOUS
    <3>3. [log[at[c]] EXCEPT !.used = TRUE, !.late = log[at[c]].late \/ log[at[c]].used] \in Log
      BY <3>1, <3>2 DEF Log
    <3> QED BY <2>b, <3>1, <3>3
  <2>log. log' \in [Jobs -> Log]
    BY <2>log0, <2>log1 DEF TypeOK
  <2>pc. pc' \in [Procs -> LaunchPcs \cup RunnerPcs \cup OtherPcs]
    BY <1>36, <2>a, <2>b DEF ExitRunner, TypeOK, Goto, LaunchPcs, RunnerPcs, OtherPcs
  <2>at. at' \in [Procs -> Jobs \cup {None}]
    BY <1>36, <2>a, <2>b, ForgetTypes DEF ExitRunner, TypeOK
  <2>tok. tok' \in [Procs -> Tokens \cup {None}]
    BY <1>36, <2>a, <2>b, ForgetTypes DEF ExitRunner, TypeOK
  <2>kid. kid' \in [Procs -> Procs \cup {None}]
    BY <1>36, <2>a, <2>b, ForgetTypes DEF ExitRunner, TypeOK
  <2>want. want' \in [Procs -> Row]
    BY <1>36, <2>a, <2>b, ForgetTypes, RowTypes, RowTable, <2>row DEF ExitRunner, TypeOK
  <2>via. via' \in [Procs -> {"none", "submit", "replace", "parked"}]
    BY <1>36, <2>a, <2>b, ForgetTypes DEF ExitRunner, TypeOK
  <2>faults. faults' \in 0..MaxFaults
    BY <1>36 DEF ExitRunner, TypeOK
  <2>ok. TypeOK'
    BY <1>36, <2>row, <2>log, <2>pc, <2>at, <2>tok, <2>kid, <2>want, <2>via, <2>faults DEF ExitRunner, TypeOK
  <2>pl. Placed'
    BY <1>36, <2>a, <2>b DEF ExitRunner, TypeOK, Placed, Goto, Forget
  <2> QED BY <2>ok, <2>pl
<1>37. ASSUME NEW p \in Procs, Crash(p) PROVE TypeInv'
  <2>log. log' \in [Jobs -> Log]
    BY <1>37, LogEdits, UnlockedType DEF Crash, TypeOK
  <2>pc. pc' \in [Procs -> LaunchPcs \cup RunnerPcs \cup OtherPcs]
    BY <1>37 DEF Crash, TypeOK, Goto, LaunchPcs, RunnerPcs, OtherPcs
  <2>at. at' \in [Procs -> Jobs \cup {None}]
    BY <1>37, ForgetTypes DEF Crash, TypeOK
  <2>tok. tok' \in [Procs -> Tokens \cup {None}]
    BY <1>37, ForgetTypes DEF Crash, TypeOK
  <2>kid. kid' \in [Procs -> Procs \cup {None}]
    BY <1>37, ForgetTypes DEF Crash, TypeOK
  <2>want. want' \in [Procs -> Row]
    BY <1>37, ForgetTypes, RowTypes, RowTable DEF Crash, TypeOK
  <2>via. via' \in [Procs -> {"none", "submit", "replace", "parked"}]
    BY <1>37, ForgetTypes DEF Crash, TypeOK
  <2>faults. faults' \in 0..MaxFaults
    BY <1>37 DEF Crash, TypeOK
  <2>ok. TypeOK'
    BY <1>37, <2>log, <2>pc, <2>at, <2>tok, <2>kid, <2>want, <2>via, <2>faults DEF Crash, TypeOK
  <2>pl. Placed'
    BY <1>37 DEF Crash, TypeOK, Placed, Goto, Forget
  <2> QED BY <2>ok, <2>pl
<1>38. ASSUME NEW p \in Launchers, NEW j \in Jobs, NEW seen \in SUBSET Dead, ObserveFailure(p, j, seen) PROVE TypeInv'
  <2>a. p \in Procs
    BY DEF Procs
  <2>row0. row' = [row EXCEPT ![j].fails = 1] /\ 1 \in 0..ParkAfter
    BY <1>38 DEF ObserveFailure
  <2>row. row' \in [Jobs -> Row]
    BY <2>row0, FailsEdit DEF TypeOK
  <2>ok. TypeOK'
    BY <1>38, <2>row DEF ObserveFailure, TypeOK
  <2>pl. Placed'
    BY <1>38, <2>a DEF ObserveFailure, TypeOK, Placed
  <2> QED BY <2>ok, <2>pl
<1>90. CASE UNCHANGED vars
  BY <1>90 DEF vars, TypeOK, Placed
<1> QED
  BY <1>1, <1>2, <1>3, <1>4, <1>5, <1>6, <1>7, <1>8, <1>9, <1>10, <1>11, <1>12, <1>13, <1>14, <1>15, <1>16, <1>17, <1>18, <1>19, <1>20,
     <1>21, <1>22, <1>23, <1>24, <1>25, <1>26, <1>27, <1>28, <1>29, <1>30, <1>31, <1>32, <1>33, <1>34, <1>35, <1>36, <1>37, <1>38, <1>90
 
 
 
 
 
  DEF Next, Launch, Run, Reconcile, Command

-----------------------------------------------------------------------------
(* One runner per turn *)

\* Where a process has reserved a permit, and where its child has been spawned.
Reserving == {"acquired", "ready", "permit"}
Handing   == {"spawned", "bound", "fenced"}

\* A row without an owner is not runnable; the enqueuer is never a runner; a
\* reservation has a token.
RowShape ==
    \A j \in Jobs : /\ row[j].st \in {"absent", "parked"} => row[j].owner = None
                    /\ row[j].enq \notin Runners
                    /\ row[j].res # NoRes => row[j].res.tok # None

CarriesToken ==
    \A p \in Procs : /\ pc[p] \in Working => p \in Runners
                     /\ pc[p] \in Working \cup Reserving \cup Handing => tok[p] # None

\* A token is known to its reserver and to the one child spawned with it.
TokensApart ==
    \A p, q \in Procs : p # q /\ tok[p] = tok[q] =>
        /\ ~(pc[p] \in Working /\ pc[q] \in Working)
        /\ ~(pc[p] \in Reserving \cup Handing /\ pc[q] \in Reserving \cup Handing)
        /\ ~(pc[p] \in Reserving /\ pc[q] \in Working)
        /\ pc[p] \in Handing /\ pc[q] \in Working => kid[p] = q

\* A working runner that owns a row carries the row's token, if there is one
\* that some working runner carries.
OwnerCarriesToken ==
    \A j \in Jobs, c, d \in Procs :
        pc[c] \in Working /\ pc[d] \in Working /\ row[j].owner = c /\ row[j].res.tok = tok[d]
            => c = d

\* As long as the permit's child is not spawned, no working runner owns the row.
ReserverAlone ==
    \A j \in Jobs, p, c \in Procs :
        pc[p] \in Reserving /\ row[j].res.tok = tok[p] /\ row[j].owner = c
            => pc[c] \notin Working

TokenInv == RowShape /\ CarriesToken /\ TokensApart /\ OwnerCarriesToken /\ ReserverAlone

\* A step of p that hands nobody a token, a row or work: what it does to the
\* processes, and what it does to the rows.
CalmProcs(p) ==
    /\ \A q \in Procs \ {p} : pc'[q] = pc[q] /\ tok'[q] = tok[q] /\ kid'[q] = kid[q]
    /\ pc'[p] \in Working => pc[p] \in Working /\ tok'[p] = tok[p]
    /\ pc'[p] \in Reserving => pc[p] \in Reserving /\ tok'[p] = tok[p]
    /\ pc'[p] \in Handing => pc[p] \in Handing /\ tok'[p] = tok[p] /\ kid'[p] = kid[p]

CalmRow(r, s) ==
    /\ s.res.tok \in {r.res.tok, None}
    /\ s.owner \in {r.owner, None} \/ (s.owner \in Procs /\ pc'[s.owner] \notin Working)
    /\ s.st \in {"absent", "parked"} => s.owner = None
    /\ s.enq \notin Runners
    /\ s.res # NoRes => s.res.tok # None

CalmRows == \A j \in Jobs : CalmRow(row[j], row'[j])

LEMMA CalmKeepsTokenInv ==
    ASSUME TypeInv, TokenInv, NEW p \in Procs, CalmProcs(p), CalmRows
    PROVE  TokenInv'
<1>0. None \notin Procs
  BY ConstantsAssumption DEF ConstantsAssumption
<1>1. RowShape'
  BY DEF CalmRows, CalmRow, RowShape
<1>2. CarriesToken'
  BY DEF TokenInv, CalmProcs, CarriesToken, Working, Reserving, Handing
<1>3. TokensApart'
  BY DEF TokenInv, CalmProcs, TokensApart, Working, Reserving, Handing
<1>a. \A q \in Procs : /\ pc'[q] \in Working => pc[q] \in Working /\ tok'[q] = tok[q]
                       /\ pc'[q] \in Reserving => pc[q] \in Reserving /\ tok'[q] = tok[q]
  BY DEF CalmProcs
<1>b. \A q \in Procs : /\ pc'[q] \in Working => tok'[q] # None
                       /\ pc'[q] \in Reserving => tok'[q] # None
  BY <1>2 DEF CarriesToken
<1>c. \A j \in Jobs : /\ row'[j].res.tok \in {row[j].res.tok, None}
                      /\ row'[j].owner \in Procs /\ pc'[row'[j].owner] \in Working
                           => row'[j].owner = row[j].owner
  BY <1>0 DEF CalmRows, CalmRow
<1>4. OwnerCarriesToken'
  <2> SUFFICES ASSUME NEW j \in Jobs, NEW c \in Procs, NEW d \in Procs,
                      pc'[c] \in Working, pc'[d] \in Working,
                      row'[j].owner = c, row'[j].res.tok = tok'[d]
               PROVE  c = d
    BY DEF OwnerCarriesToken
  <2>1. pc[c] \in Working /\ pc[d] \in Working /\ tok'[d] = tok[d] /\ tok'[d] # None
    BY <1>a, <1>b
  <2>2. row[j].owner = c /\ row[j].res.tok = tok[d]
    BY <1>c, <2>1
  <2> QED BY <2>1, <2>2 DEF TokenInv, OwnerCarriesToken
<1>5. ReserverAlone'
  <2> SUFFICES ASSUME NEW j \in Jobs, NEW q \in Procs, NEW c \in Procs,
                      pc'[q] \in Reserving, row'[j].res.tok = tok'[q],
                      row'[j].owner = c, pc'[c] \in Working
               PROVE  FALSE
    BY DEF ReserverAlone
  <2>1. pc[q] \in Reserving /\ pc[c] \in Working /\ tok'[q] = tok[q] /\ tok'[q] # None
    BY <1>a, <1>b
  <2>2. row[j].owner = c /\ row[j].res.tok = tok[q]
    BY <1>c, <2>1
  <2> QED BY <2>1, <2>2 DEF TokenInv, ReserverAlone
<1> QED BY <1>1, <1>2, <1>3, <1>4, <1>5 DEF TokenInv

\* A step that edits one row, or none.
LEMMA SameRowsCalm ==
    ASSUME TypeInv, TokenInv, row' = row
    PROVE  CalmRows
  BY DEF TokenInv, RowShape, CalmRows, CalmRow

LEMMA OneRowCalm ==
    ASSUME TypeInv, TokenInv, NEW j \in Jobs, NEW r,
           row' = [row EXCEPT ![j] = r], CalmRow(row[j], r)
    PROVE  CalmRows
  BY DEF TypeInv, TypeOK, TokenInv, RowShape, CalmRows, CalmRow

\* The edits that are calm whoever makes them.
LEMMA CalmEdits ==
    ASSUME TypeInv, TokenInv, NEW j \in Jobs
    PROVE  /\ CalmRow(row[j], NoRow)
           /\ CalmRow(row[j], Park(row[j]))
           /\ CalmRow(row[j], [row[j] EXCEPT !.cancel = TRUE])
           /\ CalmRow(row[j], [row[j] EXCEPT !.res = NoRes])
           /\ \A n : CalmRow(row[j], [row[j] EXCEPT !.fails = n])
           /\ row[j].res.tok # None => \A c : CalmRow(row[j], [row[j] EXCEPT !.res.child = c])
           /\ \A st : row[j].st \in {"waiting", "dispatching"} /\ st \in {"waiting", "dispatching"}
                       => CalmRow(row[j], [row[j] EXCEPT !.st = st])
           /\ \A st, o : st \in {"waiting", "dispatching"} /\ o \in Procs /\ pc'[o] \notin Working
                       => CalmRow(row[j], [row[j] EXCEPT !.st = st, !.owner = o])
<1>r. row[j] \in Row /\ None \notin Runners
  BY ConstantsAssumption DEF TypeInv, TypeOK, ConstantsAssumption, Procs
<1>s. row[j].res \in Reservation
  BY <1>r DEF Row
<1>f. /\ (row[j].st \in {"absent", "parked"} => row[j].owner = None) /\ row[j].enq \notin Runners
      /\ row[j].res # NoRes => row[j].res.tok # None
  BY DEF TokenInv, RowShape
<1>1. CalmRow(row[j], NoRow)
  BY <1>r DEF CalmRow, NoRow, NoRes
<1>2. CalmRow(row[j], Park(row[j]))
  BY <1>r, <1>f DEF CalmRow, Park, NoRes, Row
<1>3. CalmRow(row[j], [row[j] EXCEPT !.cancel = TRUE])
  BY <1>r, <1>f DEF CalmRow, Row
<1>4. CalmRow(row[j], [row[j] EXCEPT !.res = NoRes])
  BY <1>r, <1>f DEF CalmRow, Row, NoRes
<1>5. \A n : CalmRow(row[j], [row[j] EXCEPT !.fails = n])
  BY <1>r, <1>f DEF CalmRow, Row
<1>6. row[j].res.tok # None => \A c : CalmRow(row[j], [row[j] EXCEPT !.res.child = c])
  BY <1>r, <1>s, <1>f DEF CalmRow, Row, Reservation
<1>7. \A st : row[j].st \in {"waiting", "dispatching"} /\ st \in {"waiting", "dispatching"}
                => CalmRow(row[j], [row[j] EXCEPT !.st = st])
  BY <1>r, <1>f DEF CalmRow, Row
<1>8. \A st, o : st \in {"waiting", "dispatching"} /\ o \in Procs /\ pc'[o] \notin Working
                => CalmRow(row[j], [row[j] EXCEPT !.st = st, !.owner = o])
  BY <1>r, <1>f DEF CalmRow, Row
<1> QED BY <1>1, <1>2, <1>3, <1>4, <1>5, <1>6, <1>7, <1>8

LEMMA ReleasedCalm ==
    ASSUME TypeInv, TokenInv, NEW p \in Procs, NEW j \in Jobs, row' = Released(p, j)
    PROVE  CalmRows
<1>1. CASE row' = row
  BY <1>1, SameRowsCalm
<1>2. CASE row' = [row EXCEPT ![j] = [row[j] EXCEPT !.res = NoRes]]
  BY <1>2, OneRowCalm, CalmEdits
<1> QED BY <1>1, <1>2 DEF Released

\* The steps of the model, by what they do to tokens and ownership: a calm one,
\* the handoff of a row to the spawned child, a child that takes its row over,
\* a reservation, a spawn.
Calm == \E p \in Procs : CalmProcs(p) /\ CalmRows

OwnerEdited(j, o) ==
    /\ \A i \in Jobs \ {j} : row'[i] = row[i]
    /\ row'[j].owner = o /\ row'[j].st = row[j].st /\ row'[j].enq = row[j].enq
    /\ row'[j].res.tok \in {row[j].res.tok, None}
    /\ row'[j].res # NoRes => row'[j].res.tok # None

Handover(p) ==
    /\ CalmProcs(p) /\ pc[p] = "fenced" /\ at[p] \in Jobs
    /\ HandoffCurrent(p, at[p]) /\ row[at[p]].st \notin {"absent", "parked"}
    /\ OwnerEdited(at[p], kid[p])

TakesRow(c) ==
    /\ CalmProcs(c) /\ pc[c] = "claim" /\ at[c] \in Jobs
    /\ row[at[c]].res.tok = tok[c] /\ row[at[c]].owner # None
    /\ OwnerEdited(at[c], c)

StepKind ==
    \/ Calm
    \/ \E p \in Procs :
         \/ Handover(p) \/ TakesRow(p)
         \/ \E seen \in SUBSET Dead : ReserveSlot(p, seen)
         \/ \E c \in Runners : Spawn(p, c)

LEMMA StepKinds ==
    ASSUME TypeInv, TokenInv, Next
    PROVE  StepKind
<1> USE ConstantsAssumption
<1> USE DEF ConstantsAssumption
<1>1. ASSUME NEW p \in Launchers, NEW j \in Jobs, Submit(p, j) PROVE Calm
  <2>a. p \in Procs
    BY DEF Procs
  <2>1. CalmProcs(p)
    BY <1>1, <2>a DEF Submit, TypeInv, TypeOK, CalmProcs, Goto, Working, Reserving, Handing, Idle
  <2>2. CalmRows
    BY <1>1, <2>a DEF Submit, TypeInv, TypeOK, TokenInv, RowShape, CalmRows, CalmRow, Row, NoRow, NoRes, Idle, Goto, Working
  <2> QED BY <2>a, <2>1, <2>2 DEF Calm
<1>2. ASSUME NEW p \in Launchers, NEW j \in Jobs, NEW seen \in SUBSET Dead, AdoptFence(p, j, seen) PROVE Calm
  <2>a. p \in Procs
    BY DEF Procs
  <2>1. CalmProcs(p)
    BY <1>2, <2>a DEF AdoptFence, TypeInv, TypeOK, CalmProcs, Goto, Working, Reserving, Handing, Idle
  <2>2. CalmRows
    BY <1>2, SameRowsCalm DEF AdoptFence
  <2> QED BY <2>a, <2>1, <2>2 DEF Calm
<1>3. ASSUME NEW p \in Launchers, AdoptRow(p) PROVE Calm
  <2>a. p \in Procs
    BY DEF Procs
  <2>b. at[p] \in Jobs
    BY <1>3, <2>a DEF AdoptRow, TypeInv, Placed
  <2>1. CalmProcs(p)
    BY <1>3, <2>a DEF AdoptRow, TypeInv, TypeOK, CalmProcs, Goto, Working, Reserving, Handing, Return, Forget
  <2>r. \/ row' = row
        \/ row[at[p]].st \in {"waiting", "dispatching"} /\ row' = [row EXCEPT ![at[p]] = [row[at[p]] EXCEPT !.st = row[at[p]].st, !.owner = p]]
    BY <1>3, <2>a, <2>b DEF AdoptRow, TypeInv, TypeOK, Row
  <2>p. pc'[p] \notin Working
    BY <1>3, <2>a, <2>b DEF AdoptRow, TypeInv, TypeOK, Goto, Working, Return
  <2>2. CalmRows
    BY <2>r, <2>a, <2>b, <2>p, SameRowsCalm, OneRowCalm, CalmEdits
  <2> QED BY <2>a, <2>1, <2>2 DEF Calm
<1>4. ASSUME NEW p \in Launchers, NEW j \in Jobs, NEW seen \in SUBSET Dead, ClearDeadRunner(p, j, seen) PROVE Calm
  <2>a. p \in Procs
    BY DEF Procs
  <2>1. CalmProcs(p)
    BY <1>4, <2>a DEF ClearDeadRunner, TypeInv, TypeOK, CalmProcs, Goto, Working, Reserving, Handing, Idle
  <2>2. CalmRows
    BY <1>4, SameRowsCalm DEF ClearDeadRunner
  <2> QED BY <2>a, <2>1, <2>2 DEF Calm
<1>5. ASSUME NEW p \in Launchers, NEW j \in Jobs, NEW seen \in SUBSET Dead, StartReplacement(p, j, seen) PROVE Calm
  <2>a. p \in Procs
    BY DEF Procs
  <2>1. CalmProcs(p)
    BY <1>5, <2>a DEF StartReplacement, TypeInv, TypeOK, CalmProcs, Goto, Working, Reserving, Handing, Idle
  <2>r. \/ row' = row
        \/ row' = [row EXCEPT ![j] = Park(row[j])]
    BY <1>5, <2>a DEF StartReplacement
  <2>2. CalmRows
    BY <2>r, <2>a, SameRowsCalm, OneRowCalm, CalmEdits
  <2> QED BY <2>a, <2>1, <2>2 DEF Calm
<1>6. ASSUME NEW p \in Procs, NEW j \in Jobs, UnparkOldest(p, j) PROVE Calm
  <2>1. CalmProcs(p)
    BY <1>6 DEF UnparkOldest, TypeInv, TypeOK, CalmProcs, Goto, Working, Reserving, Handing, Idle
  <2>r. row' = [row EXCEPT ![j] = [row[j] EXCEPT !.st = "waiting", !.owner = p]]
    BY <1>6 DEF UnparkOldest
  <2>p. pc'[p] \notin Working
    BY <1>6 DEF UnparkOldest, TypeInv, TypeOK, Goto, Working, Return
  <2>2. CalmRows
    BY <2>r, <2>p, OneRowCalm, CalmEdits
  <2> QED BY <2>1, <2>2 DEF Calm
<1>7. ASSUME NEW p \in Procs, NothingParked(p) PROVE Calm
  <2>1. CalmProcs(p)
    BY <1>7 DEF NothingParked, TypeInv, TypeOK, CalmProcs, Goto, Working, Reserving, Handing, Return, Forget
  <2>2. CalmRows
    BY <1>7, SameRowsCalm DEF NothingParked
  <2> QED BY <2>1, <2>2 DEF Calm
<1>8. ASSUME NEW p \in Launchers, ResetFailures(p) PROVE Calm
  <2>a. p \in Procs
    BY DEF Procs
  <2>1. CalmProcs(p)
    BY <1>8 DEF ResetFailures, CalmProcs
  <2>2. ASSUME NEW j \in Jobs PROVE CalmRow(row[j], row'[j])
    <3>1. row[j] \in Row /\ pc'[p] \notin Working
      BY <1>8 DEF TypeInv, TypeOK, ResetFailures, Idle, Working
    <3>2. /\ (row[j].st \in {"absent", "parked"} => row[j].owner = None) /\ row[j].enq \notin Runners
          /\ row[j].res # NoRes => row[j].res.tok # None
      BY DEF TokenInv, RowShape
    <3>3. \/ row'[j] = row[j]
          \/ row[j].st # "parked" /\ row'[j] = [row[j] EXCEPT !.fails = 0, !.st = row[j].st, !.owner = row[j].owner]
          \/ row'[j] = [row[j] EXCEPT !.fails = 0, !.st = "waiting", !.owner = p]
      BY <1>8 DEF ResetFailures
    <3> QED BY <2>a, <3>1, <3>2, <3>3 DEF CalmRow, Row
  <2>3. CalmRows
    BY <2>2 DEF CalmRows
  <2> QED BY <2>a, <2>1, <2>3 DEF Calm
<1>9. ASSUME NEW p \in Launchers, NEW j \in Jobs, RetainCancel(p, j) PROVE Calm
  <2>a. p \in Procs
    BY DEF Procs
  <2>1. CalmProcs(p)
    BY <1>9, <2>a DEF RetainCancel, TypeInv, TypeOK, CalmProcs, Goto, Working, Reserving, Handing, Idle
  <2>r. row' = [row EXCEPT ![j] = [row[j] EXCEPT !.cancel = TRUE]]
    BY <1>9, <2>a DEF RetainCancel
  <2>2. CalmRows
    BY <2>r, <2>a, OneRowCalm, CalmEdits
  <2> QED BY <2>a, <2>1, <2>2 DEF Calm
<1>10. ASSUME NEW p \in Launchers, NEW j \in Jobs, FinishWaitingCancellation(p, j) PROVE Calm
  <2>a. p \in Procs
    BY DEF Procs
  <2>1. CalmProcs(p)
    BY <1>10, <2>a DEF FinishWaitingCancellation, TypeInv, TypeOK, CalmProcs, Goto, Working, Reserving, Handing, BeginRetire, Idle
  <2>2. CalmRows
    BY <1>10, SameRowsCalm DEF FinishWaitingCancellation
  <2> QED BY <2>a, <2>1, <2>2 DEF Calm
<1>11. ASSUME NEW p \in Procs, RemoveRow(p) PROVE Calm
  <2>b. at[p] \in Jobs
    BY <1>11 DEF RemoveRow, TypeInv, Placed
  <2>1. CalmProcs(p)
    BY <1>11 DEF RemoveRow, TypeInv, TypeOK, CalmProcs, Goto, Working, Reserving, Handing, Return, Forget, local
  <2>r. \/ row' = row
        \/ row' = [row EXCEPT ![at[p]] = NoRow]
    BY <1>11, <2>b DEF RemoveRow
  <2>2. CalmRows
    BY <2>r, <2>b, SameRowsCalm, OneRowCalm, CalmEdits
  <2> QED BY <2>1, <2>2 DEF Calm
<1>13. ASSUME NEW p \in Procs, NEW seen \in SUBSET Dead, ReserveRefused(p, seen) PROVE Calm
  <2>1. CalmProcs(p)
    BY <1>13 DEF ReserveRefused, TypeInv, TypeOK, CalmProcs, Goto, Working, Reserving, Handing, Return, local, Forget
  <2>2. CalmRows
    BY <1>13, SameRowsCalm DEF ReserveRefused
  <2> QED BY <2>1, <2>2 DEF Calm
<1>14. ASSUME NEW p \in Procs, RowRetiredBeforeReserve(p) PROVE Calm
  <2>1. CalmProcs(p)
    BY <1>14 DEF RowRetiredBeforeReserve, TypeInv, TypeOK, CalmProcs, Goto, Working, Reserving, Handing
  <2>2. CalmRows
    BY <1>14, SameRowsCalm DEF RowRetiredBeforeReserve
  <2> QED BY <2>1, <2>2 DEF Calm
<1>15. ASSUME NEW p \in Procs, ParkSaturated(p) PROVE Calm
  <2>b. at[p] \in Jobs
    BY <1>15 DEF ParkSaturated, TypeInv, Placed
  <2>1. CalmProcs(p)
    BY <1>15 DEF ParkSaturated, TypeInv, TypeOK, CalmProcs, Goto, Working, Reserving, Handing, Return, Forget
  <2>r. \/ row' = row
        \/ row' = [row EXCEPT ![at[p]] = Park(row[at[p]])]
    BY <1>15, <2>b DEF ParkSaturated
  <2>2. CalmRows
    BY <2>r, <2>b, SameRowsCalm, OneRowCalm, CalmEdits
  <2> QED BY <2>1, <2>2 DEF Calm
<1>16. ASSUME NEW p \in Procs, ReadExpected(p) PROVE Calm
  <2>1. CalmProcs(p)
    BY <1>16 DEF ReadExpected, TypeInv, TypeOK, CalmProcs, Goto, Working, Reserving, Handing
  <2>2. CalmRows
    BY <1>16, SameRowsCalm DEF ReadExpected
  <2> QED BY <2>1, <2>2 DEF Calm
<1>17. ASSUME NEW p \in Procs, CheckPermit(p) PROVE Calm
  <2>b. at[p] \in Jobs
    BY <1>17 DEF CheckPermit, TypeInv, Placed
  <2>1. CalmProcs(p)
    BY <1>17 DEF CheckPermit, TypeInv, TypeOK, CalmProcs, Goto, Working, Reserving, Handing
  <2>r. \/ row' = row
        \/ row' = Released(p, at[p])
    BY <1>17, <2>b DEF CheckPermit
  <2>2. CalmRows
    BY <2>r, <2>b, SameRowsCalm, ReleasedCalm
  <2> QED BY <2>1, <2>2 DEF Calm
<1>18. ASSUME NEW p \in Procs, HandoffTimeout(p) PROVE Calm
  <2>b. at[p] \in Jobs
    BY <1>18 DEF HandoffTimeout, TypeInv, Placed
  <2>1. CalmProcs(p)
    BY <1>18 DEF HandoffTimeout, TypeInv, TypeOK, CalmProcs, Goto, Working, Reserving, Handing
  <2>r. row' = Released(p, at[p])
    BY <1>18, <2>b DEF HandoffTimeout
  <2>2. CalmRows
    BY <2>r, <2>b, ReleasedCalm
  <2> QED BY <2>1, <2>2 DEF Calm
<1>20. ASSUME NEW p \in Procs, SpawnFails(p) PROVE Calm
  <2>b. at[p] \in Jobs
    BY <1>20 DEF SpawnFails, TypeInv, Placed
  <2>1. CalmProcs(p)
    BY <1>20 DEF SpawnFails, TypeInv, TypeOK, CalmProcs, Goto, Working, Reserving, Handing
  <2>r. row' = Released(p, at[p])
    BY <1>20, <2>b DEF SpawnFails
  <2>2. CalmRows
    BY <2>r, <2>b, ReleasedCalm
  <2> QED BY <2>1, <2>2 DEF Calm
<1>21. ASSUME NEW p \in Procs, BindChild(p) PROVE Calm
  <2>b. at[p] \in Jobs
    BY <1>21 DEF BindChild, TypeInv, Placed
  <2>1. CalmProcs(p)
    BY <1>21 DEF BindChild, TypeInv, TypeOK, CalmProcs, Goto, Working, Reserving, Handing
  <2>r. \/ row' = row
        \/ row' = [row EXCEPT ![at[p]] = [row[at[p]] EXCEPT !.res.child = kid[p]]]
    BY <1>21, <2>b DEF BindChild
  <2>t. row' # row => row[at[p]].res.tok # None
    BY <1>21 DEF BindChild, TokenInv, CarriesToken, Handing
  <2>2. CalmRows
    BY <2>r, <2>t, <2>b, SameRowsCalm, OneRowCalm, CalmEdits
  <2> QED BY <2>1, <2>2 DEF Calm
<1>22. ASSUME NEW p \in Procs, FenceHandoff(p) PROVE Calm
  <2>1. CalmProcs(p)
    BY <1>22 DEF FenceHandoff, TypeInv, TypeOK, CalmProcs, Goto, Working, Reserving, Handing
  <2>2. CalmRows
    BY <1>22, SameRowsCalm DEF FenceHandoff
  <2> QED BY <2>1, <2>2 DEF Calm
<1>24. ASSUME NEW p \in Procs, StartFailed(p) PROVE Calm
  <2>b. at[p] \in Jobs
    BY <1>24 DEF StartFailed, TypeInv, Placed
  <2>1. CalmProcs(p)
    BY <1>24 DEF StartFailed, TypeInv, TypeOK, CalmProcs, Goto, Working, Reserving, Handing, BeginRetire, Return, Forget
  <2>r. \/ row' = row
        \/ row' = [row EXCEPT ![at[p]] = [row[at[p]] EXCEPT !.cancel = TRUE]]
    BY <1>24, <2>b DEF StartFailed
  <2>2. CalmRows
    BY <2>r, <2>b, SameRowsCalm, OneRowCalm, CalmEdits
  <2> QED BY <2>1, <2>2 DEF Calm
<1>26. ASSUME NEW c \in Runners, NEW seen \in SUBSET Dead, AdoptionTimeout(c, seen) PROVE Calm
  <2>a. c \in Procs
    BY DEF Procs
  <2>1. CalmProcs(c)
    BY <1>26, <2>a DEF AdoptionTimeout, TypeInv, TypeOK, CalmProcs, Goto, Working, Reserving, Handing
  <2>2. CalmRows
    BY <1>26, SameRowsCalm DEF AdoptionTimeout
  <2> QED BY <2>a, <2>1, <2>2 DEF Calm
<1>27. ASSUME NEW c \in Runners, InspectOwned(c) PROVE Calm
  <2>a. c \in Procs
    BY DEF Procs
  <2>b. at[c] \in Jobs
    BY <1>27, <2>a DEF InspectOwned, TypeInv, Placed
  <2>1. CalmProcs(c)
    BY <1>27, <2>a DEF InspectOwned, TypeInv, TypeOK, CalmProcs, Goto, Working, Reserving, Handing, BeginRetire
  <2>c. row[at[c]].owner = c => row[at[c]].st \in {"waiting", "dispatching"}
    BY <2>a, <2>b DEF TypeInv, TypeOK, Row, TokenInv, RowShape
  <2>r. \/ row' = row
        \/ row[at[c]].st \in {"waiting", "dispatching"} /\ row' = [row EXCEPT ![at[c]] = [row[at[c]] EXCEPT !.st = "dispatching"]]
    BY <1>27, <2>a, <2>b, <2>c DEF InspectOwned
  <2>2. CalmRows
    BY <2>r, <2>a, <2>b, <2>c, SameRowsCalm, OneRowCalm, CalmEdits
  <2> QED BY <2>a, <2>1, <2>2 DEF Calm
<1>28. ASSUME NEW c \in Runners, InspectForeign(c) PROVE Calm
  <2>a. c \in Procs
    BY DEF Procs
  <2>1. CalmProcs(c)
    BY <1>28, <2>a DEF InspectForeign, TypeInv, TypeOK, CalmProcs, Goto, Working, Reserving, Handing, BeginRetire
  <2>2. CalmRows
    BY <1>28, SameRowsCalm DEF InspectForeign
  <2> QED BY <2>a, <2>1, <2>2 DEF Calm
<1>29. ASSUME NEW c \in Runners, Claim(c) PROVE Calm
  <2>a. c \in Procs
    BY DEF Procs
  <2>b. at[c] \in Jobs
    BY <1>29, <2>a DEF Claim, TypeInv, Placed
  <2>1. CalmProcs(c)
    BY <1>29, <2>a DEF Claim, TypeInv, TypeOK, CalmProcs, Goto, Working, Reserving, Handing
  <2>r. row[at[c]].st \in {"waiting", "dispatching"} /\ row' = [row EXCEPT ![at[c]] = [row[at[c]] EXCEPT !.st = "dispatching"]]
    BY <1>29, <2>a, <2>b DEF Claim
  <2>2. CalmRows
    BY <2>r, <2>a, <2>b, OneRowCalm, CalmEdits
  <2> QED BY <2>a, <2>1, <2>2 DEF Calm
<1>30. ASSUME NEW c \in Runners, ClaimBlocked(c) PROVE Calm
  <2>a. c \in Procs
    BY DEF Procs
  <2>1. CalmProcs(c)
    BY <1>30, <2>a DEF ClaimBlocked, TypeInv, TypeOK, CalmProcs, Goto, Working, Reserving, Handing, BeginRetire
  <2>2. CalmRows
    BY <1>30, SameRowsCalm DEF ClaimBlocked
  <2> QED BY <2>a, <2>1, <2>2 DEF Calm
<1>31. ASSUME NEW c \in Runners, OpenJournal(c) PROVE Calm
  <2>a. c \in Procs
    BY DEF Procs
  <2>1. CalmProcs(c)
    BY <1>31, <2>a DEF OpenJournal, TypeInv, TypeOK, CalmProcs, Goto, Working, Reserving, Handing, BeginRetire
  <2>2. CalmRows
    BY <1>31, SameRowsCalm DEF OpenJournal
  <2> QED BY <2>a, <2>1, <2>2 DEF Calm
<1>32. ASSUME NEW c \in Runners, Accept(c) PROVE Calm
  <2>a. c \in Procs
    BY DEF Procs
  <2>1. CalmProcs(c)
    BY <1>32, <2>a DEF Accept, TypeInv, TypeOK, CalmProcs, Goto, Working, Reserving, Handing
  <2>2. CalmRows
    BY <1>32, SameRowsCalm DEF Accept
  <2> QED BY <2>a, <2>1, <2>2 DEF Calm
<1>33. ASSUME NEW c \in Runners, Finish(c) PROVE Calm
  <2>a. c \in Procs
    BY DEF Procs
  <2>1. CalmProcs(c)
    BY <1>33, <2>a DEF Finish, TypeInv, TypeOK, CalmProcs, Goto, Working, Reserving, Handing
  <2>2. CalmRows
    BY <1>33, SameRowsCalm DEF Finish
  <2> QED BY <2>a, <2>1, <2>2 DEF Calm
<1>34. ASSUME NEW c \in Runners, RunError(c) PROVE Calm
  <2>a. c \in Procs
    BY DEF Procs
  <2>1. CalmProcs(c)
    BY <1>34, <2>a DEF RunError, TypeInv, TypeOK, CalmProcs, Goto, Working, Reserving, Handing
  <2>2. CalmRows
    BY <1>34, SameRowsCalm DEF RunError
  <2> QED BY <2>a, <2>1, <2>2 DEF Calm
<1>35. ASSUME NEW c \in Runners, ErrorCleanup(c) PROVE Calm
  <2>a. c \in Procs
    BY DEF Procs
  <2>b. at[c] \in Jobs
    BY <1>35, <2>a DEF ErrorCleanup, TypeInv, Placed
  <2>1. CalmProcs(c)
    BY <1>35, <2>a DEF ErrorCleanup, TypeInv, TypeOK, CalmProcs, Goto, Working, Reserving, Handing
  <2>r. \/ row' = row
        \/ row[at[c]].st \in {"waiting", "dispatching"} /\ row' = [row EXCEPT ![at[c]] = [row[at[c]] EXCEPT !.st = "waiting"]]
    BY <1>35, <2>a, <2>b DEF ErrorCleanup, TypeInv, TypeOK, Row
  <2>2. CalmRows
    BY <2>r, <2>a, <2>b, SameRowsCalm, OneRowCalm, CalmEdits
  <2> QED BY <2>a, <2>1, <2>2 DEF Calm
<1>36. ASSUME NEW c \in Runners, ExitRunner(c) PROVE Calm
  <2>a. c \in Procs
    BY DEF Procs
  <2>b. at[c] \in Jobs
    BY <1>36, <2>a DEF ExitRunner, TypeInv, Placed
  <2>1. CalmProcs(c)
    BY <1>36, <2>a DEF ExitRunner, TypeInv, TypeOK, CalmProcs, Goto, Working, Reserving, Handing, Forget
  <2>r. \/ row' = row
        \/ \E n : row' = [row EXCEPT ![at[c]] = [row[at[c]] EXCEPT !.fails = n]]
    BY <1>36, <2>a, <2>b DEF ExitRunner, TypeInv, TypeOK, Row, Streak
  <2>2. CalmRows
    BY <2>r, <2>a, <2>b, SameRowsCalm, OneRowCalm, CalmEdits
  <2> QED BY <2>a, <2>1, <2>2 DEF Calm
<1>37. ASSUME NEW p \in Procs, Crash(p) PROVE Calm
  <2>1. CalmProcs(p)
    BY <1>37 DEF Crash, TypeInv, TypeOK, CalmProcs, Goto, Working, Reserving, Handing, Forget
  <2>2. CalmRows
    BY <1>37, SameRowsCalm DEF Crash
  <2> QED BY <2>1, <2>2 DEF Calm
<1>38. ASSUME NEW p \in Launchers, NEW j \in Jobs, NEW seen \in SUBSET Dead, ObserveFailure(p, j, seen) PROVE Calm
  <2>a. p \in Procs
    BY DEF Procs
  <2>1. CalmProcs(p)
    BY <1>38, <2>a DEF ObserveFailure, TypeInv, TypeOK, CalmProcs, Goto, Working, Reserving, Handing, Idle
  <2>r. row' = [row EXCEPT ![j] = [row[j] EXCEPT !.fails = 1]]
    BY <1>38, <2>a DEF ObserveFailure
  <2>2. CalmRows
    BY <2>r, <2>a, OneRowCalm, CalmEdits
  <2> QED BY <2>a, <2>1, <2>2 DEF Calm
<1>23. ASSUME NEW p \in Procs, NEW w \in 1..3, CompleteSpawn(p, w) PROVE Calm \/ Handover(p)
  <2> DEFINE j == at[p]
             k == kid[p]
  <2>b. j \in Jobs /\ row[j] \in Row /\ row[j].res \in Reservation /\ pc[p] = "fenced"
    BY <1>23 DEF CompleteSpawn, TypeInv, TypeOK, Placed, Row
  <2>1. CalmProcs(p)
    BY <1>23 DEF CompleteSpawn, TypeInv, TypeOK, CalmProcs, Goto, Working, Reserving, Handing, Return, Forget
  <2>2. CASE row' = row
    BY <2>2, <2>1, SameRowsCalm DEF Calm
  <2>3. CASE row' # row
    <3>ok. /\ HandoffCurrent(p, j) /\ row[j].st \notin {"absent", "parked"}
           /\ \/ row' = [row EXCEPT ![j] = [row[j] EXCEPT !.owner = k]]
              \/ /\ row[j].res # NoRes
                 /\ row' = [row EXCEPT ![j] = [row[j] EXCEPT !.owner = k, !.res = [@ EXCEPT !.child = k]]]
              \/ row' = [row EXCEPT ![j] = [row[j] EXCEPT !.owner = k, !.res = NoRes]]
      BY <1>23, <2>3, <2>b DEF CompleteSpawn, Queued, Row
    <3>r. /\ \A i \in Jobs \ {j} : row'[i] = row[i]
          /\ row'[j].owner = k /\ row'[j].st = row[j].st /\ row'[j].enq = row[j].enq
          /\ row'[j].res.tok \in {row[j].res.tok, None}
          /\ row'[j].res # NoRes => row'[j].res.tok # None
      <4>1. row \in [Jobs -> Row] /\ (row[j].res # NoRes => row[j].res.tok # None)
        BY <2>b DEF TypeInv, TypeOK, TokenInv, RowShape
      <4>2. CASE row' = [row EXCEPT ![j] = [row[j] EXCEPT !.owner = k]]
        BY <2>b, <4>1, <4>2 DEF Row
      <4>3. CASE /\ row[j].res # NoRes
                 /\ row' = [row EXCEPT ![j] = [row[j] EXCEPT !.owner = k, !.res = [@ EXCEPT !.child = k]]]
        <5>1. [row[j].res EXCEPT !.child = k].tok = row[j].res.tok
          BY <2>b DEF Reservation
        <5>2. row'[j] = [row[j] EXCEPT !.owner = k, !.res = [row[j].res EXCEPT !.child = k]]
          BY <2>b, <4>1, <4>3
        <5> QED BY <2>b, <4>1, <4>3, <5>1, <5>2 DEF Row
      <4>4. CASE row' = [row EXCEPT ![j] = [row[j] EXCEPT !.owner = k, !.res = NoRes]]
        BY <2>b, <4>1, <4>4 DEF Row, NoRes
      <4> QED BY <3>ok, <4>2, <4>3, <4>4
    <3> QED BY <2>b, <2>1, <3>ok, <3>r DEF Handover, OwnerEdited
  <2> QED BY <2>2, <2>3
<1>25. ASSUME NEW c \in Runners, NEW seen \in SUBSET Dead, TakeOver(c, seen) PROVE Calm \/ TakesRow(c)
  <2> DEFINE j == at[c]
  <2>a. c \in Procs
    BY DEF Procs
  <2>b. j \in Jobs /\ row \in [Jobs -> Row] /\ pc[c] = "claim"
    BY <1>25, <2>a DEF TakeOver, TypeInv, TypeOK, Placed
  <2>1. CalmProcs(c)
    BY <1>25, <2>a DEF TakeOver, TypeInv, TypeOK, CalmProcs, Goto, Working, Reserving, Handing
  <2>2. CASE row' = row
    BY <2>a, <2>2, <2>1, SameRowsCalm DEF Calm
  <2>3. CASE row' # row
    <3>ok. /\ row[j].res.tok = tok[c] /\ row[j].owner # None
           /\ row' = [row EXCEPT ![j] = [row[j] EXCEPT !.owner = c]]
      BY <1>25, <2>3 DEF TakeOver, TokenCurrent
    <3>r. /\ \A i \in Jobs \ {j} : row'[i] = row[i]
          /\ row'[j].owner = c /\ row'[j].st = row[j].st /\ row'[j].enq = row[j].enq
          /\ row'[j].res = row[j].res
      BY <2>b, <3>ok DEF Row
    <3>s. row[j].res # NoRes => row[j].res.tok # None
      BY <2>b DEF TokenInv, RowShape
    <3> QED BY <2>b, <2>1, <3>ok, <3>r, <3>s DEF TakesRow, OwnerEdited
  <2> QED BY <2>2, <2>3
<1>a. Runners \subseteq Procs
  BY DEF Procs
<1> QED
  BY <1>a, <1>1, <1>2, <1>3, <1>4, <1>5, <1>6, <1>7, <1>8, <1>9, <1>10, <1>11, <1>13, <1>14, <1>15, <1>16, <1>17, <1>18, <1>20, <1>21, <1>22, <1>23, <1>24, <1>25, <1>26, <1>27, <1>28, <1>29, <1>30, <1>31, <1>32, <1>33, <1>34, <1>35, <1>36, <1>37, <1>38
  DEF Next, Launch, Run, Reconcile, Command, StepKind

LEMMA HandoverKeepsTokenInv ==
    ASSUME TypeInv, TokenInv, NEW p \in Procs, Handover(p)
    PROVE  TokenInv'
<1> DEFINE j == at[p]
           k == kid[p]
<1>b. j \in Jobs /\ pc[p] = "fenced" /\ CalmProcs(p)
  BY DEF Handover
<1>ok. HandoffCurrent(p, j) /\ row[j].st \notin {"absent", "parked"}
  BY DEF Handover
<1>r. /\ \A i \in Jobs \ {j} : row'[i] = row[i]
      /\ row'[j].owner = k /\ row'[j].st = row[j].st /\ row'[j].enq = row[j].enq
      /\ row'[j].res.tok \in {row[j].res.tok, None}
  BY DEF Handover, OwnerEdited
<1>q. /\ \A q \in Procs : /\ pc'[q] \in Working => pc[q] \in Working /\ tok'[q] = tok[q]
                          /\ pc'[q] \in Reserving => pc[q] \in Reserving /\ tok'[q] = tok[q]
      /\ \A q \in Procs : pc[q] \in Working \cup Reserving => tok[q] # None
  BY <1>b DEF CalmProcs, TokenInv, CarriesToken
<1>t. row[j].res.tok \in {tok[p], None}
  BY <1>ok DEF HandoffCurrent, NoRes
<1>1. RowShape'
  BY <1>ok, <1>r DEF TokenInv, RowShape, Handover, OwnerEdited
<1>2. CarriesToken'
  BY <1>b DEF TokenInv, CalmProcs, CarriesToken, Working, Reserving, Handing
<1>3. TokensApart'
  BY <1>b DEF TokenInv, CalmProcs, TokensApart, Working, Reserving, Handing
<1>4. OwnerCarriesToken'
  <2> SUFFICES ASSUME NEW i \in Jobs, NEW c \in Procs, NEW d \in Procs,
                      pc'[c] \in Working, pc'[d] \in Working,
                      row'[i].owner = c, row'[i].res.tok = tok'[d]
               PROVE  c = d
    BY DEF OwnerCarriesToken
  <2>1. pc[c] \in Working /\ pc[d] \in Working /\ tok'[d] = tok[d] /\ tok[d] # None
    BY <1>q
  <2>2. CASE i # j
    BY <2>1, <2>2, <1>r DEF TokenInv, OwnerCarriesToken
  <2>3. CASE i = j
    <3>1. tok[d] = tok[p] /\ d # p
      BY <2>1, <2>3, <1>r, <1>t, <1>b DEF Working
    <3>2. kid[p] = d
      BY <3>1, <2>1, <1>b DEF TokenInv, TokensApart, Handing
    <3> QED BY <3>2, <2>3, <1>r
  <2> QED BY <2>2, <2>3
<1>5. ReserverAlone'
  <2> SUFFICES ASSUME NEW i \in Jobs, NEW q \in Procs, NEW c \in Procs,
                      pc'[q] \in Reserving, row'[i].res.tok = tok'[q],
                      row'[i].owner = c, pc'[c] \in Working
               PROVE  FALSE
    BY DEF ReserverAlone
  <2>1. pc[q] \in Reserving /\ pc[c] \in Working /\ tok'[q] = tok[q] /\ tok[q] # None
    BY <1>q
  <2>2. CASE i # j
    BY <2>1, <2>2, <1>r DEF TokenInv, ReserverAlone
  <2>3. CASE i = j
    <3>1. tok[q] = tok[p] /\ q # p
      BY <2>1, <2>3, <1>r, <1>t, <1>b DEF Reserving
    <3> QED BY <3>1, <2>1, <1>b DEF TokenInv, TokensApart, Handing
  <2> QED BY <2>2, <2>3
<1> QED BY <1>1, <1>2, <1>3, <1>4, <1>5 DEF TokenInv

LEMMA TakesRowKeepsTokenInv ==
    ASSUME TypeInv, TokenInv, NEW c \in Procs, TakesRow(c)
    PROVE  TokenInv'
<1> DEFINE j == at[c]
<1>b. j \in Jobs /\ pc[c] = "claim" /\ CalmProcs(c)
  BY DEF TakesRow
<1>ok. row[j].res.tok = tok[c] /\ row[j].owner # None
  BY DEF TakesRow
<1>r. /\ \A i \in Jobs \ {j} : row'[i] = row[i]
      /\ row'[j].owner = c /\ row'[j].st = row[j].st /\ row'[j].enq = row[j].enq
      /\ row'[j].res.tok \in {row[j].res.tok, None}
  BY DEF TakesRow, OwnerEdited
<1>q. /\ \A q \in Procs : /\ pc'[q] \in Working => pc[q] \in Working /\ tok'[q] = tok[q]
                          /\ pc'[q] \in Reserving => pc[q] \in Reserving /\ tok'[q] = tok[q]
      /\ \A q \in Procs : pc[q] \in Working \cup Reserving => tok[q] # None
  BY <1>b DEF CalmProcs, TokenInv, CarriesToken
<1>1. RowShape'
  BY <1>ok, <1>r DEF TokenInv, RowShape, TakesRow, OwnerEdited
<1>2. CarriesToken'
  BY <1>b DEF TokenInv, CalmProcs, CarriesToken, Working, Reserving, Handing
<1>3. TokensApart'
  BY <1>b DEF TokenInv, CalmProcs, TokensApart, Working, Reserving, Handing
<1>4. OwnerCarriesToken'
  <2> SUFFICES ASSUME NEW i \in Jobs, NEW b \in Procs, NEW d \in Procs,
                      pc'[b] \in Working, pc'[d] \in Working,
                      row'[i].owner = b, row'[i].res.tok = tok'[d]
               PROVE  b = d
    BY DEF OwnerCarriesToken
  <2>1. pc[b] \in Working /\ pc[d] \in Working /\ tok'[d] = tok[d]
    BY <1>q
  <2>2. CASE i # j
    BY <2>1, <2>2, <1>r DEF TokenInv, OwnerCarriesToken
  <2>3. CASE i = j
    <3>1. tok[c] = tok[d] /\ pc[c] \in Working
      BY <2>1, <2>3, <1>r, <1>ok, <1>q, <1>b DEF Working
    <3> QED BY <2>1, <2>3, <3>1, <1>r DEF TokenInv, TokensApart
  <2> QED BY <2>2, <2>3
<1>5. ReserverAlone'
  <2> SUFFICES ASSUME NEW i \in Jobs, NEW q \in Procs, NEW d \in Procs,
                      pc'[q] \in Reserving, row'[i].res.tok = tok'[q],
                      row'[i].owner = d, pc'[d] \in Working
               PROVE  FALSE
    BY DEF ReserverAlone
  <2>1. pc[q] \in Reserving /\ pc[d] \in Working /\ tok'[q] = tok[q]
    BY <1>q
  <2>2. CASE i # j
    BY <2>1, <2>2, <1>r DEF TokenInv, ReserverAlone
  <2>3. CASE i = j
    <3>1. tok[q] = tok[c] /\ q # c /\ pc[c] \in Working
      BY <2>1, <2>3, <1>r, <1>ok, <1>b, <1>q DEF Reserving, Working
    <3> QED BY <3>1, <2>1 DEF TokenInv, TokensApart
  <2> QED BY <2>2, <2>3
<1> QED BY <1>1, <1>2, <1>3, <1>4, <1>5 DEF TokenInv

LEMMA ReserveKeepsTokenInv ==
    ASSUME TypeInv, TokenInv, NEW p \in Procs, NEW seen \in SUBSET Dead, ReserveSlot(p, seen)
    PROVE  TokenInv'
<1> USE ConstantsAssumption
<1> USE DEF ConstantsAssumption
<1> DEFINE j == at[p]
           t == NewToken
<1>b. j \in Jobs /\ row[j] \in Row
  BY DEF ReserveSlot, TypeInv, TypeOK, Placed
<1>t. t \in Tokens /\ Fresh(t)
  BY DEF ReserveSlot, NewToken
<1>p. /\ pc' = [pc EXCEPT ![p] = "acquired"]
      /\ tok' = [tok EXCEPT ![p] = t]
      /\ kid' = kid
      /\ pc \in [Procs -> LaunchPcs \cup RunnerPcs \cup OtherPcs]
      /\ tok \in [Procs -> Tokens \cup {None}]
  BY DEF ReserveSlot, Goto, TypeInv, TypeOK
<1>r. /\ \A k \in Jobs : row'[k].owner = row[k].owner /\ row'[k].st = row[k].st /\ row'[k].enq = row[k].enq
      /\ row'[j].res.tok = t
      /\ \A k \in Jobs \ {j} : row'[k].res = row[k].res
  <2>1. row \in [Jobs -> Row]
    BY DEF TypeInv, TypeOK
  <2>2. row' = [row EXCEPT ![j] = [row[j] EXCEPT !.res = [by |-> p, tok |-> t, child |-> None]]]
    BY DEF ReserveSlot
  <2> QED BY <1>b, <2>1, <2>2 DEF Row
<1>f. /\ \A q \in Procs \ {p} : tok'[q] # t /\ tok'[q] = tok[q] /\ pc'[q] = pc[q]
      /\ tok'[p] = t /\ pc'[p] = "acquired" /\ t # None
      /\ \A k \in Jobs \ {j} : row'[k].res.tok # t
  BY <1>p, <1>t, <1>r DEF Fresh
<1>o. ASSUME NEW c \in Procs, row[j].owner = c, pc'[c] \in Working PROVE FALSE
  <2>1. c # p /\ pc[c] \in Working /\ c \in Runners /\ c # None
    BY <1>f, <1>o DEF Working, TokenInv, CarriesToken, Procs
  <2>2. Counts(c, seen)
    BY <2>1 DEF Counts, Alive, Working
  <2>3. row[j].st \in {"waiting", "dispatching"} /\ row[j].owner # row[j].enq
    BY <1>b, <1>o, <2>1 DEF TokenInv, RowShape, Row
  <2>4. ActingHolder(j, seen) = c
    BY <1>o, <2>2, <2>3 DEF ActingHolder
  <2> QED BY <2>1, <2>4 DEF ReserveSlot, TurnHeld
<1>1. RowShape'
  BY <1>r, <1>f DEF TokenInv, RowShape
<1>2. CarriesToken'
  BY <1>p, <1>f DEF TokenInv, CarriesToken, Working
<1>3. TokensApart'
  BY <1>p, <1>f DEF TokenInv, TokensApart, Working
<1>4. OwnerCarriesToken'
  BY <1>r, <1>f DEF TokenInv, OwnerCarriesToken, Working
<1>5. ReserverAlone'
  <2> SUFFICES ASSUME NEW k \in Jobs, NEW q \in Procs, NEW c \in Procs,
                      pc'[q] \in Reserving, row'[k].res.tok = tok'[q],
                      row'[k].owner = c, pc'[c] \in Working
               PROVE  FALSE
    BY DEF ReserverAlone
  <2>1. CASE k = j
    BY <2>1, <1>r, <1>o
  <2>2. CASE k # j
    <3>1. q # p /\ c # p
      BY <2>2, <1>f DEF Working
    <3>2. pc[q] \in Reserving /\ row[k].res.tok = tok[q] /\ row[k].owner = c /\ pc[c] \in Working
      BY <2>2, <3>1, <1>f, <1>r
    <3> QED BY <3>2 DEF TokenInv, ReserverAlone
  <2> QED BY <2>1, <2>2
<1> QED BY <1>1, <1>2, <1>3, <1>4, <1>5 DEF TokenInv

LEMMA SpawnKeepsTokenInv ==
    ASSUME TypeInv, TokenInv, NEW p \in Procs, NEW c \in Runners, Spawn(p, c)
    PROVE  TokenInv'
<1>a. /\ c \in Procs /\ c # p /\ pc[c] = "dead" /\ pc[p] = "permit"
      /\ \A j \in Jobs : row[j].owner # c
  BY DEF Spawn, NewIdentity, Procs
<1>p. /\ pc'[p] = "spawned" /\ pc'[c] = "claim" /\ tok'[c] = tok[p] /\ tok'[p] = tok[p]
      /\ kid'[p] = c /\ row' = row
      /\ \A q \in Procs \ {p, c} : pc'[q] = pc[q] /\ tok'[q] = tok[q] /\ kid'[q] = kid[q]
  BY <1>a DEF Spawn, TypeInv, TypeOK
<1>1. RowShape'
  BY <1>p DEF TokenInv, RowShape
<1>2. CarriesToken'
  BY <1>a, <1>p DEF TokenInv, CarriesToken, Working, Reserving, Handing
<1>3. TokensApart'
  BY <1>a, <1>p DEF TokenInv, TokensApart, Working, Reserving, Handing
<1>4. OwnerCarriesToken'
  <2> SUFFICES ASSUME NEW k \in Jobs, NEW b \in Procs, NEW d \in Procs,
                      pc'[b] \in Working, pc'[d] \in Working,
                      row'[k].owner = b, row'[k].res.tok = tok'[d]
               PROVE  b = d
    BY DEF OwnerCarriesToken
  <2>1. b # c /\ b # p /\ d # p
    BY <1>a, <1>p DEF Working
  <2>2. CASE d = c
    BY <2>1, <2>2, <1>a, <1>p DEF TokenInv, ReserverAlone, Reserving
  <2>3. CASE d # c
    BY <2>1, <2>3, <1>p DEF TokenInv, OwnerCarriesToken
  <2> QED BY <2>2, <2>3
<1>5. ReserverAlone'
  BY <1>a, <1>p DEF TokenInv, ReserverAlone, Reserving, Working
<1> QED BY <1>1, <1>2, <1>3, <1>4, <1>5 DEF TokenInv

LEMMA TokenInvStep == TypeInv /\ TokenInv /\ [Next]_vars => TokenInv'
<1> SUFFICES ASSUME TypeInv, TokenInv, [Next]_vars PROVE TokenInv'
  OBVIOUS
<1>1. CASE Next
  <2>1. StepKind
    BY <1>1, StepKinds
  <2> QED
    BY <2>1, CalmKeepsTokenInv, HandoverKeepsTokenInv, TakesRowKeepsTokenInv, ReserveKeepsTokenInv,
       SpawnKeepsTokenInv DEF StepKind, Calm
<1>2. CASE UNCHANGED vars
  BY <1>2 DEF vars, TokenInv, RowShape, CarriesToken, TokensApart, OwnerCarriesToken, ReserverAlone
<1> QED BY <1>1, <1>2

LEMMA InitTokenInv == Init => TokenInv
  BY ConstantsAssumption
  DEF ConstantsAssumption, Init, TokenInv, RowShape, CarriesToken, TokensApart, OwnerCarriesToken,
      ReserverAlone, Working, Reserving, Handing, NoRow, NoRes, Procs

\* The invariant excludes two authorised runners: both carry a token, and the
\* owner of a row carries the token of the row's permit.
LEMMA TokenInvImplies == TypeInv /\ TokenInv => OneRunnerPerTurn
<1> SUFFICES ASSUME TypeInv, TokenInv, NEW j \in Jobs,
                    NEW c \in Authorised(j), NEW d \in Authorised(j)
             PROVE  c = d
  BY DEF OneRunnerPerTurn
<1>1. c \in Procs /\ d \in Procs /\ pc[c] \in Working /\ pc[d] \in Working
  BY DEF Authorised, Procs
<1>2. CASE row[j].owner = c /\ row[j].owner = d
  BY <1>2
<1>3. CASE row[j].owner = c /\ row[j].res.tok = tok[d]
  BY <1>1, <1>3 DEF TokenInv, OwnerCarriesToken
<1>4. CASE row[j].owner = d /\ row[j].res.tok = tok[c]
  BY <1>1, <1>4 DEF TokenInv, OwnerCarriesToken
<1>5. CASE row[j].res.tok = tok[c] /\ row[j].res.tok = tok[d]
  BY <1>1, <1>5 DEF TokenInv, TokensApart
<1> QED BY <1>2, <1>3, <1>4, <1>5 DEF Authorised

\* The queue, the journals and the processes keep their types in every
\* behaviour; in particular a restart streak never exceeds ParkAfter.
THEOREM TypeCorrect == Spec => []TypeOK
<1>1. Init => TypeInv
  BY InitTypeInv
<1>2. TypeInv /\ [Next]_vars => TypeInv'
  BY TypeInvStep
<1>3. TypeInv => TypeOK
  BY DEF TypeInv
<1> QED BY <1>1, <1>2, <1>3, PTL DEF Spec

\* Whatever launchers race, whoever dies and whichever permit is stolen, at most
\* one live runner owns a turn's row or carries its current reservation token.
THEOREM OneRunner == Spec => []OneRunnerPerTurn
<1>1. Init => TypeInv /\ TokenInv
  BY InitTypeInv, InitTokenInv
<1>2. TypeInv /\ TokenInv /\ [Next]_vars => (TypeInv /\ TokenInv)'
  BY TypeInvStep, TokenInvStep
<1>3. TypeInv /\ TokenInv => OneRunnerPerTurn
  BY TokenInvImplies
<1> QED BY <1>1, <1>2, <1>3, PTL DEF Spec

-----------------------------------------------------------------------------
(* The executor is alone *)

\* Where a process holds the flock of the journal of the turn it works on.
Fenced == {"adopting", "retiring", "finalizing", "fenced", "run"}

FlockInv == \A p \in Procs : pc[p] \in Fenced => log[at[p]].holder = p

\* Who has, or is about to give, a say in a turn: a working runner that owns the
\* row or carries its token, and a launcher about to spawn with that token.
Claims(d, j) ==
    /\ at[d] = j
    /\ \/ pc[d] \in Working /\ (row[j].owner = d \/ row[j].res.tok = tok[d])
       \/ pc[d] = "permit" /\ row[j].res.tok = tok[d]

\* The turn of a running executor has a row, and nobody else claims it.
RunInv ==
    \A c \in Procs : pc[c] = "run" => /\ Queued(at[c])
                                      /\ \A d \in Procs \ {c} : ~Claims(d, at[c])

\* What a step of p does to the processes, to the flocks and to the rows.
Opens(p) == /\ pc[p] = "exec" /\ RunnerEntry(p, at[p])
            /\ row' = row /\ tok' = tok /\ \A q \in Procs \ {p} : pc'[q] = pc[q]

ProcMove(p) ==
    /\ \A q \in Procs \ {p} : \/ pc'[q] = pc[q] /\ at'[q] = at[q]
                              \/ pc[q] = "dead" /\ pc'[q] = "claim"
    /\ pc'[p] \in Working \cup {"permit"} => at'[p] = at[p]
    /\ pc'[p] = "permit" => pc[p] = "permit" \/ Free(at[p])
    /\ pc'[p] = "run" => pc[p] = "run" \/ Opens(p)

HolderMove(p) ==
    /\ pc'[p] \in Fenced => log'[at'[p]].holder = p
    /\ \A j \in Jobs : log'[j].holder = log[j].holder \/ log[j].holder \in {None, p}

RowMove(p) ==
    \A j \in Jobs : row'[j].st = "absent" =>
        row[j].st = "absent" \/ (pc[p] \in Fenced /\ at[p] = j /\ pc'[p] # "run")

LockMove(p) == ProcMove(p) /\ HolderMove(p) /\ RowMove(p)

\* A flock that is free is taken.
LEMMA TakesFlock ==
    ASSUME TypeInv, NEW p \in Procs, NEW j \in Jobs, Free(j),
           \/ log' = [log EXCEPT ![j].holder = p]
           \/ log' = [log EXCEPT ![j].holder = p, ![j].done = TRUE, ![j].used = TRUE]
    PROVE  /\ log'[j].holder = p
           /\ \A i \in Jobs : log'[i].holder = log[i].holder \/ log[i].holder \in {None, p}
  BY DEF TypeInv, TypeOK, Log, Free

LEMMA RetireTakesFlock ==
    ASSUME TypeInv, NEW p \in Procs, NEW j \in Jobs, NEW r, Free(j), BeginRetire(p, j, r)
    PROVE  HolderMove(p)
<1>1. at'[p] = j
  BY DEF BeginRetire, TypeInv, TypeOK
<1>2. log' = [log EXCEPT ![j].holder = p, ![j].done = TRUE, ![j].used = TRUE]
  BY DEF BeginRetire
<1> QED BY <1>1, <1>2, TakesFlock DEF HolderMove

LEMMA LockMoves ==
    ASSUME TypeInv, FlockInv, Next
    PROVE  \E p \in Procs : LockMove(p)
<1> USE ConstantsAssumption
<1> USE DEF ConstantsAssumption
<1>1. ASSUME NEW p \in Launchers, NEW j \in Jobs, Submit(p, j) PROVE LockMove(p)
  <2>a. p \in Procs
    BY DEF Procs
  <2>1. ProcMove(p)
    BY <1>1, <2>a DEF Submit, TypeInv, TypeOK, Goto, Idle, ProcMove, Working
  <2>2. HolderMove(p)
    BY <1>1, <2>a, FlockInv DEF Submit, TypeInv, TypeOK, Goto, Idle, Log, HolderMove, FlockInv, Fenced, Free
  <2>3. RowMove(p)
    BY <1>1, <2>a DEF Submit, TypeInv, TypeOK, Goto, Idle, Row, RowMove, Fenced
  <2> QED BY <2>1, <2>2, <2>3 DEF LockMove
<1>2. ASSUME NEW p \in Launchers, NEW j \in Jobs, NEW seen \in SUBSET Dead, AdoptFence(p, j, seen) PROVE LockMove(p)
  <2>a. p \in Procs
    BY DEF Procs
  <2>1. ProcMove(p)
    BY <1>2, <2>a DEF AdoptFence, TypeInv, TypeOK, Goto, Idle, ProcMove, Working
  <2>2. HolderMove(p)
    BY <1>2, <2>a, FlockInv DEF AdoptFence, TypeInv, TypeOK, Goto, Idle, Log, HolderMove, FlockInv, Fenced, Free
  <2>3. RowMove(p)
    BY <1>2, <2>a DEF AdoptFence, TypeInv, TypeOK, Goto, Idle, Row, RowMove, Fenced
  <2> QED BY <2>1, <2>2, <2>3 DEF LockMove
<1>3. ASSUME NEW p \in Launchers, AdoptRow(p) PROVE LockMove(p)
  <2>a. p \in Procs
    BY DEF Procs
  <2>b. at[p] \in Jobs
    BY <1>3, <2>a DEF AdoptRow, TypeInv, Placed
  <2>1. ProcMove(p)
    BY <1>3, <2>a, <2>b DEF AdoptRow, TypeInv, TypeOK, Goto, Return, Forget, ProcMove, Working
  <2>2. HolderMove(p)
    BY <1>3, <2>a, <2>b, FlockInv DEF AdoptRow, TypeInv, TypeOK, Goto, Return, Forget, Unlocked, Log, HolderMove, FlockInv, Fenced, Free
  <2>3. RowMove(p)
    BY <1>3, <2>a, <2>b DEF AdoptRow, TypeInv, TypeOK, Goto, Return, Forget, Row, RowMove, Fenced
  <2> QED BY <2>1, <2>2, <2>3 DEF LockMove
<1>4. ASSUME NEW p \in Launchers, NEW j \in Jobs, NEW seen \in SUBSET Dead, ClearDeadRunner(p, j, seen) PROVE LockMove(p)
  <2>a. p \in Procs
    BY DEF Procs
  <2>1. ProcMove(p)
    BY <1>4, <2>a DEF ClearDeadRunner, TypeInv, TypeOK, Goto, Idle, ProcMove, Working
  <2>2. HolderMove(p)
    BY <1>4, <2>a, FlockInv DEF ClearDeadRunner, TypeInv, TypeOK, Goto, Idle, Log, HolderMove, FlockInv, Fenced, Free
  <2>3. RowMove(p)
    BY <1>4, <2>a DEF ClearDeadRunner, TypeInv, TypeOK, Goto, Idle, Row, RowMove, Fenced
  <2> QED BY <2>1, <2>2, <2>3 DEF LockMove
<1>5. ASSUME NEW p \in Launchers, NEW j \in Jobs, NEW seen \in SUBSET Dead, StartReplacement(p, j, seen) PROVE LockMove(p)
  <2>a. p \in Procs
    BY DEF Procs
  <2>1. ProcMove(p)
    BY <1>5, <2>a DEF StartReplacement, TypeInv, TypeOK, Goto, Idle, ProcMove, Working
  <2>2. HolderMove(p)
    BY <1>5, <2>a, FlockInv DEF StartReplacement, TypeInv, TypeOK, Goto, Idle, Log, HolderMove, FlockInv, Fenced, Free
  <2>3. RowMove(p)
    <3>1. row' = row \/ row' = [row EXCEPT ![j] = Park(row[j])]
      BY <1>5 DEF StartReplacement
    <3>2. Park(row[j]).st = "parked"
      BY DEF Park, TypeInv, TypeOK, Row
    <3> QED BY <3>1, <3>2 DEF TypeInv, TypeOK, RowMove
  <2> QED BY <2>1, <2>2, <2>3 DEF LockMove
<1>6. ASSUME NEW p \in Procs, NEW j \in Jobs, UnparkOldest(p, j) PROVE LockMove(p)
  <2>1. ProcMove(p)
    BY <1>6 DEF UnparkOldest, TypeInv, TypeOK, Goto, Idle, ProcMove, Working
  <2>2. HolderMove(p)
    BY <1>6, FlockInv DEF UnparkOldest, TypeInv, TypeOK, Goto, Idle, Log, HolderMove, FlockInv, Fenced, Free
  <2>3. RowMove(p)
    BY <1>6 DEF UnparkOldest, TypeInv, TypeOK, Goto, Idle, Row, RowMove, Fenced
  <2> QED BY <2>1, <2>2, <2>3 DEF LockMove
<1>7. ASSUME NEW p \in Procs, NothingParked(p) PROVE LockMove(p)
  <2>1. ProcMove(p)
    BY <1>7 DEF NothingParked, TypeInv, TypeOK, Goto, Return, Forget, ProcMove, Working
  <2>2. HolderMove(p)
    BY <1>7, FlockInv DEF NothingParked, TypeInv, TypeOK, Goto, Return, Forget, Log, HolderMove, FlockInv, Fenced, Free
  <2>3. RowMove(p)
    BY <1>7 DEF NothingParked, TypeInv, TypeOK, Goto, Return, Forget, Row, RowMove, Fenced
  <2> QED BY <2>1, <2>2, <2>3 DEF LockMove
<1>8. ASSUME NEW p \in Launchers, ResetFailures(p) PROVE LockMove(p)
  <2>a. p \in Procs
    BY DEF Procs
  <2>1. ProcMove(p)
    BY <1>8, <2>a DEF ResetFailures, TypeInv, TypeOK, Goto, Idle, ProcMove, Working
  <2>2. HolderMove(p)
    BY <1>8, <2>a, FlockInv DEF ResetFailures, TypeInv, TypeOK, Goto, Idle, Log, HolderMove, FlockInv, Fenced, Free
  <2>3. RowMove(p)
    <3> SUFFICES ASSUME NEW j \in Jobs, row'[j].st = "absent" PROVE row[j].st = "absent"
      BY DEF RowMove
    <3>1. row[j] \in Row
      BY DEF TypeInv, TypeOK
    <3>2. \/ row'[j] = row[j]
          \/ row[j].st # "parked" /\ row'[j] = [row[j] EXCEPT !.fails = 0, !.st = row[j].st, !.owner = row[j].owner]
          \/ row'[j] = [row[j] EXCEPT !.fails = 0, !.st = "waiting", !.owner = p]
      BY <1>8 DEF ResetFailures
    <3> QED BY <3>1, <3>2 DEF Row
  <2> QED BY <2>1, <2>2, <2>3 DEF LockMove
<1>9. ASSUME NEW p \in Launchers, NEW j \in Jobs, RetainCancel(p, j) PROVE LockMove(p)
  <2>a. p \in Procs
    BY DEF Procs
  <2>1. ProcMove(p)
    BY <1>9, <2>a DEF RetainCancel, TypeInv, TypeOK, Goto, Idle, ProcMove, Working
  <2>2. HolderMove(p)
    BY <1>9, <2>a, FlockInv DEF RetainCancel, TypeInv, TypeOK, Goto, Idle, Log, HolderMove, FlockInv, Fenced, Free
  <2>3. RowMove(p)
    BY <1>9, <2>a DEF RetainCancel, TypeInv, TypeOK, Goto, Idle, Row, RowMove, Fenced
  <2> QED BY <2>1, <2>2, <2>3 DEF LockMove
<1>10. ASSUME NEW p \in Launchers, NEW j \in Jobs, FinishWaitingCancellation(p, j) PROVE LockMove(p)
  <2>a. p \in Procs
    BY DEF Procs
  <2>1. ProcMove(p)
    BY <1>10, <2>a DEF FinishWaitingCancellation, TypeInv, TypeOK, Goto, BeginRetire, Idle, ProcMove, Working
  <2>2. HolderMove(p)
    BY <1>10, <2>a, FlockInv DEF FinishWaitingCancellation, TypeInv, TypeOK, Goto, BeginRetire, Idle, Log, HolderMove, FlockInv, Fenced, Free
  <2>3. RowMove(p)
    BY <1>10, <2>a DEF FinishWaitingCancellation, TypeInv, TypeOK, Goto, BeginRetire, Idle, Row, RowMove, Fenced
  <2> QED BY <2>1, <2>2, <2>3 DEF LockMove
<1>11. ASSUME NEW p \in Procs, RemoveRow(p) PROVE LockMove(p)
  <2>b. at[p] \in Jobs
    BY <1>11 DEF RemoveRow, TypeInv, Placed
  <2>1. ProcMove(p)
    BY <1>11, <2>b DEF RemoveRow, TypeInv, TypeOK, Goto, Return, Forget, local, ProcMove, Working
  <2>2. HolderMove(p)
    BY <1>11, <2>b, FlockInv DEF RemoveRow, TypeInv, TypeOK, Goto, Return, Forget, local, Unlocked, Log, HolderMove, FlockInv, Fenced, Free
  <2>3. RowMove(p)
    BY <1>11, <2>b DEF RemoveRow, TypeInv, TypeOK, Goto, Return, Forget, local, Row, RowMove, Fenced
  <2> QED BY <2>1, <2>2, <2>3 DEF LockMove
<1>12. ASSUME NEW p \in Procs, NEW seen \in SUBSET Dead, ReserveSlot(p, seen) PROVE LockMove(p)
  <2>b. at[p] \in Jobs
    BY <1>12 DEF ReserveSlot, TypeInv, Placed
  <2>1. ProcMove(p)
    BY <1>12, <2>b DEF ReserveSlot, TypeInv, TypeOK, Goto, ProcMove, Working
  <2>2. HolderMove(p)
    BY <1>12, <2>b, FlockInv DEF ReserveSlot, TypeInv, TypeOK, Goto, Log, HolderMove, FlockInv, Fenced, Free
  <2>3. RowMove(p)
    BY <1>12, <2>b DEF ReserveSlot, TypeInv, TypeOK, Goto, Row, RowMove, Fenced
  <2> QED BY <2>1, <2>2, <2>3 DEF LockMove
<1>13. ASSUME NEW p \in Procs, NEW seen \in SUBSET Dead, ReserveRefused(p, seen) PROVE LockMove(p)
  <2>1. ProcMove(p)
    BY <1>13 DEF ReserveRefused, TypeInv, TypeOK, Goto, Return, Forget, local, ProcMove, Working
  <2>2. HolderMove(p)
    BY <1>13, FlockInv DEF ReserveRefused, TypeInv, TypeOK, Goto, Return, Forget, local, Log, HolderMove, FlockInv, Fenced, Free
  <2>3. RowMove(p)
    BY <1>13 DEF ReserveRefused, TypeInv, TypeOK, Goto, Return, Forget, local, Row, RowMove, Fenced
  <2> QED BY <2>1, <2>2, <2>3 DEF LockMove
<1>14. ASSUME NEW p \in Procs, RowRetiredBeforeReserve(p) PROVE LockMove(p)
  <2>1. ProcMove(p)
    BY <1>14 DEF RowRetiredBeforeReserve, TypeInv, TypeOK, Goto, ProcMove, Working
  <2>2. HolderMove(p)
    BY <1>14, FlockInv DEF RowRetiredBeforeReserve, TypeInv, TypeOK, Goto, Log, HolderMove, FlockInv, Fenced, Free
  <2>3. RowMove(p)
    BY <1>14 DEF RowRetiredBeforeReserve, TypeInv, TypeOK, Goto, Row, RowMove, Fenced
  <2> QED BY <2>1, <2>2, <2>3 DEF LockMove
<1>15. ASSUME NEW p \in Procs, ParkSaturated(p) PROVE LockMove(p)
  <2>b. at[p] \in Jobs
    BY <1>15 DEF ParkSaturated, TypeInv, Placed
  <2>1. ProcMove(p)
    BY <1>15, <2>b DEF ParkSaturated, TypeInv, TypeOK, Goto, Return, Forget, ProcMove, Working
  <2>2. HolderMove(p)
    BY <1>15, <2>b, FlockInv DEF ParkSaturated, TypeInv, TypeOK, Goto, Return, Forget, Log, HolderMove, FlockInv, Fenced, Free
  <2>3. RowMove(p)
    BY <1>15, <2>b DEF ParkSaturated, TypeInv, TypeOK, Goto, Return, Forget, Park, Row, RowMove, Fenced
  <2> QED BY <2>1, <2>2, <2>3 DEF LockMove
<1>16. ASSUME NEW p \in Procs, ReadExpected(p) PROVE LockMove(p)
  <2>b. at[p] \in Jobs
    BY <1>16 DEF ReadExpected, TypeInv, Placed
  <2>1. ProcMove(p)
    BY <1>16, <2>b DEF ReadExpected, TypeInv, TypeOK, Goto, ProcMove, Working
  <2>2. HolderMove(p)
    BY <1>16, <2>b, FlockInv DEF ReadExpected, TypeInv, TypeOK, Goto, Log, HolderMove, FlockInv, Fenced, Free
  <2>3. RowMove(p)
    BY <1>16, <2>b DEF ReadExpected, TypeInv, TypeOK, Goto, Row, RowMove, Fenced
  <2> QED BY <2>1, <2>2, <2>3 DEF LockMove
<1>17. ASSUME NEW p \in Procs, CheckPermit(p) PROVE LockMove(p)
  <2>b. at[p] \in Jobs
    BY <1>17 DEF CheckPermit, TypeInv, Placed
  <2>1. ProcMove(p)
    BY <1>17, <2>b DEF CheckPermit, TypeInv, TypeOK, Goto, SpawnAdmitted, ProcMove, Working
  <2>2. HolderMove(p)
    BY <1>17, <2>b, FlockInv DEF CheckPermit, TypeInv, TypeOK, Goto, Log, HolderMove, FlockInv, Fenced, Free
  <2>3. RowMove(p)
    <3>1. row' = row \/ row' = [row EXCEPT ![at[p]] = [row[at[p]] EXCEPT !.res = NoRes]]
      BY <1>17 DEF CheckPermit, Released
    <3>2. [row[at[p]] EXCEPT !.res = NoRes].st = row[at[p]].st
      BY <2>b DEF TypeInv, TypeOK, Row
    <3> QED BY <2>b, <3>1, <3>2 DEF TypeInv, TypeOK, RowMove
  <2> QED BY <2>1, <2>2, <2>3 DEF LockMove
<1>18. ASSUME NEW p \in Procs, HandoffTimeout(p) PROVE LockMove(p)
  <2>b. at[p] \in Jobs
    BY <1>18 DEF HandoffTimeout, TypeInv, Placed
  <2>1. ProcMove(p)
    BY <1>18, <2>b DEF HandoffTimeout, TypeInv, TypeOK, Goto, ProcMove, Working
  <2>2. HolderMove(p)
    BY <1>18, <2>b, FlockInv DEF HandoffTimeout, TypeInv, TypeOK, Goto, Log, HolderMove, FlockInv, Fenced, Free
  <2>3. RowMove(p)
    BY <1>18, <2>b DEF HandoffTimeout, TypeInv, TypeOK, Goto, Released, Row, RowMove, Fenced
  <2> QED BY <2>1, <2>2, <2>3 DEF LockMove
<1>19. ASSUME NEW p \in Procs, NEW c \in Runners, Spawn(p, c) PROVE LockMove(p)
  <2>b. at[p] \in Jobs
    BY <1>19 DEF Spawn, TypeInv, Placed
  <2>1. ProcMove(p)
    BY <1>19, <2>b DEF Spawn, TypeInv, TypeOK, Goto, NewIdentity, ProcMove, Working
  <2>2. HolderMove(p)
    BY <1>19, <2>b, FlockInv DEF Spawn, TypeInv, TypeOK, Goto, Log, HolderMove, FlockInv, Fenced, Free
  <2>3. RowMove(p)
    BY <1>19, <2>b DEF Spawn, TypeInv, TypeOK, Goto, Row, RowMove, Fenced
  <2> QED BY <2>1, <2>2, <2>3 DEF LockMove
<1>20. ASSUME NEW p \in Procs, SpawnFails(p) PROVE LockMove(p)
  <2>b. at[p] \in Jobs
    BY <1>20 DEF SpawnFails, TypeInv, Placed
  <2>1. ProcMove(p)
    BY <1>20, <2>b DEF SpawnFails, TypeInv, TypeOK, Goto, ProcMove, Working
  <2>2. HolderMove(p)
    BY <1>20, <2>b, FlockInv DEF SpawnFails, TypeInv, TypeOK, Goto, Log, HolderMove, FlockInv, Fenced, Free
  <2>3. RowMove(p)
    BY <1>20, <2>b DEF SpawnFails, TypeInv, TypeOK, Goto, Released, Row, RowMove, Fenced
  <2> QED BY <2>1, <2>2, <2>3 DEF LockMove
<1>21. ASSUME NEW p \in Procs, BindChild(p) PROVE LockMove(p)
  <2>b. at[p] \in Jobs
    BY <1>21 DEF BindChild, TypeInv, Placed
  <2>1. ProcMove(p)
    BY <1>21, <2>b DEF BindChild, TypeInv, TypeOK, Goto, ProcMove, Working
  <2>2. HolderMove(p)
    BY <1>21, <2>b, FlockInv DEF BindChild, TypeInv, TypeOK, Goto, Log, HolderMove, FlockInv, Fenced, Free
  <2>3. RowMove(p)
    <3>1. row' = row \/ row' = [row EXCEPT ![at[p]] = [row[at[p]] EXCEPT !.res.child = kid[p]]]
      BY <1>21 DEF BindChild
    <3>2. [row[at[p]] EXCEPT !.res.child = kid[p]].st = row[at[p]].st
      BY <2>b DEF TypeInv, TypeOK, Row
    <3> QED BY <2>b, <3>1, <3>2 DEF TypeInv, TypeOK, RowMove
  <2> QED BY <2>1, <2>2, <2>3 DEF LockMove
<1>22. ASSUME NEW p \in Procs, FenceHandoff(p) PROVE LockMove(p)
  <2>b. at[p] \in Jobs
    BY <1>22 DEF FenceHandoff, TypeInv, Placed
  <2>1. ProcMove(p)
    BY <1>22, <2>b DEF FenceHandoff, TypeInv, TypeOK, Goto, ProcMove, Working
  <2>2. HolderMove(p)
    <3>1. \/ /\ log' = [log EXCEPT ![at[p]].holder = p] /\ Free(at[p])
             /\ pc' = [pc EXCEPT ![p] = "fenced"] /\ at' = at
          \/ log' = log /\ pc' = [pc EXCEPT ![p] = "failed"]
      BY <1>22 DEF FenceHandoff, Goto
    <3>3. CASE log' = log /\ pc' = [pc EXCEPT ![p] = "failed"]
      BY <3>3 DEF TypeInv, TypeOK, HolderMove, Fenced
    <3> QED BY <2>b, <3>1, <3>3, TakesFlock DEF HolderMove
  <2>3. RowMove(p)
    BY <1>22, <2>b DEF FenceHandoff, TypeInv, TypeOK, Goto, Row, RowMove, Fenced
  <2> QED BY <2>1, <2>2, <2>3 DEF LockMove
<1>23. ASSUME NEW p \in Procs, NEW w \in 1..3, CompleteSpawn(p, w) PROVE LockMove(p)
  <2>b. at[p] \in Jobs
    BY <1>23 DEF CompleteSpawn, TypeInv, Placed
  <2>1. ProcMove(p)
    BY <1>23, <2>b DEF CompleteSpawn, TypeInv, TypeOK, Goto, Return, Forget, ProcMove, Working
  <2>2. HolderMove(p)
    BY <1>23, <2>b, FlockInv DEF CompleteSpawn, TypeInv, TypeOK, Goto, Return, Forget, Unlocked, Log, HolderMove, FlockInv, Fenced, Free
  <2>3. RowMove(p)
    BY <1>23, <2>b DEF CompleteSpawn, TypeInv, TypeOK, Goto, Return, Forget, Row, RowMove, Fenced
  <2> QED BY <2>1, <2>2, <2>3 DEF LockMove
<1>24. ASSUME NEW p \in Procs, StartFailed(p) PROVE LockMove(p)
  <2>b. at[p] \in Jobs
    BY <1>24 DEF StartFailed, TypeInv, Placed
  <2>1. ProcMove(p)
    BY <1>24, <2>b DEF StartFailed, TypeInv, TypeOK, Goto, Return, Forget, BeginRetire, ProcMove, Working
  <2>2. HolderMove(p)
    <3>1. \/ Free(at[p]) /\ BeginRetire(p, at[p], row'[at[p]])
          \/ log' = log /\ Return(p)
      BY <1>24 DEF StartFailed
    <3>2. CASE Free(at[p]) /\ BeginRetire(p, at[p], row'[at[p]])
      BY <2>b, <3>2, RetireTakesFlock
    <3>3. CASE log' = log /\ Return(p)
      BY <3>3 DEF TypeInv, TypeOK, Return, Goto, HolderMove, Fenced
    <3> QED BY <3>1, <3>2, <3>3
  <2>3. RowMove(p)
    BY <1>24, <2>b DEF StartFailed, TypeInv, TypeOK, Goto, Return, Forget, BeginRetire, Row, RowMove, Fenced
  <2> QED BY <2>1, <2>2, <2>3 DEF LockMove
<1>25. ASSUME NEW c \in Runners, NEW seen \in SUBSET Dead, TakeOver(c, seen) PROVE LockMove(c)
  <2>a. c \in Procs
    BY DEF Procs
  <2>b. at[c] \in Jobs
    BY <1>25, <2>a DEF TakeOver, TypeInv, Placed
  <2>1. ProcMove(c)
    BY <1>25, <2>a, <2>b DEF TakeOver, TypeInv, TypeOK, Goto, ProcMove, Working
  <2>2. HolderMove(c)
    BY <1>25, <2>a, <2>b, FlockInv DEF TakeOver, TypeInv, TypeOK, Goto, Log, HolderMove, FlockInv, Fenced, Free
  <2>3. RowMove(c)
    <3>1. row' = row \/ row' = [row EXCEPT ![at[c]].owner = c]
      BY <1>25 DEF TakeOver
    <3> QED BY <2>b, <3>1 DEF TypeInv, TypeOK, Row, RowMove
  <2> QED BY <2>1, <2>2, <2>3 DEF LockMove
<1>26. ASSUME NEW c \in Runners, NEW seen \in SUBSET Dead, AdoptionTimeout(c, seen) PROVE LockMove(c)
  <2>a. c \in Procs
    BY DEF Procs
  <2>b. at[c] \in Jobs
    BY <1>26, <2>a DEF AdoptionTimeout, TypeInv, Placed
  <2>1. ProcMove(c)
    BY <1>26, <2>a, <2>b DEF AdoptionTimeout, TypeInv, TypeOK, Goto, ProcMove, Working
  <2>2. HolderMove(c)
    BY <1>26, <2>a, <2>b, FlockInv DEF AdoptionTimeout, TypeInv, TypeOK, Goto, Log, HolderMove, FlockInv, Fenced, Free
  <2>3. RowMove(c)
    BY <1>26, <2>a, <2>b DEF AdoptionTimeout, TypeInv, TypeOK, Goto, Row, RowMove, Fenced
  <2> QED BY <2>1, <2>2, <2>3 DEF LockMove
<1>27. ASSUME NEW c \in Runners, InspectOwned(c) PROVE LockMove(c)
  <2>a. c \in Procs
    BY DEF Procs
  <2>b. at[c] \in Jobs
    BY <1>27, <2>a DEF InspectOwned, TypeInv, Placed
  <2>1. ProcMove(c)
    BY <1>27, <2>a, <2>b DEF InspectOwned, TypeInv, TypeOK, Goto, BeginRetire, ProcMove, Working
  <2>2. HolderMove(c)
    BY <1>27, <2>a, <2>b, FlockInv DEF InspectOwned, TypeInv, TypeOK, Goto, BeginRetire, Log, HolderMove, FlockInv, Fenced, Free
  <2>3. RowMove(c)
    <3>1. row' = row \/ row' = [row EXCEPT ![at[c]].st = "dispatching"]
      BY <1>27 DEF InspectOwned
    <3> QED BY <2>b, <3>1 DEF TypeInv, TypeOK, Row, RowMove
  <2> QED BY <2>1, <2>2, <2>3 DEF LockMove
<1>28. ASSUME NEW c \in Runners, InspectForeign(c) PROVE LockMove(c)
  <2>a. c \in Procs
    BY DEF Procs
  <2>b. at[c] \in Jobs
    BY <1>28, <2>a DEF InspectForeign, TypeInv, Placed
  <2>1. ProcMove(c)
    BY <1>28, <2>a, <2>b DEF InspectForeign, TypeInv, TypeOK, Goto, BeginRetire, ProcMove, Working
  <2>2. HolderMove(c)
    BY <1>28, <2>a, <2>b, FlockInv DEF InspectForeign, TypeInv, TypeOK, Goto, BeginRetire, Log, HolderMove, FlockInv, Fenced, Free
  <2>3. RowMove(c)
    BY <1>28, <2>a, <2>b DEF InspectForeign, TypeInv, TypeOK, Goto, BeginRetire, Row, RowMove, Fenced
  <2> QED BY <2>1, <2>2, <2>3 DEF LockMove
<1>29. ASSUME NEW c \in Runners, Claim(c) PROVE LockMove(c)
  <2>a. c \in Procs
    BY DEF Procs
  <2>b. at[c] \in Jobs
    BY <1>29, <2>a DEF Claim, TypeInv, Placed
  <2>1. ProcMove(c)
    BY <1>29, <2>a, <2>b DEF Claim, TypeInv, TypeOK, Goto, ProcMove, Working
  <2>2. HolderMove(c)
    BY <1>29, <2>a, <2>b, FlockInv DEF Claim, TypeInv, TypeOK, Goto, Log, HolderMove, FlockInv, Fenced, Free
  <2>3. RowMove(c)
    BY <1>29, <2>a, <2>b DEF Claim, TypeInv, TypeOK, Goto, Row, RowMove, Fenced
  <2> QED BY <2>1, <2>2, <2>3 DEF LockMove
<1>30. ASSUME NEW c \in Runners, ClaimBlocked(c) PROVE LockMove(c)
  <2>a. c \in Procs
    BY DEF Procs
  <2>b. at[c] \in Jobs
    BY <1>30, <2>a DEF ClaimBlocked, TypeInv, Placed
  <2>1. ProcMove(c)
    BY <1>30, <2>a, <2>b DEF ClaimBlocked, TypeInv, TypeOK, Goto, BeginRetire, ProcMove, Working
  <2>2. HolderMove(c)
    BY <1>30, <2>a, <2>b, FlockInv DEF ClaimBlocked, TypeInv, TypeOK, Goto, BeginRetire, Log, HolderMove, FlockInv, Fenced, Free
  <2>3. RowMove(c)
    BY <1>30, <2>a, <2>b DEF ClaimBlocked, TypeInv, TypeOK, Goto, BeginRetire, Row, RowMove, Fenced
  <2> QED BY <2>1, <2>2, <2>3 DEF LockMove
<1>31. ASSUME NEW c \in Runners, OpenJournal(c) PROVE LockMove(c)
  <2>a. c \in Procs
    BY DEF Procs
  <2>b. at[c] \in Jobs
    BY <1>31, <2>a DEF OpenJournal, TypeInv, Placed
  <2>1. ProcMove(c)
    BY <1>31, <2>a, <2>b DEF OpenJournal, TypeInv, TypeOK, Goto, BeginRetire, Opens, ProcMove, Working
  <2>2. HolderMove(c)
    <3>1. \/ log' = log /\ pc' = [pc EXCEPT ![c] = "err"]
          \/ log' = [log EXCEPT ![at[c]].holder = c] /\ Free(at[c]) /\ at' = at
          \/ Free(at[c]) /\ BeginRetire(c, at[c], row[at[c]])
      BY <1>31 DEF OpenJournal, Goto
    <3>2. CASE Free(at[c]) /\ BeginRetire(c, at[c], row[at[c]])
      BY <2>a, <2>b, <3>2, RetireTakesFlock
    <3>3. CASE log' = log /\ pc' = [pc EXCEPT ![c] = "err"]
      BY <2>a, <3>3 DEF TypeInv, TypeOK, HolderMove, Fenced
    <3>4. CASE log' = [log EXCEPT ![at[c]].holder = c] /\ Free(at[c]) /\ at' = at
      BY <2>a, <2>b, <3>4, TakesFlock DEF HolderMove
    <3> QED BY <3>1, <3>2, <3>3, <3>4
  <2>3. RowMove(c)
    BY <1>31, <2>a, <2>b DEF OpenJournal, TypeInv, TypeOK, Goto, BeginRetire, Row, RowMove, Fenced
  <2> QED BY <2>1, <2>2, <2>3 DEF LockMove
<1>32. ASSUME NEW c \in Runners, Accept(c) PROVE LockMove(c)
  <2>a. c \in Procs
    BY DEF Procs
  <2>b. at[c] \in Jobs
    BY <1>32, <2>a DEF Accept, TypeInv, Placed
  <2>1. ProcMove(c)
    BY <1>32, <2>a, <2>b DEF Accept, TypeInv, TypeOK, Goto, ProcMove, Working
  <2>2. HolderMove(c)
    BY <1>32, <2>a, <2>b, FlockInv DEF Accept, TypeInv, TypeOK, Goto, Log, HolderMove, FlockInv, Fenced, Free
  <2>3. RowMove(c)
    BY <1>32, <2>a, <2>b DEF Accept, TypeInv, TypeOK, Goto, Row, RowMove, Fenced
  <2> QED BY <2>1, <2>2, <2>3 DEF LockMove
<1>33. ASSUME NEW c \in Runners, Finish(c) PROVE LockMove(c)
  <2>a. c \in Procs
    BY DEF Procs
  <2>b. at[c] \in Jobs
    BY <1>33, <2>a DEF Finish, TypeInv, Placed
  <2>1. ProcMove(c)
    BY <1>33, <2>a, <2>b DEF Finish, TypeInv, TypeOK, Goto, ProcMove, Working
  <2>2. HolderMove(c)
    BY <1>33, <2>a, <2>b, FlockInv DEF Finish, TypeInv, TypeOK, Goto, Log, HolderMove, FlockInv, Fenced, Free
  <2>3. RowMove(c)
    BY <1>33, <2>a, <2>b DEF Finish, TypeInv, TypeOK, Goto, Row, RowMove, Fenced
  <2> QED BY <2>1, <2>2, <2>3 DEF LockMove
<1>34. ASSUME NEW c \in Runners, RunError(c) PROVE LockMove(c)
  <2>a. c \in Procs
    BY DEF Procs
  <2>b. at[c] \in Jobs
    BY <1>34, <2>a DEF RunError, TypeInv, Placed
  <2>1. ProcMove(c)
    BY <1>34, <2>a, <2>b DEF RunError, TypeInv, TypeOK, Goto, ProcMove, Working
  <2>2. HolderMove(c)
    BY <1>34, <2>a, <2>b, FlockInv DEF RunError, TypeInv, TypeOK, Goto, Unlocked, Log, HolderMove, FlockInv, Fenced, Free
  <2>3. RowMove(c)
    BY <1>34, <2>a, <2>b DEF RunError, TypeInv, TypeOK, Goto, Row, RowMove, Fenced
  <2> QED BY <2>1, <2>2, <2>3 DEF LockMove
<1>35. ASSUME NEW c \in Runners, ErrorCleanup(c) PROVE LockMove(c)
  <2>a. c \in Procs
    BY DEF Procs
  <2>b. at[c] \in Jobs
    BY <1>35, <2>a DEF ErrorCleanup, TypeInv, Placed
  <2>1. ProcMove(c)
    BY <1>35, <2>a, <2>b DEF ErrorCleanup, TypeInv, TypeOK, Goto, ProcMove, Working
  <2>2. HolderMove(c)
    BY <1>35, <2>a, <2>b, FlockInv DEF ErrorCleanup, TypeInv, TypeOK, Goto, Log, HolderMove, FlockInv, Fenced, Free
  <2>3. RowMove(c)
    BY <1>35, <2>a, <2>b DEF ErrorCleanup, TypeInv, TypeOK, Goto, Row, RowMove, Fenced
  <2> QED BY <2>1, <2>2, <2>3 DEF LockMove
<1>36. ASSUME NEW c \in Runners, ExitRunner(c) PROVE LockMove(c)
  <2>a. c \in Procs
    BY DEF Procs
  <2>b. at[c] \in Jobs
    BY <1>36, <2>a DEF ExitRunner, TypeInv, Placed
  <2>1. ProcMove(c)
    BY <1>36, <2>a, <2>b DEF ExitRunner, TypeInv, TypeOK, Goto, Forget, ProcMove, Working
  <2>2. HolderMove(c)
    BY <1>36, <2>a, <2>b, FlockInv DEF ExitRunner, TypeInv, TypeOK, Goto, Forget, Log, HolderMove, FlockInv, Fenced, Free
  <2>3. RowMove(c)
    BY <1>36, <2>a, <2>b DEF ExitRunner, TypeInv, TypeOK, Goto, Forget, Row, RowMove, Fenced
  <2> QED BY <2>1, <2>2, <2>3 DEF LockMove
<1>37. ASSUME NEW p \in Procs, Crash(p) PROVE LockMove(p)
  <2>1. ProcMove(p)
    BY <1>37 DEF Crash, TypeInv, TypeOK, Goto, Forget, ProcMove, Working
  <2>2. HolderMove(p)
    BY <1>37, FlockInv DEF Crash, TypeInv, TypeOK, Goto, Forget, Unlocked, Log, HolderMove, FlockInv, Fenced, Free
  <2>3. RowMove(p)
    BY <1>37 DEF Crash, TypeInv, TypeOK, Goto, Forget, Row, RowMove, Fenced
  <2> QED BY <2>1, <2>2, <2>3 DEF LockMove
<1>38. ASSUME NEW p \in Launchers, NEW j \in Jobs, NEW seen \in SUBSET Dead, ObserveFailure(p, j, seen) PROVE LockMove(p)
  <2>a. p \in Procs
    BY DEF Procs
  <2>1. ProcMove(p)
    BY <1>38, <2>a DEF ObserveFailure, TypeInv, TypeOK, Goto, Idle, ProcMove, Working
  <2>2. HolderMove(p)
    BY <1>38, <2>a, FlockInv DEF ObserveFailure, TypeInv, TypeOK, Goto, Idle, Log, HolderMove, FlockInv, Fenced, Free
  <2>3. RowMove(p)
    BY <1>38, <2>a DEF ObserveFailure, TypeInv, TypeOK, Goto, Idle, Row, RowMove, Fenced
  <2> QED BY <2>1, <2>2, <2>3 DEF LockMove
<1>a. Runners \subseteq Procs /\ Launchers \subseteq Procs
  BY DEF Procs
<1> QED
  BY <1>a, <1>1, <1>2, <1>3, <1>4, <1>5, <1>6, <1>7, <1>8, <1>9, <1>10, <1>11, <1>12, <1>13, <1>14, <1>15, <1>16, <1>17, <1>18, <1>19, <1>20, <1>21, <1>22, <1>23, <1>24, <1>25, <1>26, <1>27, <1>28, <1>29, <1>30, <1>31, <1>32, <1>33, <1>34, <1>35, <1>36, <1>37, <1>38
  DEF Next, Launch, Run, Reconcile, Command

LEMMA FlockInvStep ==
    ASSUME TypeInv, FlockInv, NEW p \in Procs, LockMove(p), TypeInv'
    PROVE  FlockInv'
<1> SUFFICES ASSUME NEW q \in Procs, pc'[q] \in Fenced PROVE log'[at'[q]].holder = q
  BY DEF FlockInv
<1>1. CASE q = p
  BY <1>1 DEF LockMove, HolderMove
<1>2. CASE q # p
  <2>1. pc'[q] = pc[q] /\ at'[q] = at[q]
    BY <1>2 DEF LockMove, ProcMove, Fenced
  <2>2. at[q] \in Jobs /\ log[at[q]].holder = q /\ q # None
    BY <2>1, ConstantsAssumption DEF FlockInv, TypeInv, Placed, Fenced, ConstantsAssumption
  <2> QED BY <1>2, <2>1, <2>2 DEF LockMove, HolderMove
<1> QED BY <1>1, <1>2

\* A rival of a runner that keeps running was one before the step, by the kind
\* of the step.
RivalsOld(j) ==
    \A d \in Procs : at'[d] = j /\ at[d] = j => (Claims(d, j)' => Claims(d, j))

LEMMA SameRowRivals ==
    ASSUME TypeInv, TokenInv, TokenInv', NEW j \in Jobs, NEW p \in Procs, CalmProcs(p),
           row'[j].res.tok \in {row[j].res.tok, None},
           row'[j].owner = row[j].owner \/ row'[j].owner \notin Procs
             \/ pc'[row'[j].owner] \notin Working,
           \A d \in Procs : at[d] = j /\ pc'[d] = "permit" => pc[d] = "permit"
    PROVE  RivalsOld(j)
<1> SUFFICES ASSUME NEW d \in Procs, at'[d] = j, at[d] = j, Claims(d, j)' PROVE Claims(d, j)
  BY DEF RivalsOld
<1>1. CASE pc'[d] \in Working /\ row'[j].owner = d
  <2>1. row[j].owner = d /\ pc[d] \in Working
    BY <1>1 DEF CalmProcs
  <2> QED BY <2>1 DEF Claims
<1>2. CASE pc'[d] \in Working \cup {"permit"} /\ row'[j].res.tok = tok'[d]
  <2>1. pc'[d] \in Working \cup Reserving
    BY <1>2 DEF Reserving
  <2>2. tok'[d] # None /\ tok'[d] = tok[d]
    BY <2>1 DEF TokenInv, CarriesToken, CalmProcs
  <2>3. row[j].res.tok = tok[d]
    BY <1>2, <2>2
  <2>4. pc'[d] \in Working => pc[d] \in Working
    BY DEF CalmProcs
  <2> QED BY <1>2, <2>3, <2>4 DEF Claims
<1> QED BY <1>1, <1>2 DEF Claims

\* The runner c keeps running its turn across the step.
LEMMA StaysAlone ==
    ASSUME TypeInv, TokenInv, TokenInv', FlockInv, RunInv, StepKind,
           NEW p \in Procs, LockMove(p),
           NEW c \in Procs, pc[c] = "run", pc'[c] = "run"
    PROVE  at'[c] = at[c] /\ Queued(at[c])' /\ \A d \in Procs \ {c} : ~Claims(d, at[c])'
<1>j. PICK j \in Jobs : j = at[c]
  BY DEF TypeInv, Placed
<1>0. j = at[c] /\ at'[c] = j /\ log[j].holder = c /\ Queued(j) /\ None \notin Procs
  BY <1>j, ConstantsAssumption
  DEF LockMove, ProcMove, Working, FlockInv, Fenced, RunInv, ConstantsAssumption
<1>1. Queued(j)'
  <2>1. ASSUME pc[p] \in Fenced, at[p] = j PROVE p = c
    BY <1>0, <2>1 DEF FlockInv
  <2> QED BY <1>0, <2>1 DEF LockMove, RowMove, Queued
<1>2. ASSUME NEW d \in Procs, at[d] = j, pc'[d] = "permit" PROVE pc[d] = "permit"
  BY <1>0, <1>2 DEF LockMove, ProcMove, Free
<1>n. \A d \in Procs \ {c} : ~Claims(d, j)
  BY <1>0 DEF RunInv
<1>at. \A d \in Procs : pc'[d] \in Working \cup {"permit"} => at'[d] = at[d] \/ pc[d] = "dead"
  BY DEF LockMove, ProcMove, Working
<1>3. ASSUME NEW q \in Procs, CalmProcs(q), RivalsOld(j) PROVE \A d \in Procs \ {c} : ~Claims(d, j)'
  <2> SUFFICES ASSUME NEW d \in Procs \ {c}, Claims(d, j)' PROVE FALSE
    OBVIOUS
  <2>1. pc'[d] \in Working \cup {"permit"} /\ at'[d] = j
    BY DEF Claims
  <2>2. pc[d] # "dead"
    BY <1>3, <2>1 DEF CalmProcs, Working, Reserving
  <2> QED BY <1>3, <1>n, <1>at, <2>1, <2>2 DEF RivalsOld
<1>4. ASSUME Calm PROVE \A d \in Procs \ {c} : ~Claims(d, j)'
  <2>1. PICK q \in Procs : CalmProcs(q) /\ CalmRows
    BY <1>4 DEF Calm
  <2>2. RivalsOld(j)
    BY <1>0, <1>2, <2>1, SameRowRivals DEF CalmRows, CalmRow
  <2> QED BY <1>3, <2>1, <2>2
<1>5. ASSUME NEW q \in Procs, Handover(q) PROVE \A d \in Procs \ {c} : ~Claims(d, j)'
  <2>1. at[q] # j /\ CalmProcs(q)
    BY <1>0, <1>5 DEF Handover, FlockInv, Fenced
  <2>2. row'[j] = row[j]
    BY <1>0, <1>5, <2>1 DEF Handover, OwnerEdited
  <2>3. RivalsOld(j)
    BY <1>0, <1>2, <2>1, <2>2, SameRowRivals
  <2> QED BY <1>3, <2>1, <2>3
<1>6. ASSUME NEW q \in Procs, TakesRow(q) PROVE \A d \in Procs \ {c} : ~Claims(d, j)'
  <2>1. at[q] # j /\ CalmProcs(q)
    BY <1>0, <1>6, <1>n DEF TakesRow, Claims, Working
  <2>2. row'[j] = row[j]
    BY <1>0, <1>6, <2>1 DEF TakesRow, OwnerEdited
  <2>3. RivalsOld(j)
    BY <1>0, <1>2, <2>1, <2>2, SameRowRivals
  <2> QED BY <1>3, <2>1, <2>3
<1>7. ASSUME NEW q \in Procs, NEW seen \in SUBSET Dead, ReserveSlot(q, seen)
      PROVE  \A d \in Procs \ {c} : ~Claims(d, j)'
  <2> SUFFICES ASSUME NEW d \in Procs \ {c}, Claims(d, j)' PROVE FALSE
    OBVIOUS
  <2>1. NewToken \in Tokens /\ Fresh(NewToken)
    BY <1>7 DEF ReserveSlot, NewToken
  <2>2. /\ pc' = [pc EXCEPT ![q] = "acquired"] /\ tok' = [tok EXCEPT ![q] = NewToken] /\ at' = at
        /\ row' = [row EXCEPT ![at[q]] = [row[at[q]] EXCEPT !.res = [by |-> q, tok |-> NewToken, child |-> None]]]
    BY <1>7 DEF ReserveSlot, Goto
  <2>3. d # q /\ pc'[d] = pc[d] /\ tok'[d] = tok[d] /\ at'[d] = at[d] /\ tok[d] # NewToken
    BY <2>1, <2>2 DEF Claims, Working, TypeInv, TypeOK, Fresh
  <2>4. row \in [Jobs -> Row] /\ row[j] \in Row
    BY <1>0 DEF TypeInv, TypeOK
  <2>5. row'[j].owner = row[j].owner /\ row'[j].res.tok \in {row[j].res.tok, NewToken}
    BY <1>0, <2>2, <2>4 DEF Row
  <2>6. Claims(d, j)
    BY <2>3, <2>5 DEF Claims
  <2> QED BY <1>n, <2>6
<1>8. ASSUME NEW q \in Procs, NEW b \in Runners, Spawn(q, b)
      PROVE  \A d \in Procs \ {c} : ~Claims(d, j)'
  <2> SUFFICES ASSUME NEW d \in Procs \ {c}, Claims(d, j)' PROVE FALSE
    OBVIOUS
  <2>a. b \in Procs /\ pc[b] = "dead" /\ pc[q] = "permit" /\ b # q /\ q # c /\ row[j].owner # b
    BY <1>0, <1>8 DEF Spawn, NewIdentity, Procs
  <2>1. /\ pc' = [pc EXCEPT ![q] = "spawned", ![b] = "claim"] /\ row' = row
        /\ at' = [at EXCEPT ![b] = at[q]] /\ tok' = [tok EXCEPT ![b] = tok[q]]
    BY <1>8 DEF Spawn
  <2>2. d # q
    BY <2>1, <2>a DEF Claims, Working, TypeInv, TypeOK
  <2>3. CASE d = b
    <3>1. at[q] = j /\ row[j].res.tok = tok[q]
      BY <2>1, <2>3, <2>a DEF Claims, TypeInv, TypeOK
    <3> QED BY <1>n, <2>a, <3>1 DEF Claims
  <2>4. CASE d # b
    <3>1. Claims(d, j)
      BY <2>1, <2>2, <2>4 DEF Claims, TypeInv, TypeOK
    <3> QED BY <1>n, <3>1
  <2> QED BY <2>3, <2>4
<1>9. \A d \in Procs \ {c} : ~Claims(d, j)'
  BY <1>4, <1>5, <1>6, <1>7, <1>8 DEF StepKind
<1> QED BY <1>0, <1>1, <1>9

\* The runner c takes the journal of a turn it has a right to.
LEMMA OpensAlone ==
    ASSUME TypeInv, TokenInv, NEW c \in Procs, LockMove(c), Opens(c), pc'[c] = "run"
    PROVE  at'[c] = at[c] /\ Queued(at[c])' /\ \A d \in Procs \ {c} : ~Claims(d, at[c])'
<1>j. PICK j \in Jobs : j = at[c]
  BY DEF TypeInv, Placed, Opens
<1>0. /\ j = at[c] /\ at'[c] = j /\ row[j].owner = c /\ row' = row /\ tok' = tok
      /\ c # None /\ pc[c] \in Working
      /\ row[j].res.tok \in {None, tok[c]}
  BY <1>j, ConstantsAssumption
  DEF LockMove, ProcMove, Working, Opens, RunnerEntry, Reserved, NoRes, ConstantsAssumption
<1>1. Queued(j)'
  BY <1>0 DEF TokenInv, RowShape, Queued
<1>2. ASSUME NEW d \in Procs \ {c}, Claims(d, j)' PROVE FALSE
  <2>1. pc'[d] = pc[d]
    BY DEF Opens
  <2>2. pc[d] \in Working \cup Reserving /\ row[j].res.tok = tok[d]
    BY <1>0, <1>2, <2>1 DEF Claims, Reserving
  <2>3. tok[d] # None
    BY <2>2 DEF TokenInv, CarriesToken
  <2> QED BY <1>0, <2>2, <2>3 DEF TokenInv, TokensApart
<1> QED BY <1>0, <1>1, <1>2

LEMMA RunInvStep ==
    ASSUME TypeInv, TypeInv', TokenInv, TokenInv', FlockInv, RunInv, [Next]_vars
    PROVE  FlockInv' /\ RunInv'
<1>1. CASE Next
  <2>1. StepKind
    BY <1>1, StepKinds
  <2>2. PICK p \in Procs : LockMove(p)
    BY <1>1, LockMoves
  <2>3. FlockInv'
    BY <2>2, FlockInvStep
  <2>4. ASSUME NEW c \in Procs, pc'[c] = "run"
        PROVE  Queued(at[c])' /\ \A d \in Procs \ {c} : ~Claims(d, at[c])'
    <3>1. CASE pc[c] = "run"
      BY <2>1, <2>2, <2>4, <3>1, StaysAlone
    <3>2. CASE pc[c] # "run"
      <4>1. c = p /\ Opens(p)
        BY <2>2, <2>4, <3>2 DEF LockMove, ProcMove
      <4> QED BY <2>2, <2>4, <4>1, OpensAlone
    <3> QED BY <3>1, <3>2
  <2>5. RunInv'
    BY <2>4 DEF RunInv
  <2> QED BY <2>3, <2>5
<1>2. CASE UNCHANGED vars
  BY <1>2 DEF vars, FlockInv, RunInv, Queued, Claims
<1> QED BY <1>1, <1>2

LEMMA RunInvImplies ==
    ASSUME TypeInv, RunInv
    PROVE  ExecutorAlone
<1> SUFFICES ASSUME NEW c \in Runners, pc[c] = "run"
             PROVE  Queued(at[c]) /\ Authorised(at[c]) \subseteq {c}
  BY DEF ExecutorAlone
<1>1. c \in Procs /\ Runners \subseteq Procs
  BY DEF Procs
<1> QED BY <1>1 DEF RunInv, Authorised, Claims

-----------------------------------------------------------------------------
(* The ceiling *)

\* The turns that take up a runner slot: they have a permit, or the runner that
\* works on them owns their row.
Seated(j) == \/ row[j].res.tok # None
             \/ \E c \in Procs : pc[c] \in Working /\ at[c] = j /\ row[j].owner = c
Seats == {j \in Jobs : Seated(j)}

SeatInv == Cardinality(Seats) <= SlotLimit

LEMMA SeatsFinite ==
    ASSUME NEW S \in SUBSET Jobs
    PROVE  IsFiniteSet(S) /\ Cardinality(S) \in Nat
  BY JobsAssumption, FS_Subset, FS_CardinalityType DEF JobsAssumption

LEMMA Smaller ==
    ASSUME NEW S \in SUBSET Jobs, NEW T \in SUBSET S
    PROVE  Cardinality(T) <= Cardinality(S)
  BY SeatsFinite, FS_Subset

\* No step but a reservation seats a turn.
LEMMA SeatsShrink ==
    ASSUME TypeInv, TypeInv', TokenInv, TokenInv', NEW p \in Procs, LockMove(p),
           \/ Calm
           \/ \E q \in Procs : Handover(q) \/ TakesRow(q) \/ \E c \in Runners : Spawn(q, c)
    PROVE  Seats' \subseteq Seats
<1> SUFFICES ASSUME NEW j \in Jobs, Seated(j)' PROVE Seated(j)
  BY DEF Seats
<1>n. None \notin Procs
  BY ConstantsAssumption DEF ConstantsAssumption
<1>at. \A c \in Procs : pc[c] \in Working /\ pc'[c] \in Working => at'[c] = at[c]
  BY DEF LockMove, ProcMove, Working
<1>1. ASSUME NEW q \in Procs, CalmProcs(q), row'[j].res.tok \in {row[j].res.tok, None},
             row'[j].owner = row[j].owner \/ row'[j].owner \notin Procs
               \/ pc'[row'[j].owner] \notin Working
      PROVE  Seated(j)
  <2>1. CASE row'[j].res.tok # None
    BY <1>1, <2>1 DEF Seated
  <2>2. ASSUME NEW c \in Procs, pc'[c] \in Working, at'[c] = j, row'[j].owner = c PROVE Seated(j)
    <3>1. pc[c] \in Working
      BY <1>1, <2>2 DEF CalmProcs
    <3> QED BY <1>1, <1>at, <2>2, <3>1 DEF Seated
  <2> QED BY <2>1, <2>2 DEF Seated
<1>2. CASE Calm
  <2>1. PICK q \in Procs : CalmProcs(q) /\ CalmRow(row[j], row'[j])
    BY <1>2 DEF Calm, CalmRows
  <2> QED BY <1>1, <1>n, <2>1 DEF CalmRow
<1>3. ASSUME NEW q \in Procs, Handover(q) PROVE Seated(j)
  <2>1. CASE at[q] # j
    BY <1>1, <1>3, <2>1 DEF Handover, OwnerEdited
  <2>2. CASE at[q] = j /\ row[j].res.tok = tok[q]
    <3>1. tok[q] # None
      BY <1>3 DEF Handover, TokenInv, CarriesToken, Handing
    <3> QED BY <2>2, <3>1 DEF Seated
  <2>3. CASE at[q] = j /\ row[j].owner = kid[q]
    BY <1>1, <1>3, <2>3 DEF Handover, OwnerEdited
  <2> QED BY <1>3, <2>1, <2>2, <2>3 DEF Handover, HandoffCurrent
<1>4. ASSUME NEW q \in Procs, TakesRow(q) PROVE Seated(j)
  <2>1. CASE at[q] # j
    BY <1>1, <1>4, <2>1 DEF TakesRow, OwnerEdited
  <2>2. CASE at[q] = j
    <3>1. tok[q] # None /\ row[j].res.tok = tok[q]
      BY <1>4, <2>2 DEF TakesRow, TokenInv, CarriesToken, Working
    <3> QED BY <3>1 DEF Seated
  <2> QED BY <2>1, <2>2
<1>5. ASSUME NEW q \in Procs, NEW b \in Runners, Spawn(q, b) PROVE Seated(j)
  <2>1. row' = row /\ row[j].owner # b /\ b \in Procs /\ pc' = [pc EXCEPT ![q] = "spawned", ![b] = "claim"]
    BY <1>5 DEF Spawn, NewIdentity, Procs
  <2>2. \A c \in Procs \ {b} : pc'[c] \in Working => pc[c] \in Working
    BY <2>1 DEF Working, TypeInv, TypeOK
  <2>3. ASSUME NEW c \in Procs, pc'[c] \in Working, at'[c] = j, row'[j].owner = c PROVE Seated(j)
    <3>1. pc[c] \in Working
      BY <2>1, <2>2, <2>3
    <3> QED BY <1>at, <2>1, <2>3, <3>1 DEF Seated
  <2>4. CASE row'[j].res.tok # None
    BY <2>1, <2>4 DEF Seated
  <2> QED BY <2>3, <2>4 DEF Seated
<1> QED BY <1>2, <1>3, <1>4, <1>5

\* Finitely many processes are counted: each one for some turn.
LEMMA OccupantsFinite ==
    ASSUME NEW p, NEW j, NEW e, NEW seen
    PROVE  /\ IsFiniteSet(Occupants(p, j, e, seen))
           /\ Cardinality(Occupants(p, j, e, seen)) \in Nat
<1> DEFINE R == {i \in Jobs : Counts(runner[i], seen)}
           H == {i \in Jobs : ActingHolder(i, seen) # None
                                /\ ~(/\ i = j /\ ActingHolder(i, seen) = p
                                     /\ ~Reserved(i) /\ ~LiveRunnerOfTurn(i, seen))}
           f == [k \in R |-> runner[k]]
           g == [k \in H |-> ActingHolder(k, seen)]
           FR == {runner[k] : k \in R}
           GH == {ActingHolder(k, seen) : k \in H}
<1>1. IsFiniteSet(R) /\ IsFiniteSet(H)
  BY SeatsFinite
<1>2. f \in Surjection(R, FR) /\ g \in Surjection(H, GH)
  BY DEF Surjection
<1>3. IsFiniteSet(FR) /\ IsFiniteSet(GH)
  BY <1>1, <1>2, FS_Surjection
<1>4. Occupants(p, j, e, seen) \subseteq FR \cup GH
  BY DEF Occupants
<1>5. IsFiniteSet(FR \cup GH)
  BY <1>3, FS_Union
<1> HIDE DEF FR, GH
<1> QED BY <1>4, <1>5, FS_Subset, FS_CardinalityType

\* A reserver finds every seated turn in the count: by its permit, or by the
\* runner that owns its row.
LEMMA SeatsAreOccupied ==
    ASSUME TypeInv, TokenInv, NEW p \in Procs, pc[p] = "start", NEW j, NEW e, NEW seen \in SUBSET Dead
    PROVE  Cardinality(Seats) <= Occupied(p, j, e, seen)
<1> DEFINE P == {k \in Jobs : Reserved(k)}
           U == {k \in Seats : row[k].res.tok = None}
           W == {k \in Seats : row[k].res.tok # None}
           O == Occupants(p, j, e, seen)
           f == [k \in U |-> row[k].owner]
<1>1. \A k \in U : k \in Jobs /\ row[k].owner \in Procs /\ pc[row[k].owner] \in Working
                   /\ at[row[k].owner] = k
  BY DEF Seats, Seated
<1>2. ASSUME NEW k \in U PROVE row[k].owner \in O
  <2> DEFINE c == row[k].owner
  <2>1. c \in Procs /\ pc[c] \in Working /\ c # p /\ c # None /\ c \in Runners /\ k \in Jobs
    BY <1>1, ConstantsAssumption DEF ConstantsAssumption, Working, TokenInv, CarriesToken
  <2>2. row[k] \in Row /\ row[k].st \in {"waiting", "dispatching"} /\ c # row[k].enq
    BY <2>1 DEF TypeInv, TypeOK, Row, TokenInv, RowShape
  <2>3. Counts(c, seen)
    BY <2>1 DEF Counts, Alive, Working
  <2>4. ActingHolder(k, seen) = c
    BY <2>2, <2>3 DEF ActingHolder
  <2> QED BY <2>1, <2>4 DEF Occupants
<1>3. f \in Injection(U, O)
  <2>1. f \in [U -> O]
    BY <1>2
  <2>2. \A k, l \in U : f[k] = f[l] => k = l
    BY <1>1
  <2> HIDE DEF U, O, f
  <2> QED BY <2>1, <2>2 DEF Injection, IsInjective
<1>4. Cardinality(U) <= Cardinality(O)
  <2>1. IsFiniteSet(O)
    BY OccupantsFinite
  <2> HIDE DEF U, O, f
  <2> QED BY <1>3, <2>1, FS_Injection
<1>5. Cardinality(W) <= Cardinality(P)
  <2>1. W \subseteq P /\ P \subseteq Jobs
    BY DEF Seats, Reserved, NoRes
  <2> HIDE DEF W, P
  <2> QED BY <2>1, Smaller
<1>6. Cardinality(Seats) = Cardinality(U) + Cardinality(W)
  <2>1. Seats = U \cup W /\ U \cap W = {} /\ U \subseteq Jobs /\ W \subseteq Jobs
    BY DEF Seats
  <2>2. IsFiniteSet(U) /\ IsFiniteSet(W) /\ Cardinality(U) \in Nat /\ Cardinality(W) \in Nat
    BY <2>1, SeatsFinite
  <2>3. Cardinality(U \cap W) = 0
    BY <2>1, FS_EmptySet
  <2> HIDE DEF U, W
  <2>4. Cardinality(U \cup W) = Cardinality(U) + Cardinality(W) - Cardinality(U \cap W)
    BY <2>2, FS_Union
  <2> QED BY <2>1, <2>2, <2>3, <2>4
<1>7. /\ Cardinality(U) \in Nat /\ Cardinality(W) \in Nat /\ Cardinality(P) \in Nat
      /\ Cardinality(O) \in Nat
  <2>1. U \subseteq Jobs /\ W \subseteq Jobs /\ P \subseteq Jobs
    BY DEF Seats
  <2> QED BY <2>1, SeatsFinite, OccupantsFinite
<1>8. Occupied(p, j, e, seen) = Cardinality(O) + Cardinality(P)
  BY DEF Occupied
<1> HIDE DEF U, W, O, P
<1> QED BY <1>4, <1>5, <1>6, <1>7, <1>8

\* A reservation takes a free slot, or the one its turn already has.
LEMMA ReserveKeepsSeatInv ==
    ASSUME TypeInv, TokenInv, SeatInv, NEW p \in Procs, NEW seen \in SUBSET Dead, ReserveSlot(p, seen)
    PROVE  SeatInv'
<1>j. PICK j \in Jobs : j = at[p]
  BY DEF TypeInv, Placed, ReserveSlot
<1>1. /\ pc[p] = "start" /\ ~Saturated(p, j, seen) /\ pc' = [pc EXCEPT ![p] = "acquired"] /\ at' = at
      /\ row' = [row EXCEPT ![j] = [row[j] EXCEPT !.res = [by |-> p, tok |-> NewToken, child |-> None]]]
  BY <1>j DEF ReserveSlot, Goto
<1>2. /\ \A k \in Jobs \ {j} : row'[k] = row[k]
      /\ \A c \in Procs : pc'[c] \in Working => pc[c] \in Working
  BY <1>1 DEF TypeInv, TypeOK, Working
<1>3. Seats' \subseteq Seats \cup {j}
  BY <1>1, <1>2 DEF Seats, Seated
<1>4. Seats \subseteq Jobs /\ Seats' \subseteq Jobs
  BY DEF Seats
<1>5. IsFiniteSet(Seats) /\ Cardinality(Seats) \in Nat /\ SlotLimit \in Nat /\ Cardinality(Seats') \in Nat
  BY <1>4, SeatsFinite, ConstantsAssumption DEF ConstantsAssumption
<1>6. CASE Reserved(j)
  <2>1. j \in Seats
    BY <1>6 DEF Reserved, TokenInv, RowShape, Seats, Seated
  <2>2. Seats' \subseteq Seats
    BY <1>3, <2>1
  <2>3. Cardinality(Seats') <= Cardinality(Seats)
    BY <1>4, <2>2, Smaller
  <2> QED BY <1>5, <2>3 DEF SeatInv
<1>7. CASE ~Reserved(j)
  <2> DEFINE n == Occupied(p, j, p \in Runners, seen)
  <2>1. ~(n >= SlotLimit) /\ Cardinality(Seats) <= n
    BY <1>1, <1>7, SeatsAreOccupied DEF Saturated
  <2>2. n \in Nat
    BY OccupantsFinite, SeatsFinite DEF Occupied
  <2>3. Cardinality(Seats \cup {j}) <= Cardinality(Seats) + 1
    BY <1>5, FS_AddElement
  <2>4. Cardinality(Seats') <= Cardinality(Seats \cup {j}) /\ Cardinality(Seats \cup {j}) \in Nat
    BY <1>3, <1>4, Smaller, SeatsFinite
  <2> HIDE DEF n
  <2>5. Cardinality(Seats') <= SlotLimit
    BY <1>5, <2>1, <2>2, <2>3, <2>4
  <2> QED BY <2>5 DEF SeatInv
<1> QED BY <1>6, <1>7

LEMMA SeatInvStep ==
    ASSUME TypeInv, TypeInv', TokenInv, TokenInv', FlockInv, SeatInv, [Next]_vars
    PROVE  SeatInv'
<1>1. CASE Next
  <2>1. StepKind
    BY <1>1, StepKinds
  <2>2. PICK p \in Procs : LockMove(p)
    BY <1>1, LockMoves
  <2>3. ASSUME Seats' \subseteq Seats PROVE SeatInv'
    <3>1. Seats \subseteq Jobs /\ Seats' \subseteq Jobs
      BY DEF Seats
    <3>2. Cardinality(Seats') <= Cardinality(Seats)
      BY <2>3, <3>1, Smaller
    <3>3. Cardinality(Seats) \in Nat /\ Cardinality(Seats') \in Nat /\ SlotLimit \in Nat
      BY <3>1, SeatsFinite, ConstantsAssumption DEF ConstantsAssumption
    <3> QED BY <3>2, <3>3 DEF SeatInv
  <2> QED BY <2>1, <2>2, <2>3, SeatsShrink, ReserveKeepsSeatInv DEF StepKind
<1>2. CASE UNCHANGED vars
  BY <1>2 DEF vars, SeatInv, Seats, Seated
<1> QED BY <1>1, <1>2

\* Distinct authorised runners sit on distinct turns.
LEMMA SeatInvImplies ==
    ASSUME TypeInv, TokenInv, SeatInv
    PROVE  WithinSlots
<1> DEFINE A == UNION {Authorised(j) : j \in Jobs}
           f == [c \in A |-> at[c]]
<1>1. \A c \in A : c \in Authorised(at[c]) /\ at[c] \in Jobs /\ c \in Procs
  BY DEF Authorised, Procs
<1>2. ASSUME NEW c \in A PROVE at[c] \in Seats
  <2>1. pc[c] \in Working /\ (row[at[c]].owner = c \/ row[at[c]].res.tok = tok[c])
    BY <1>1 DEF Authorised
  <2>2. tok[c] # None
    BY <1>1, <2>1 DEF TokenInv, CarriesToken
  <2> QED BY <1>1, <2>1, <2>2 DEF Seats, Seated
<1>3. f \in Injection(A, Seats)
  <2>1. \A c, d \in A : f[c] = f[d] => c = d
    BY <1>1, TokenInvImplies DEF OneRunnerPerTurn
  <2>2. f \in [A -> Seats]
    BY <1>2
  <2> HIDE DEF A, f
  <2> QED BY <2>1, <2>2 DEF Injection, IsInjective
<1>4. IsFiniteSet(Seats) /\ Cardinality(Seats) \in Nat
  BY SeatsFinite DEF Seats
<1>5. Cardinality(A) <= Cardinality(Seats) /\ IsFiniteSet(A)
  <2> HIDE DEF A, f
  <2> QED BY <1>3, <1>4, FS_Injection
<1>6. Cardinality(A) \in Nat /\ SlotLimit \in Nat
  BY <1>5, FS_CardinalityType, ConstantsAssumption DEF ConstantsAssumption
<1>7. Cardinality(A) <= SlotLimit
  <2> HIDE DEF A
  <2> QED BY <1>4, <1>5, <1>6 DEF SeatInv
<1> QED BY <1>7 DEF WithinSlots

-----------------------------------------------------------------------------
(* The theorems of the flock and of the ceiling *)

SlotsInv == TypeInv /\ TokenInv /\ FlockInv /\ RunInv /\ SeatInv

LEMMA InitSlotsInv == Init => SlotsInv
<1> SUFFICES ASSUME Init PROVE SlotsInv
  OBVIOUS
<1>1. TypeInv /\ TokenInv
  BY InitTypeInv, InitTokenInv
<1>2. \A p \in Procs : pc[p] \in {"idle", "dead"}
  BY DEF Init
<1>3. FlockInv /\ RunInv
  BY <1>2 DEF FlockInv, RunInv, Fenced
<1>4. Seats = {}
  BY <1>2 DEF Init, Seats, Seated, Working, NoRow, NoRes
<1>5. SeatInv
  BY <1>4, FS_EmptySet, ConstantsAssumption DEF SeatInv, ConstantsAssumption
<1> QED BY <1>1, <1>3, <1>5 DEF SlotsInv

LEMMA SlotsInvHolds == Spec => []SlotsInv
<1>1. SlotsInv /\ [Next]_vars => SlotsInv'
  <2> SUFFICES ASSUME SlotsInv, [Next]_vars PROVE SlotsInv'
    OBVIOUS
  <2>1. TypeInv' /\ TokenInv'
    BY TypeInvStep, TokenInvStep DEF SlotsInv
  <2> QED BY <2>1, RunInvStep, SeatInvStep DEF SlotsInv
<1> QED BY InitSlotsInv, <1>1, PTL DEF Spec

\* A runner that submits or drains a turn is alone with it, and the turn still
\* has a row: nobody else owns the row or carries a token that would start on it,
\* although park_row, unpark_oldest and reserve_runner_slot do not take the
\* journal flock.
THEOREM ExecutorStaysAlone == Spec => []ExecutorAlone
<1>1. SlotsInv => ExecutorAlone
  BY RunInvImplies DEF SlotsInv
<1> QED BY <1>1, SlotsInvHolds, PTL

\* The runners that may execute a turn never outnumber the configured slots,
\* whoever reserves, steals a dead permit, hands over or dies.
THEOREM SlotsAreACeiling == Spec => []WithinSlots
<1>1. SlotsInv => WithinSlots
  BY SeatInvImplies DEF SlotsInv
<1> QED BY <1>1, SlotsInvHolds, PTL
=============================================================================
