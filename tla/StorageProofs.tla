--------------------------- MODULE StorageProofs ---------------------------
(***************************************************************************)
(* Proofs about what keeps files whole when their writers die.             *)
(*   - RunnerLog, for any number of writers, streams, lines and failures:  *)
(*     its types; that what a reader printed is kept, whatever fails       *)
(*     (ShownIsKept); and, as long as only writers fail or only the        *)
(*     machine does, that no interruption leaves a journal that cannot be  *)
(*     opened again (NeverCorrupt) and that each append happens at once    *)
(*     (AppendsAreAtomic).                                                 *)
(*   - OwnedCleanup, for any number of processes, files and troubles:      *)
(*     success is reported only of a file that is gone (Truthful), and a   *)
(*     removal implements Removal (KeepsPromise).                          *)
(***************************************************************************)
EXTENDS RunnerLog, OwnedCleanup, SequenceTheorems, FiniteSetTheorems, TLAPS

-----------------------------------------------------------------------------
(* Runner journal: the inductive invariants. *)

\* The places at which a writer has the journal's flock.
Holding == {"locked", "ready", "published", "write", "commit", "poisoned"}

Locked == \A w \in Writers : pc[w] \in Holding => lock = w

\* Where a writer stands tells what the checkpoint says.
Standing ==
    \A w \in Writers :
        /\ pc[w] \in {"ready", "published", "write", "commit"} => side # None
        /\ pc[w] = "ready" => Pending = None
        /\ pc[w] \in {"write", "commit"} => Pending # None
        /\ pc[w] = "commit" => End <= synced

\* What a checkpoint calls committed is on disk, and its intent ends where the
\* recorded state says.
EndOf(j) == j.committed.len + Len(j.pending.payload)
Backed(j) ==
    j # None => /\ j.committed.len <= synced
                /\ j.pending # None => j.pending.next.len = EndOf(j)

\* Whatever is shown, or about to be, is on disk.
Printed ==
    /\ snap <= synced /\ Len(shown) <= synced
    /\ \A i \in 1..Len(shown) : shown[i] = file[i]

LogInv == LogTypeOK /\ Locked /\ Standing /\ Backed(side) /\ Backed(dur) /\ Printed

\* The intent of checkpoint j is an append that its committed state allowed.
Offered(j, f) ==
    /\ j.committed.completion = None
    /\ \E a \in Appends(j.committed, SubSeq(f, 1, j.committed.len)) :
         j.pending.payload = a.payload /\ j.pending.next = Recorded(j.committed, a)

\* Checkpoint j belongs to log f: whoever opens them can go on.
Fits(j, f) ==
    /\ j = None => f = <<>>
    /\ j # None /\ j.pending = None => Len(f) = j.committed.len
    /\ j # None /\ j.pending # None =>
          /\ Len(f) \in j.committed.len..EndOf(j)
          /\ \A i \in 1..(Len(f) - j.committed.len) :
                f[j.committed.len + i] = j.pending.payload[i]
          /\ Offered(j, f)

\* The state that checkpoint j stands for once it is durable.
Value(j) ==
    IF j = None THEN Commit0
    ELSE IF j.pending # None /\ EndOf(j) <= synced THEN j.pending.next ELSE j.committed

\* While the machine may still lose power, the durable checkpoint is the visible
\* one, or a publication is under way and both stand for the same state.
Caught ==
    \/ power = MaxPower
    \/ dur = side
    \/ /\ \E w \in Writers : pc[w] = "published"
       /\ synced = Len(file) /\ Fits(dur, file) /\ Value(dur) = Committed

\* Writers fail, or the machine does: the intent that a dead writer leaves may not
\* be durable when its successor writes the bytes, and a power loss would then leave
\* bytes that no checkpoint explains.
OneTrouble == \A b \in Spent : b[1] = MaxFaults \/ b[2] = MaxPower
OneKind    == faults = MaxFaults \/ power = MaxPower

Sound == \A w \in Writers : pc[w] # "corrupt"

JournalInv == LogInv /\ OneKind /\ Sound /\ Fits(side, file) /\ Caught

-----------------------------------------------------------------------------
(* Appends. *)

LEMMA LineTypes ==
    ASSUME NEW k \in Lines
    PROVE  Line(k) \in Seq(Unit) /\ Len(Line(k)) = 1
<1>1. [s |-> k, n |-> 0] \in Unit
  BY DEF Unit
<1> QED BY <1>1 DEF Line

LEMMA ChunkTypes ==
    ASSUME NEW s \in Streams, NEW from \in 0..StreamLen, NEW m \in 1..StreamLen, from < m
    PROVE  Chunk(s, from, m) \in Seq(Unit) /\ Len(Chunk(s, from, m)) = m - from
<1>1. StreamLen \in Nat
  BY LogAssumption DEF LogAssumption
<1>2. m - from \in Nat
  BY <1>1
<1>3. \A i \in 1..(m - from) : [s |-> s, n |-> from + i] \in Unit
  BY <1>1 DEF Unit
<1>4. Chunk(s, from, m) \in [1..(m - from) -> Unit]
  BY <1>3 DEF Chunk
<1> QED BY <1>2, <1>4

\* What an append writes and records has its type, and ends where it says.
LEMMA AppendTypes ==
    ASSUME NEW c \in Commit, NEW q, NEW a \in Appends(c, q)
    PROVE  /\ a.payload \in Seq(Unit)
           /\ Recorded(c, a) \in Commit
           /\ Recorded(c, a).len = c.len + Len(a.payload)
<1>1. StreamLen \in Nat
  BY LogAssumption DEF LogAssumption
<1> SUFFICES /\ a.payload \in Seq(Unit)
             /\ a.next \in Commit
  <2> SUFFICES ASSUME a.payload \in Seq(Unit), a.next \in Commit
               PROVE  /\ Recorded(c, a) \in Commit
                      /\ Recorded(c, a).len = c.len + Len(a.payload)
    OBVIOUS
  <2>1. c.len \in Nat /\ Len(a.payload) \in Nat
    BY DEF Commit
  <2> DEFINE l == c.len + Len(a.payload)
  <2>2. l \in Nat
    BY <2>1
  <2>3. Recorded(c, a) = [a.next EXCEPT !.len = l]
    BY DEF Recorded
  <2> HIDE DEF l
  <2>4. Recorded(c, a) \in Commit /\ Recorded(c, a).len = l
    BY <2>2, <2>3 DEF Commit
  <2> QED BY <2>4 DEF l
<1>2. CASE \E w \in Workers : a = [payload |-> Line("accepted"),
                                    next |-> [c EXCEPT !.accepted = TRUE, !.worker = w]]
  <2>1. Line("accepted") \in Seq(Unit)
    BY LineTypes DEF Lines
  <2>2. PICK w \in Workers : a = [payload |-> Line("accepted"),
                                  next |-> [c EXCEPT !.accepted = TRUE, !.worker = w]]
    BY <1>2
  <2>3. [c EXCEPT !.accepted = TRUE, !.worker = w] \in Commit
    BY DEF Commit
  <2> QED BY <2>1, <2>2, <2>3
<1>3. CASE \E w \in Workers : a = [payload |-> <<>>, next |-> [c EXCEPT !.worker = w]]
  BY <1>3 DEF Commit
<1>4. CASE \E s \in Streams, m \in 1..StreamLen :
             /\ c.off[s] < m
             /\ a = [payload |-> Chunk(s, c.off[s], m), next |-> [c EXCEPT !.off[s] = m]]
  <2>1. PICK s \in Streams, m \in 1..StreamLen :
             /\ c.off[s] < m
             /\ a = [payload |-> Chunk(s, c.off[s], m), next |-> [c EXCEPT !.off[s] = m]]
    BY <1>4
  <2>2. c.off \in [Streams -> 0..StreamLen]
    BY DEF Commit
  <2>3. a.payload \in Seq(Unit)
    BY <2>1, <2>2, ChunkTypes
  <2>4. m \in 0..StreamLen
    BY <1>1
  <2>5. [c.off EXCEPT ![s] = m] \in [Streams -> 0..StreamLen]
    BY <2>2, <2>4
  <2>6. a.next = [c EXCEPT !.off = [c.off EXCEPT ![s] = m]]
    BY <2>1
  <2> QED BY <2>3, <2>5, <2>6 DEF Commit
<1>5. CASE a = [payload |-> Line("line"), next |-> c]
  BY <1>5, LineTypes DEF Lines
<1>6. CASE \E comp \in Completions : a = [payload |-> Line("terminal"),
                                           next |-> [c EXCEPT !.completion = comp]]
  <2>1. Line("terminal") \in Seq(Unit)
    BY LineTypes DEF Lines
  <2>2. \A comp \in Completions : [c EXCEPT !.completion = comp] \in Commit
    BY DEF Commit
  <2> QED BY <1>6, <2>1, <2>2
<1> QED
  BY <1>2, <1>3, <1>4, <1>5, <1>6 DEF Appends

-----------------------------------------------------------------------------
(* Types, and what a reader printed. *)

LEMMA Blank ==
    /\ Commit0 \in Commit /\ Commit0.len = 0 /\ Commit0.completion = None
    /\ Journal(Commit0, None) \in Journals
<1>1. StreamLen \in Nat
  BY LogAssumption DEF LogAssumption
<1> QED BY <1>1 DEF Commit0, Commit, Journal, Journals

\* What is read from the visible checkpoint.
LEMMA Checkpoint ==
    ASSUME LogTypeOK
    PROVE  /\ Committed \in Commit /\ Committed.len \in Nat
           /\ Pending \in Intents \cup {None}
           /\ Pending # None => /\ side # None /\ side = Journal(Committed, Pending)
                                /\ Pending.payload \in Seq(Unit) /\ Len(Pending.payload) \in Nat
                                /\ Pending.next \in Commit /\ Pending.next.len \in Nat
                                /\ End \in Nat /\ End = Committed.len + Len(Pending.payload)
           /\ side # None => side.committed = Committed /\ side.pending = Pending
           /\ Len(file) \in Nat /\ synced \in Nat /\ synced <= Len(file)
<1>1. Committed \in Commit /\ Pending \in Intents \cup {None}
  BY Blank DEF LogTypeOK, Committed, Pending, Journals
<1>2. Committed.len \in Nat
  BY <1>1 DEF Commit
<1>3. ASSUME Pending # None
      PROVE  /\ side # None /\ side = Journal(Committed, Pending)
             /\ Pending.payload \in Seq(Unit) /\ Len(Pending.payload) \in Nat
             /\ Pending.next \in Commit /\ Pending.next.len \in Nat
             /\ End \in Nat /\ End = Committed.len + Len(Pending.payload)
  <2>1. side # None
    BY <1>3 DEF Pending
  <2>2. side = Journal(Committed, Pending)
    BY <2>1 DEF LogTypeOK, Committed, Pending, Journals, Journal
  <2>3. Pending.payload \in Seq(Unit) /\ Pending.next \in Commit
    BY <1>1, <1>3 DEF Intents
  <2>4. Pending.next.len \in Nat
    BY <2>3 DEF Commit
  <2>5. Len(Pending.payload) \in Nat
    BY <2>3
  <2> QED BY <1>2, <2>1, <2>2, <2>3, <2>4, <2>5 DEF End
<1>4. side # None => side.committed = Committed /\ side.pending = Pending
  BY DEF Committed, Pending
<1>5. Len(file) \in Nat /\ synced \in Nat /\ synced <= Len(file)
  BY DEF LogTypeOK
<1> QED BY <1>1, <1>2, <1>3, <1>4, <1>5

LEMMA LogInvInit == LogInit => LogInv
<1> SUFFICES ASSUME LogInit PROVE LogInv
  OBVIOUS
<1> USE LogAssumption, Blank DEF LogAssumption
<1>1. PICK b \in Spent : faults = b[1] /\ power = b[2]
  BY DEF LogInit
<1>2. faults \in 0..MaxFaults /\ power \in 0..MaxPower
  BY <1>1
<1> DEFINE c == [Commit0 EXCEPT !.len = 1, !.accepted = TRUE]
<1>3. c \in Commit /\ c.len = 1
  BY DEF Commit
<1>4. Journal(c, None) \in Journals /\ Journal(c, None).committed = c /\ Journal(c, None).pending = None
  BY <1>3 DEF Journal, Journals
<1>5. /\ file \in Seq(Unit) /\ made \in BOOLEAN /\ side \in Journals \cup {None}
      /\ Backed(side)
  <2>1. CASE made = FALSE /\ file = <<>> /\ side = None
    <3>1. file \in Seq(Unit)
      BY <2>1
    <3> QED BY <2>1, <3>1 DEF Backed
  <2>2. CASE made = TRUE /\ file = Line("accepted") /\ side = Journal(c, None)
    <3>1. file \in Seq(Unit) /\ Len(file) = 1
      BY <2>2, LineTypes DEF Lines
    <3>2. Backed(side)
      <4>1. synced = 1
        BY <3>1 DEF LogInit
      <4> HIDE DEF c
      <4> QED BY <1>3, <1>4, <2>2, <4>1 DEF Backed
    <3> QED BY <1>4, <2>2, <3>1, <3>2
  <2> QED BY <2>1, <2>2 DEF LogInit
<1>6. LogTypeOK
  <2>1. Len(file) \in Nat /\ shown \in Seq(Unit)
    BY <1>5 DEF LogInit
  <2> QED BY <1>2, <1>5, <2>1 DEF LogInit, LogTypeOK, Pcs
<1>7. Locked /\ Standing
  BY DEF LogInit, Locked, Standing, Holding
<1>8. Backed(dur)
  BY <1>5 DEF LogInit
<1>9. Printed
  BY <1>5 DEF LogInit, Printed
<1> QED BY <1>5, <1>6, <1>7, <1>8, <1>9 DEF LogInv

\* A step that leaves the files and the readers alone.
LEMMA CalmFiles ==
    ASSUME LogInv, UNCHANGED <<file, synced, side, dur, snap, shown>>,
           LogTypeOK', Locked', Standing'
    PROVE  LogInv'
<1>1. Backed(side)' /\ Backed(dur)'
  BY DEF LogInv, Backed, EndOf
<1>2. Printed'
  BY DEF LogInv, Printed
<1> QED BY <1>1, <1>2 DEF LogInv

\* A step of w that leaves the checkpoint alone takes w where it says.
LEMMA Elsewhere ==
    ASSUME LogInv, NEW w \in Writers, NEW l \in Pcs, Goto(w, l), side' = side,
           synced' \in Nat, synced <= synced',
           l \in {"ready", "published", "write", "commit"} => side # None,
           l = "ready" => Pending = None,
           l \in {"write", "commit"} => Pending # None,
           l = "commit" => End <= synced'
    PROVE  Standing'
<1>1. pc' = [pc EXCEPT ![w] = l] /\ pc \in [Writers -> Pcs]
  BY DEF Goto, LogInv, LogTypeOK
<1>2. Pending' = Pending /\ End' = End
  BY DEF Pending, End, Committed
<1>3. LogTypeOK
  BY DEF LogInv
<1> SUFFICES ASSUME NEW q \in Writers
             PROVE  /\ pc'[q] \in {"ready", "published", "write", "commit"} => side' # None
                    /\ pc'[q] = "ready" => Pending' = None
                    /\ pc'[q] \in {"write", "commit"} => Pending' # None
                    /\ pc'[q] = "commit" => End' <= synced'
  BY DEF Standing
<1>4. CASE q = w
  BY <1>1, <1>2, <1>4
<1>5. CASE q # w
  <2>1. pc'[q] = pc[q]
    BY <1>1, <1>5
  <2>2. /\ pc[q] \in {"ready", "published", "write", "commit"} => side # None
        /\ pc[q] = "ready" => Pending = None
        /\ pc[q] \in {"write", "commit"} => Pending # None
        /\ pc[q] = "commit" => End <= synced
    BY DEF LogInv, Standing
  <2>3. pc[q] = "commit" => End <= synced'
    BY <1>3, <2>2, Checkpoint
  <2> QED BY <1>2, <2>1, <2>2, <2>3
<1> QED BY <1>4, <1>5

\* Only one writer holds the flock.
LEMMA Alone ==
    ASSUME LogInv, NEW w \in Writers, pc[w] \in Holding
    PROVE  lock = w /\ \A q \in Writers \ {w} : pc[q] \notin Holding
  BY DEF LogInv, Locked

LEMMA HolderMoves ==
    ASSUME LogInv, NEW w \in Writers, NEW l \in Pcs, Goto(w, l),
           l \in Holding => lock' = w,
           lock' = lock \/ lock = None \/ lock = w
    PROVE  Locked' /\ pc' \in [Writers -> Pcs]
<1>1. pc' = [pc EXCEPT ![w] = l] /\ pc \in [Writers -> Pcs]
  BY DEF Goto, LogInv, LogTypeOK
<1>2. None \notin Writers
  BY LogAssumption DEF LogAssumption
<1>3. ASSUME NEW q \in Writers, pc'[q] \in Holding PROVE lock' = q
  <2>1. CASE q = w
    BY <1>1, <1>3, <2>1
  <2>2. CASE q # w
    <3>1. lock = q
      BY <1>1, <1>3, <2>2 DEF LogInv, Locked
    <3> QED BY <1>2, <2>2, <3>1
  <2> QED BY <2>1, <2>2
<1> QED BY <1>1, <1>3 DEF Locked

\* A step of w that changes nothing but where w stands and the flock.
LEMMA QuietStep ==
    ASSUME LogInv, NEW w \in Writers, NEW l \in Pcs, Goto(w, l),
           UNCHANGED <<file, synced, side, dur, snap, shown, power>>,
           made' \in BOOLEAN, faults' \in 0..MaxFaults,
           lock' \in Writers \cup {None}, lock' = lock \/ lock = None \/ lock = w,
           l \in Holding => lock' = w,
           l \in {"ready", "published", "write", "commit"} => side # None,
           l = "ready" => Pending = None,
           l \in {"write", "commit"} => Pending # None,
           l # "commit"
    PROVE  LogInv'
<1>1. LogTypeOK /\ synced' \in Nat /\ synced <= synced'
  BY Checkpoint DEF LogInv
<1>2. Locked' /\ pc' \in [Writers -> Pcs]
  BY HolderMoves
<1>3. Standing'
  BY <1>1, Elsewhere
<1>4. LogTypeOK'
  BY <1>1, <1>2 DEF LogTypeOK
<1> QED BY <1>2, <1>3, <1>4, CalmFiles

LEMMA OpeningKeeps ==
    ASSUME LogInv, NEW w \in Writers, FindLog(w) \/ CreateLog(w) \/ Flock(w) \/ Recover(w) \/ Close(w)
    PROVE  LogInv'
<1>1. LogTypeOK /\ made \in BOOLEAN /\ faults \in 0..MaxFaults /\ lock \in Writers \cup {None}
  BY DEF LogInv, LogTypeOK
<1>2. CASE FindLog(w)
  <2> DEFINE l == IF made THEN "lock" ELSE "create"
  <2>1. l \in Pcs /\ l \notin Holding \cup {"ready", "published", "write", "commit"} /\ Goto(w, l)
    BY <1>2 DEF FindLog, Pcs, Holding
  <2> HIDE DEF l
  <2>2. UNCHANGED <<file, synced, side, dur, snap, shown, lock, made, faults, power>>
    BY <1>2 DEF FindLog, NoFile, NoSide, Nobody
  <2> QED BY <1>1, <2>1, <2>2, QuietStep
<1>3. CASE CreateLog(w)
  <2> DEFINE l == IF made THEN "off" ELSE "lock"
  <2>1. l \in Pcs /\ l \notin Holding \cup {"ready", "published", "write", "commit"} /\ Goto(w, l)
    BY <1>3 DEF CreateLog, Pcs, Holding
  <2> HIDE DEF l
  <2>2. UNCHANGED <<file, synced, side, dur, snap, shown, lock, faults, power>> /\ made' \in BOOLEAN
    BY <1>3 DEF CreateLog, NoSide, Nobody
  <2> QED BY <1>1, <2>1, <2>2, QuietStep
<1>4. CASE Flock(w)
  <2> DEFINE l == IF lock = None THEN "locked" ELSE "off"
  <2>1. /\ l \in Pcs /\ l \notin {"ready", "published", "write", "commit"} /\ Goto(w, l)
        /\ l \in Holding => lock' = w
        /\ lock' \in Writers \cup {None} /\ (lock' = lock \/ lock = None)
    BY <1>1, <1>4 DEF Flock, Pcs, Holding
  <2> HIDE DEF l
  <2>2. UNCHANGED <<file, synced, side, dur, snap, shown, made, faults, power>>
    BY <1>4 DEF Flock, NoFile, NoSide, Nobody
  <2> QED BY <1>1, <2>1, <2>2, QuietStep
<1>5. CASE Recover(w)
  <2> DEFINE l == IF ~Resumable THEN "corrupt" ELSE IF Pending = None THEN "ready" ELSE "write"
  <2>1. pc[w] = "locked" /\ side # None /\ Goto(w, l)
    BY <1>5 DEF Recover
  <2>2. lock = w
    BY <2>1, Alone DEF Holding
  <2>3. /\ l \in Pcs /\ l # "commit" /\ (l = "ready" => Pending = None)
        /\ l \in {"write", "commit"} => Pending # None
    BY DEF Pcs
  <2> HIDE DEF l
  <2>4. UNCHANGED <<file, synced, side, dur, snap, shown, lock, made, faults, power>>
    BY <1>5 DEF Recover, NoFile, NoSide, Nobody
  <2> QED BY <1>1, <2>1, <2>2, <2>3, <2>4, QuietStep
<1>6. CASE Close(w)
  <2>1. pc[w] \in {"ready", "poisoned"} /\ Goto(w, "off") /\ lock' = None
    BY <1>6 DEF Close
  <2>2. lock = w
    BY <2>1, Alone DEF Holding
  <2>3. "off" \in Pcs /\ "off" \notin Holding
    BY DEF Pcs, Holding
  <2>4. UNCHANGED <<file, synced, side, dur, snap, shown, made, faults, power>>
    BY <1>6 DEF Close, NoFile, NoSide, Nobody
  <2> QED BY <1>1, <2>1, <2>2, <2>3, <2>4, QuietStep
<1> QED BY <1>2, <1>3, <1>4, <1>5, <1>6

LEMMA FailureKeeps ==
    ASSUME LogInv, NEW w \in Writers, IoError(w) \/ Crash(w)
    PROVE  LogInv'
<1>1. LogTypeOK /\ made \in BOOLEAN /\ faults \in 0..MaxFaults /\ lock \in Writers \cup {None}
  BY DEF LogInv, LogTypeOK
<1>2. faults' \in 0..MaxFaults
  BY <1>1, LogAssumption DEF LogAssumption, IoError, Crash
<1>3. CASE IoError(w)
  <2>1. pc[w] \in {"published", "write", "commit"} /\ Goto(w, "poisoned")
    BY <1>3 DEF IoError
  <2>2. lock = w
    BY <2>1, Alone DEF Holding
  <2>3. "poisoned" \in Pcs
    BY DEF Pcs
  <2>4. UNCHANGED <<file, synced, side, dur, snap, shown, made, lock, power>>
    BY <1>3 DEF IoError, NoFile, NoSide, Nobody
  <2> QED BY <1>1, <1>2, <2>1, <2>2, <2>3, <2>4, QuietStep
<1>4. CASE Crash(w)
  <2>1. Goto(w, "off") /\ lock' = IF lock = w THEN None ELSE lock
    BY <1>4 DEF Crash
  <2>2. "off" \in Pcs /\ "off" \notin Holding
    BY DEF Pcs, Holding
  <2>3. UNCHANGED <<file, synced, side, dur, snap, shown, made, power>>
    BY <1>4 DEF Crash, NoFile, NoSide, Nobody
  <2> QED BY <1>1, <1>2, <2>1, <2>2, <2>3, QuietStep
<1> QED BY <1>3, <1>4

\* A step of w, which has the flock, that publishes a checkpoint.
LEMMA Publication ==
    ASSUME LogInv, NEW w \in Writers, pc[w] \in Holding, Goto(w, "published"),
           side' \in Journals, Backed(side)',
           UNCHANGED <<made, file, synced, dur, lock, snap, shown, faults, power>>
    PROVE  LogInv'
<1>1. lock = w /\ \A q \in Writers \ {w} : pc[q] \notin Holding
  BY Alone
<1>2. pc' = [pc EXCEPT ![w] = "published"] /\ pc \in [Writers -> Pcs] /\ LogTypeOK
  BY DEF Goto, LogInv, LogTypeOK
<1>3. "published" \in Pcs /\ "published" \in Holding
  BY DEF Pcs, Holding
<1>4. Locked' /\ pc' \in [Writers -> Pcs]
  BY <1>1, <1>3, HolderMoves
<1>5. side' # None
  BY LogAssumption DEF LogAssumption
<1>6. Standing'
  <2>1. \A q \in Writers : pc'[q] \in {"ready", "published", "write", "commit"} => q = w
    BY <1>1, <1>2 DEF Holding
  <2> QED BY <1>2, <1>5, <2>1 DEF Standing
<1>7. LogTypeOK'
  BY <1>2, <1>4 DEF LogTypeOK
<1>8. Backed(dur)'
  BY DEF LogInv, Backed, EndOf
<1>9. Printed'
  BY DEF LogInv, Printed
<1> QED BY <1>4, <1>6, <1>7, <1>8, <1>9 DEF LogInv

\* A checkpoint that is visible at once, for the steps that make one.
LEMMA JournalParts ==
    ASSUME NEW c \in Commit, NEW p \in Intents \cup {None}
    PROVE  /\ Journal(c, p) \in Journals /\ Journal(c, p) # None
           /\ Journal(c, p).committed = c /\ Journal(c, p).pending = p
<1>1. /\ Journal(c, p) \in Journals
      /\ Journal(c, p).committed = c /\ Journal(c, p).pending = p
  BY DEF Journal, Journals
<1> QED BY <1>1, LogAssumption DEF LogAssumption

\* What PublishIntent publishes.
LEMMA IntentParts ==
    ASSUME NEW c \in Commit, NEW q, NEW a \in Appends(c, q)
    PROVE  LET p == [payload |-> a.payload, next |-> Recorded(c, a)] IN
           /\ p \in Intents /\ p # None
           /\ p.payload = a.payload /\ p.next = Recorded(c, a)
           /\ p.next.len = c.len + Len(p.payload)
<1> DEFINE p == [payload |-> a.payload, next |-> Recorded(c, a)]
<1>1. p \in Intents
  BY AppendTypes DEF Intents
<1>2. p # None
  BY <1>1, LogAssumption DEF LogAssumption
<1>3. p.payload = a.payload /\ p.next = Recorded(c, a)
  OBVIOUS
<1>4. p.next.len = c.len + Len(p.payload)
  BY <1>3, AppendTypes
<1> HIDE DEF p
<1>5. /\ p \in Intents /\ p # None
      /\ p.payload = a.payload /\ p.next = Recorded(c, a)
      /\ p.next.len = c.len + Len(p.payload)
  BY <1>1, <1>2, <1>3, <1>4
<1> QED BY <1>5 DEF p

LEMMA InitCheckpointKeeps == ASSUME LogInv, NEW w \in Writers, InitCheckpoint(w) PROVE LogInv'
<1>1. pc[w] = "locked" /\ pc[w] \in Holding
  BY DEF InitCheckpoint, Holding
<1>2. UNCHANGED <<made, file, synced, dur, lock, snap, shown, faults, power>>
  BY DEF InitCheckpoint, NoFile, Nobody
<1>3. LogTypeOK /\ synced \in Nat /\ lock = w
  BY <1>1, Checkpoint, Alone DEF LogInv
<1>4. CASE side' = Journal(Commit0, None) /\ Goto(w, "published")
  <2>1. side' \in Journals /\ side'.committed.len = 0 /\ side'.pending = None
    BY <1>4, Blank, JournalParts
  <2>2. Backed(side)'
    BY <1>2, <1>3, <2>1 DEF Backed
  <2> QED BY <1>1, <1>2, <1>4, <2>1, <2>2, Publication
<1>5. CASE side' = side /\ Goto(w, "corrupt")
  <2>1. "corrupt" \in Pcs /\ "corrupt" \notin Holding
    BY DEF Pcs, Holding
  <2>2. made \in BOOLEAN /\ faults \in 0..MaxFaults /\ lock \in Writers \cup {None}
    BY <1>3 DEF LogTypeOK
  <2> QED BY <1>2, <1>5, <2>1, <2>2, QuietStep
<1> QED BY <1>4, <1>5 DEF InitCheckpoint

LEMMA PublishIntentKeeps == ASSUME LogInv, NEW w \in Writers, PublishIntent(w) PROVE LogInv'
<1>1. pc[w] = "ready" /\ pc[w] \in Holding
  BY DEF PublishIntent, Holding
<1>2. UNCHANGED <<made, file, synced, dur, lock, snap, shown, faults, power>>
  BY DEF PublishIntent, NoFile, Nobody
<1>3. LogTypeOK /\ side # None
  BY <1>1 DEF LogInv, Standing
<1>4. PICK a \in Appends(Committed, file) :
         IF Len(file) = Committed.len
         THEN /\ side' = Journal(Committed, [payload |-> a.payload, next |-> Recorded(Committed, a)])
              /\ Goto(w, "published")
         ELSE side' = side /\ Goto(w, "corrupt")
  BY DEF PublishIntent
<1>5. CASE Len(file) = Committed.len
  <2> DEFINE p == [payload |-> a.payload, next |-> Recorded(Committed, a)]
  <2>1. Committed \in Commit
    BY <1>3, Checkpoint
  <2>2. p \in Intents /\ p.next.len = Committed.len + Len(p.payload)
    BY <2>1, IntentParts
  <2>3. side' = Journal(Committed, p) /\ Goto(w, "published")
    BY <1>4, <1>5
  <2> HIDE DEF p
  <2>4. side' \in Journals /\ side'.committed = Committed /\ side'.pending = p
    BY <2>1, <2>2, <2>3, JournalParts
  <2>5. Committed.len <= synced
    BY <1>3, Checkpoint DEF LogInv, Backed
  <2>6. Backed(side)'
    BY <1>2, <2>2, <2>4, <2>5 DEF Backed, EndOf
  <2> QED BY <1>1, <1>2, <2>3, <2>4, <2>6, Publication
<1>6. CASE Len(file) # Committed.len
  <2>1. "corrupt" \in Pcs /\ "corrupt" \notin Holding
    BY DEF Pcs, Holding
  <2>2. made \in BOOLEAN /\ faults \in 0..MaxFaults /\ lock \in Writers \cup {None}
    BY <1>3 DEF LogTypeOK
  <2> QED BY <1>2, <1>4, <1>6, <2>1, <2>2, QuietStep
<1> QED BY <1>5, <1>6

LEMMA PublishCommitKeeps == ASSUME LogInv, NEW w \in Writers, PublishCommit(w) PROVE LogInv'
<1>1. pc[w] = "commit" /\ pc[w] \in Holding /\ Goto(w, "published") /\ side' = Journal(Pending.next, None)
  BY DEF PublishCommit, Completed, Holding
<1>2. UNCHANGED <<made, file, synced, dur, lock, snap, shown, faults, power>>
  BY DEF PublishCommit, NoFile, Nobody
<1>3. LogTypeOK /\ Pending # None /\ End <= synced
  BY <1>1 DEF LogInv, Standing
<1>4. Pending.next \in Commit
  BY <1>3, Checkpoint
<1>5. side' \in Journals /\ side'.committed = Pending.next /\ side'.pending = None
  BY <1>1, <1>4, JournalParts
<1>6. Pending.next.len = End
  <2>1. side # None /\ side.pending = Pending /\ side.committed = Committed
        /\ End = Committed.len + Len(Pending.payload)
    BY <1>3, Checkpoint
  <2> QED BY <1>3, <2>1 DEF LogInv, Backed, EndOf
<1>7. Backed(side)'
  BY <1>2, <1>3, <1>5, <1>6 DEF Backed
<1> QED BY <1>1, <1>2, <1>5, <1>7, Publication

LEMMA SyncDirectoryKeeps == ASSUME LogInv, NEW w \in Writers, SyncDirectory(w) PROVE LogInv'
<1> DEFINE l == IF Pending = None THEN "ready" ELSE "write"
<1>1. pc[w] = "published" /\ dur' = side /\ Goto(w, l)
  BY DEF SyncDirectory
<1>2. UNCHANGED <<made, file, synced, side, lock, snap, shown, faults, power>>
  BY DEF SyncDirectory, NoFile, Nobody
<1>3. LogTypeOK /\ side # None /\ lock = w
  BY <1>1, Alone DEF LogInv, Standing, Holding
<1>4. /\ l \in Pcs /\ l # "commit" /\ l \in Holding /\ (l = "ready" => Pending = None)
      /\ l = "write" => Pending # None
  BY DEF Pcs, Holding
<1> HIDE DEF l
<1>5. Locked' /\ pc' \in [Writers -> Pcs]
  BY <1>1, <1>2, <1>3, <1>4, HolderMoves
<1>6. synced' \in Nat /\ synced <= synced'
  BY <1>2, <1>3, Checkpoint
<1>7. Standing'
  BY <1>1, <1>2, <1>3, <1>4, <1>6, Elsewhere
<1>8. LogTypeOK'
  BY <1>1, <1>2, <1>3, <1>5 DEF LogTypeOK
<1>9. Backed(side)' /\ Backed(dur)'
  BY <1>1, <1>2 DEF LogInv, Backed, EndOf
<1>10. Printed'
  BY <1>2 DEF LogInv, Printed
<1> QED BY <1>5, <1>7, <1>8, <1>9, <1>10 DEF LogInv

\* More of the log is on disk, or the log is longer, and what was on disk still is.
LEMMA Longer ==
    ASSUME LogInv, synced' \in Nat, synced <= synced',
           \A i \in 1..synced : file'[i] = file[i],
           UNCHANGED <<side, dur, snap, shown>>
    PROVE  Backed(side)' /\ Backed(dur)' /\ Printed'
<1>1. ASSUME NEW j \in Journals, Backed(j), synced <= synced'
      PROVE  j.committed.len <= synced' /\ (j.pending # None => j.pending.next.len = EndOf(j))
  <2>1. j # None /\ j.committed.len \in Nat
    BY LogAssumption DEF LogAssumption, Journals, Commit
  <2>2. synced \in Nat
    BY Checkpoint DEF LogInv
  <2> QED BY <1>1, <2>1, <2>2 DEF Backed
<1>2. side \in Journals \cup {None} /\ dur \in Journals \cup {None}
  BY DEF LogInv, LogTypeOK
<1>3. Backed(side)' /\ Backed(dur)'
  BY <1>1, <1>2 DEF LogInv, Backed, EndOf
<1>4. Printed'
  <2>1. synced \in Nat /\ snap \in Nat /\ Len(shown) \in Nat
    BY Checkpoint DEF LogInv, LogTypeOK
  <2>2. snap <= synced' /\ Len(shown) <= synced'
    BY <2>1 DEF LogInv, Printed
  <2>3. \A i \in 1..Len(shown) : shown[i] = file'[i]
    BY <2>1 DEF LogInv, Printed
  <2> QED BY <2>2, <2>3 DEF Printed
<1> QED BY <1>3, <1>4

\* The byte that is written next is one of the intent's.
LEMMA NextByte ==
    ASSUME LogInv, Pending # None, Len(file) < End
    PROVE  /\ Missing \in 1..Len(Pending.payload) /\ Pending.payload[Missing] \in Unit
           /\ Append(file, Pending.payload[Missing]) \in Seq(Unit)
<1>1. LogTypeOK
  BY DEF LogInv
<1>2. /\ side # None /\ side.committed = Committed /\ Committed.len \in Nat
      /\ Pending.payload \in Seq(Unit) /\ Len(Pending.payload) \in Nat
      /\ End = Committed.len + Len(Pending.payload)
      /\ Len(file) \in Nat /\ synced \in Nat /\ synced <= Len(file)
  BY <1>1, Checkpoint
<1>3. Committed.len <= synced
  BY <1>2 DEF LogInv, Backed
<1>4. Missing \in 1..Len(Pending.payload)
  BY <1>2, <1>3 DEF Missing
<1>5. Pending.payload[Missing] \in Unit
  BY <1>2, <1>4
<1> QED BY <1>1, <1>4, <1>5 DEF LogTypeOK

LEMMA WriteByteKeeps == ASSUME LogInv, NEW w \in Writers, WriteByte(w) PROVE LogInv'
<1>1. pc[w] = "write" /\ Len(file) < End /\ file' = Append(file, Pending.payload[Missing])
  BY DEF WriteByte
<1>2. UNCHANGED <<made, synced, side, dur, lock, pc, snap, shown, faults, power>>
  BY DEF WriteByte, NoSide, Nobody
<1>3. LogTypeOK /\ Pending # None
  BY <1>1 DEF LogInv, Standing
<1>4. file \in Seq(Unit) /\ Len(file) \in Nat /\ synced \in Nat /\ synced <= Len(file)
  BY <1>3, Checkpoint DEF LogTypeOK
<1>5. file' \in Seq(Unit) /\ Pending.payload[Missing] \in Unit
  BY <1>1, <1>3, NextByte
<1>6. Len(file') = Len(file) + 1 /\ \A i \in 1..Len(file) : file'[i] = file[i]
  BY <1>1, <1>4, <1>5
<1>7. LogTypeOK'
  <2>1. synced' \in 0..Len(file')
    BY <1>2, <1>4, <1>6
  <2> QED BY <1>2, <1>3, <1>5, <2>1 DEF LogTypeOK
<1>8. Locked' /\ Standing'
  BY <1>2 DEF LogInv, Locked, Standing, Pending, End, Committed
<1>9. Backed(side)' /\ Backed(dur)' /\ Printed'
  <2>1. \A i \in 1..synced : file'[i] = file[i]
    BY <1>4, <1>6
  <2>2. synced' \in Nat /\ synced <= synced'
    BY <1>2, <1>4
  <2> QED BY <1>2, <2>1, <2>2, Longer
<1> QED BY <1>7, <1>8, <1>9 DEF LogInv

LEMMA SyncLogKeeps == ASSUME LogInv, NEW w \in Writers, SyncLog(w) PROVE LogInv'
<1>1. pc[w] = "write" /\ Len(file) = End /\ synced' = Len(file) /\ Goto(w, "commit")
  BY DEF SyncLog, Synced
<1>2. UNCHANGED <<made, file, side, dur, lock, snap, shown, faults, power>>
  BY DEF SyncLog, NoSide, Nobody
<1>3. LogTypeOK /\ side # None /\ Pending # None /\ lock = w
  BY <1>1, Alone DEF LogInv, Standing, Holding
<1>4. Len(file) \in Nat /\ synced \in Nat /\ synced <= Len(file)
  BY <1>3, Checkpoint
<1>5. synced' \in Nat /\ synced <= synced' /\ End <= synced'
  BY <1>1, <1>4
<1>6. "commit" \in Pcs /\ "commit" \in Holding
  BY DEF Pcs, Holding
<1>7. Locked' /\ pc' \in [Writers -> Pcs]
  BY <1>1, <1>2, <1>3, <1>6, HolderMoves
<1>8. Standing'
  BY <1>1, <1>2, <1>3, <1>5, <1>6, Elsewhere
<1>9. LogTypeOK'
  <2>1. synced' \in 0..Len(file')
    BY <1>1, <1>2, <1>4
  <2> QED BY <1>2, <1>3, <1>7, <2>1 DEF LogTypeOK
<1>10. Backed(side)' /\ Backed(dur)' /\ Printed'
  BY <1>2, <1>5, Longer
<1> QED BY <1>7, <1>8, <1>9, <1>10 DEF LogInv

\* What a power loss leaves of the log.
LEMMA Cut ==
    ASSUME LogTypeOK, NEW n \in synced..Len(file)
    PROVE  /\ n \in Nat /\ SubSeq(file, 1, n) \in Seq(Unit) /\ Len(SubSeq(file, 1, n)) = n
           /\ \A i \in 1..n : SubSeq(file, 1, n)[i] = file[i]
           /\ n = Len(file) => SubSeq(file, 1, n) = file
<1>1. file \in Seq(Unit) /\ n \in Nat /\ n <= Len(file) /\ Len(file) \in Nat
  BY DEF LogTypeOK
<1>2. SubSeq(file, 1, n) \in Seq(Unit) /\ Len(SubSeq(file, 1, n)) = n
  BY <1>1
<1>3. \A i \in 1..n : SubSeq(file, 1, n)[i] = file[i]
  BY <1>1
<1>4. n = Len(file) => SubSeq(file, 1, n) = file
  BY <1>1
<1> QED BY <1>1, <1>2, <1>3, <1>4

LEMMA PowerLossKeeps == ASSUME LogInv, PowerLoss PROVE LogInv'
<1>1. PICK n \in synced..Len(file) : file' = SubSeq(file, 1, n) /\ synced' = n
  BY DEF PowerLoss
<1>2. PICK s \in {side, dur} : side' = s /\ dur' = s
  BY DEF PowerLoss
<1>3. /\ lock' = None /\ pc' = [w \in Writers |-> "off"]
      /\ UNCHANGED <<made, snap, shown, faults>> /\ power' = power + 1 /\ power < MaxPower
  BY DEF PowerLoss, Nobody
<1>4. LogTypeOK /\ synced \in Nat
  BY Checkpoint DEF LogInv
<1>5. /\ n \in Nat /\ file' \in Seq(Unit) /\ Len(file') = n
      /\ \A i \in 1..n : file'[i] = file[i]
  BY <1>1, <1>4, Cut
<1>6. LogTypeOK'
  <2>1. power' \in 0..MaxPower
    BY <1>3, <1>4, LogAssumption DEF LogTypeOK, LogAssumption
  <2>2. synced' \in 0..Len(file')
    BY <1>1, <1>5
  <2> QED BY <1>2, <1>3, <1>4, <1>5, <2>1, <2>2 DEF LogTypeOK, Pcs
<1>7. Locked' /\ Standing'
  BY <1>3 DEF Locked, Standing, Holding
<1>8. Backed(side)' /\ Backed(dur)'
  <2>1. s \in Journals \cup {None} /\ Backed(s)
    BY <1>2, <1>4 DEF LogInv, LogTypeOK
  <2>2. s # None => s.committed.len \in Nat
    BY <2>1 DEF Journals, Commit
  <2>3. s # None => s.committed.len <= n
    BY <1>4, <1>5, <2>1, <2>2 DEF Backed
  <2> QED BY <1>1, <1>2, <2>1, <2>3 DEF Backed, EndOf
<1>9. Printed'
  <2>1. snap \in Nat /\ Len(shown) \in Nat
    BY <1>4 DEF LogTypeOK
  <2>2. snap <= n /\ Len(shown) <= n
    BY <1>4, <1>5, <2>1 DEF LogInv, Printed
  <2>3. \A i \in 1..Len(shown) : shown[i] = file'[i]
    BY <1>5, <2>1, <2>2 DEF LogInv, Printed
  <2> QED BY <1>1, <1>3, <2>2, <2>3 DEF Printed
<1> QED BY <1>6, <1>7, <1>8, <1>9 DEF LogInv

LEMMA ReaderKeeps == ASSUME LogInv, TakeSnapshot \/ Show PROVE LogInv'
<1>1. UNCHANGED <<made, file, synced, side, dur, lock, pc, faults, power>>
  BY DEF TakeSnapshot, Show, NoFile, NoSide
<1>2. LogTypeOK
  BY DEF LogInv
<1>3. Committed.len \in Nat /\ synced \in Nat /\ synced <= Len(file) /\ Len(file) \in Nat
  BY <1>2, Checkpoint
<1>4. /\ snap' \in Nat /\ shown' \in Seq(Unit) /\ snap' <= synced /\ Len(shown') <= synced
      /\ \A i \in 1..Len(shown') : shown'[i] = file[i]
  <2>1. CASE TakeSnapshot
    <3>1. Committed.len <= synced
      BY <1>3, Blank DEF LogInv, Backed, Committed
    <3> QED BY <1>2, <1>3, <2>1, <3>1 DEF TakeSnapshot, LogInv, LogTypeOK, Printed
  <2>2. CASE Show
    <3>1. snap <= synced /\ snap \in Nat /\ snap <= Len(file) /\ file \in Seq(Unit)
      BY <1>2, <2>2 DEF Show, LogInv, LogTypeOK, Printed
    <3>2. shown' = SubSeq(file, 1, snap) /\ snap' = snap
      BY <2>2 DEF Show
    <3>3. shown' \in Seq(Unit) /\ Len(shown') = snap
      BY <1>3, <3>1, <3>2
    <3>4. \A i \in 1..snap : shown'[i] = file[i]
      BY <1>3, <3>1, <3>2
    <3> QED BY <3>1, <3>2, <3>3, <3>4
  <2> QED BY <2>1, <2>2
<1>5. LogTypeOK'
  BY <1>1, <1>2, <1>4 DEF LogTypeOK
<1>6. Locked' /\ Standing' /\ Backed(side)' /\ Backed(dur)'
  BY <1>1 DEF LogInv, Locked, Standing, Pending, End, Committed, Backed, EndOf
<1>7. Printed'
  BY <1>1, <1>4 DEF Printed
<1> QED BY <1>5, <1>6, <1>7 DEF LogInv

LEMMA LogInvNext == ASSUME LogInv, [LogNext]_lvars PROVE LogInv'
<1>1. CASE UNCHANGED lvars
  BY <1>1 DEF lvars, LogInv, LogTypeOK, Locked, Standing, Pending, End, Committed, Backed, EndOf, Printed
<1>2. CASE PowerLoss
  BY <1>2, PowerLossKeeps
<1>3. CASE TakeSnapshot \/ Show
  BY <1>3, ReaderKeeps
<1>4. ASSUME NEW w \in Writers, Write(w) PROVE LogInv'
  BY <1>4, OpeningKeeps, InitCheckpointKeeps, PublishIntentKeeps, SyncDirectoryKeeps,
     WriteByteKeeps, SyncLogKeeps, PublishCommitKeeps DEF Write
<1>5. ASSUME NEW w \in Writers, IoError(w) \/ Crash(w) PROVE LogInv'
  BY <1>5, FailureKeeps
<1> QED BY <1>1, <1>2, <1>3, <1>4, <1>5 DEF LogNext

(* The journal's files, its flock and its writers keep their types
   (runner_log.rs RunnerLog). *)
THEOREM LogTypes == LogSpec => []LogTypeOK
<1>1. LogInv => LogTypeOK
  BY DEF LogInv
<1> QED BY <1>1, LogInvInit, LogInvNext, PTL DEF LogSpec

(* What a reader has printed of the log stays in it, byte for byte, whatever
   writers and machine do afterwards (runner_log.rs read_committed). *)
THEOREM PrintedStays == LogSpec => []ShownIsKept
<1>1. LogInv => ShownIsKept
  <2> SUFFICES ASSUME LogInv PROVE ShownIsKept
    OBVIOUS
  <2>1. LogTypeOK
    BY DEF LogInv
  <2>2. synced \in Nat /\ synced <= Len(file) /\ Len(file) \in Nat /\ Len(shown) \in Nat
    BY <2>1, Checkpoint DEF LogTypeOK
  <2> QED BY <2>2 DEF LogInv, Printed, ShownIsKept
<1> QED BY <1>1, LogInvInit, LogInvNext, PTL DEF LogSpec

-----------------------------------------------------------------------------
(* The journal can always be opened again. *)

LEMMA SamePrefix ==
    ASSUME NEW f \in Seq(Unit), NEW g \in Seq(Unit), NEW n \in Nat, n <= Len(f), n <= Len(g),
           \A i \in 1..n : f[i] = g[i]
    PROVE  SubSeq(f, 1, n) = SubSeq(g, 1, n)
<1>1. SubSeq(f, 1, n) \in Seq(Unit) /\ SubSeq(g, 1, n) \in Seq(Unit)
  OBVIOUS
<1>2. Len(SubSeq(f, 1, n)) = n /\ Len(SubSeq(g, 1, n)) = n
  OBVIOUS
<1>3. \A i \in 1..n : SubSeq(f, 1, n)[i] = f[i] /\ SubSeq(g, 1, n)[i] = g[i]
  OBVIOUS
<1> QED BY <1>1, <1>2, <1>3, SeqEqual

LEMMA WholePrefix ==
    ASSUME NEW f \in Seq(Unit)
    PROVE  SubSeq(f, 1, Len(f)) = f
  OBVIOUS

\* The parts of a checkpoint.
LEMMA JournalTypes ==
    ASSUME NEW j \in Journals
    PROVE  /\ j # None /\ j.committed \in Commit /\ j.committed.len \in Nat
           /\ j.pending # None =>
                /\ j.pending.payload \in Seq(Unit) /\ Len(j.pending.payload) \in Nat
                /\ j.pending.next \in Commit /\ j.pending.next.len \in Nat
                /\ EndOf(j) \in Nat /\ EndOf(j) = j.committed.len + Len(j.pending.payload)
<1>1. j # None
  BY LogAssumption DEF LogAssumption
<1>2. j.committed \in Commit /\ j.pending \in Intents \cup {None}
  BY DEF Journals
<1>3. j.committed.len \in Nat
  BY <1>2 DEF Commit
<1>4. ASSUME j.pending # None
      PROVE  /\ j.pending.payload \in Seq(Unit) /\ Len(j.pending.payload) \in Nat
             /\ j.pending.next \in Commit /\ j.pending.next.len \in Nat
  <2>1. j.pending.payload \in Seq(Unit) /\ j.pending.next \in Commit
    BY <1>2, <1>4 DEF Intents
  <2> QED BY <2>1 DEF Commit
<1>5. j.pending # None => EndOf(j) \in Nat /\ EndOf(j) = j.committed.len + Len(j.pending.payload)
  BY <1>3, <1>4 DEF EndOf
<1> QED BY <1>1, <1>2, <1>3, <1>4, <1>5

\* The log may be cut anywhere behind what the checkpoint has committed, or grow
\* by what the intent says.
LEMMA StillFits ==
    ASSUME NEW j \in Journals, NEW f \in Seq(Unit), NEW g \in Seq(Unit), Fits(j, f),
           j.committed.len <= Len(g),
           j.pending = None => Len(g) <= Len(f),
           j.pending # None => Len(g) <= EndOf(j),
           \A i \in 1..Len(g) : i <= Len(f) => g[i] = f[i],
           \A i \in 1..Len(g) : i > Len(f) => g[i] = j.pending.payload[i - j.committed.len]
    PROVE  Fits(j, g)
<1>1. j # None /\ j.committed.len \in Nat /\ Len(f) \in Nat /\ Len(g) \in Nat
  BY JournalTypes
<1>2. CASE j.pending = None
  BY <1>1, <1>2 DEF Fits
<1>3. CASE j.pending # None
  <2>1. EndOf(j) \in Nat
    BY <1>3, JournalTypes
  <2>2. /\ Len(f) \in j.committed.len..EndOf(j)
        /\ \A i \in 1..(Len(f) - j.committed.len) :
              f[j.committed.len + i] = j.pending.payload[i]
        /\ Offered(j, f)
    BY <1>1, <1>3 DEF Fits
  <2>3. Len(g) \in j.committed.len..EndOf(j)
    BY <1>1, <1>3, <2>1
  <2>4. ASSUME NEW i \in 1..(Len(g) - j.committed.len)
        PROVE  g[j.committed.len + i] = j.pending.payload[i]
    <3> DEFINE k == j.committed.len + i
    <3>1. k \in 1..Len(g) /\ k - j.committed.len = i
      BY <1>1, <2>1, <2>3
    <3>2. CASE k <= Len(f)
      <4>1. g[k] = f[k]
        BY <3>1, <3>2
      <4>2. i \in 1..(Len(f) - j.committed.len)
        BY <1>1, <2>1, <2>2, <3>2
      <4> QED BY <2>2, <4>1, <4>2
    <3>3. CASE k > Len(f)
      <4> HIDE DEF k
      <4>1. g[k] = j.pending.payload[k - j.committed.len]
        BY <3>1, <3>3
      <4>2. g[k] = j.pending.payload[i]
        BY <3>1, <4>1
      <4> QED BY <4>2 DEF k
    <3> QED BY <1>1, <3>1, <3>2, <3>3
  <2>5. SubSeq(f, 1, j.committed.len) = SubSeq(g, 1, j.committed.len)
    <3>1. j.committed.len <= Len(f)
      BY <1>1, <2>1, <2>2
    <3>2. \A i \in 1..j.committed.len : f[i] = g[i]
      BY <1>1, <3>1
    <3> QED BY <1>1, <3>1, <3>2, SamePrefix
  <2>6. Offered(j, g)
    BY <2>2, <2>5 DEF Offered
  <2> QED BY <1>1, <1>3, <2>3, <2>4, <2>6 DEF Fits
<1> QED BY <1>2, <1>3

\* What Fits says is what recover looks for.
LEMMA FitsIsResumable ==
    ASSUME LogTypeOK, side # None, Fits(side, file)
    PROVE  Resumable
<1>1. side.committed = Committed /\ side.pending = Pending
  BY DEF Committed, Pending
<1>2. CASE Pending = None
  BY <1>1, <1>2 DEF Fits, Resumable
<1>3. CASE Pending # None
  <2>1. EndOf(side) = End
    BY <1>1 DEF EndOf, End
  <2> QED BY <1>1, <1>3, <2>1 DEF Fits, Resumable
<1> QED BY <1>2, <1>3

\* While w has the flock and is not publishing, the visible checkpoint is durable.
LEMMA CaughtUp ==
    ASSUME JournalInv, NEW w \in Writers, pc[w] \in Holding, pc[w] # "published"
    PROVE  power = MaxPower \/ dur = side
<1>1. \A q \in Writers \ {w} : pc[q] \notin Holding
  BY Alone DEF JournalInv
<1>2. \A q \in Writers : pc[q] # "published"
  BY <1>1 DEF Holding
<1> QED BY <1>2 DEF JournalInv, Caught

LEMMA JournalInvInit ==
    ASSUME OneTrouble
    PROVE  LogInit => JournalInv
<1> SUFFICES ASSUME LogInit PROVE JournalInv
  OBVIOUS
<1>1. LogInv
  BY LogInvInit
<1>2. OneKind
  BY DEF LogInit, OneKind, OneTrouble
<1>3. Sound
  BY DEF LogInit, Sound
<1>4. Caught
  BY DEF LogInit, Caught
<1>5. Fits(side, file)
  <2> DEFINE c == [Commit0 EXCEPT !.len = 1, !.accepted = TRUE]
  <2>1. CASE file = <<>> /\ side = None
    BY <2>1 DEF Fits
  <2>2. CASE file = Line("accepted") /\ side = Journal(c, None)
    <3>1. Len(file) = 1
      BY <2>2, LineTypes DEF Lines
    <3>2. c \in Commit /\ c.len = 1
      BY Blank DEF Commit
    <3> HIDE DEF c
    <3>3. side # None /\ side.committed = c /\ side.pending = None
      BY <2>2, <3>2, JournalParts
    <3> QED BY <3>1, <3>2, <3>3 DEF Fits
  <2> QED BY <2>1, <2>2 DEF LogInit
<1> QED BY <1>1, <1>2, <1>3, <1>4, <1>5 DEF JournalInv

\* A step of w that leaves the files alone.
LEMMA CalmJournal ==
    ASSUME JournalInv, LogInv', NEW w \in Writers, NEW l \in Pcs, Goto(w, l), l # "corrupt",
           UNCHANGED <<file, synced, side, dur, power>>,
           faults' = faults \/ power = MaxPower,
           pc[w] # "published" \/ power = MaxPower
    PROVE  JournalInv'
<1>1. pc' = [pc EXCEPT ![w] = l] /\ pc \in [Writers -> Pcs]
  BY DEF Goto, JournalInv, LogInv, LogTypeOK
<1>2. Sound'
  BY <1>1 DEF JournalInv, Sound
<1>3. OneKind'
  BY DEF JournalInv, OneKind
<1>4. Fits(side, file)'
  BY DEF JournalInv, Fits, Offered, EndOf
<1>5. Caught'
  <2>1. CASE power = MaxPower \/ dur = side
    BY <2>1 DEF Caught
  <2>2. CASE /\ \E q \in Writers : pc[q] = "published"
             /\ synced = Len(file) /\ Fits(dur, file) /\ Value(dur) = Committed
             /\ power # MaxPower
    <3>1. \E q \in Writers : pc'[q] = "published"
      BY <1>1, <2>2
    <3>2. Fits(dur, file)' /\ (Value(dur) = Committed)'
      BY <2>2 DEF Fits, Offered, EndOf, Value, Committed
    <3> QED BY <2>2, <3>1, <3>2 DEF Caught
  <2> QED BY <2>1, <2>2 DEF JournalInv, Caught
<1> QED BY <1>2, <1>3, <1>4, <1>5 DEF JournalInv

LEMMA OpeningSound ==
    ASSUME JournalInv, LogInv', NEW w \in Writers,
           FindLog(w) \/ CreateLog(w) \/ Flock(w) \/ Recover(w) \/ Close(w)
    PROVE  JournalInv'
<1>1. UNCHANGED <<file, synced, side, dur, faults, power>>
  BY DEF FindLog, CreateLog, Flock, Recover, Close, NoFile, NoSide
<1>2. CASE FindLog(w)
  <2> DEFINE l == IF made THEN "lock" ELSE "create"
  <2>1. l \in Pcs /\ l # "corrupt" /\ Goto(w, l) /\ pc[w] # "published"
    BY <1>2 DEF FindLog, Pcs
  <2> HIDE DEF l
  <2> QED BY <1>1, <2>1, CalmJournal
<1>3. CASE CreateLog(w)
  <2> DEFINE l == IF made THEN "off" ELSE "lock"
  <2>1. l \in Pcs /\ l # "corrupt" /\ Goto(w, l) /\ pc[w] # "published"
    BY <1>3 DEF CreateLog, Pcs
  <2> HIDE DEF l
  <2> QED BY <1>1, <2>1, CalmJournal
<1>4. CASE Flock(w)
  <2> DEFINE l == IF lock = None THEN "locked" ELSE "off"
  <2>1. l \in Pcs /\ l # "corrupt" /\ Goto(w, l) /\ pc[w] # "published"
    BY <1>4 DEF Flock, Pcs
  <2> HIDE DEF l
  <2> QED BY <1>1, <2>1, CalmJournal
<1>5. CASE Recover(w)
  <2> DEFINE l == IF Pending = None THEN "ready" ELSE "write"
  <2>1. Resumable
    BY <1>5, FitsIsResumable DEF Recover, JournalInv, LogInv
  <2>2. l \in Pcs /\ l # "corrupt" /\ Goto(w, l) /\ pc[w] # "published"
    BY <1>5, <2>1 DEF Recover, Pcs
  <2> HIDE DEF l
  <2> QED BY <1>1, <2>2, CalmJournal
<1>6. CASE Close(w)
  <2>1. "off" \in Pcs /\ Goto(w, "off") /\ pc[w] # "published"
    BY <1>6 DEF Close, Pcs
  <2> QED BY <1>1, <2>1, CalmJournal
<1> QED BY <1>2, <1>3, <1>4, <1>5, <1>6

\* A writer can fail only where the machine does not.
LEMMA FailureSound ==
    ASSUME JournalInv, LogInv', NEW w \in Writers, IoError(w) \/ Crash(w)
    PROVE  JournalInv'
<1>1. UNCHANGED <<file, synced, side, dur, power>> /\ faults < MaxFaults
  BY DEF IoError, Crash, NoFile, NoSide
<1>2. faults \in Nat /\ MaxFaults \in Nat
  BY LogAssumption DEF LogAssumption, JournalInv, LogInv, LogTypeOK
<1>3. power = MaxPower
  BY <1>1, <1>2 DEF JournalInv, OneKind
<1>4. "off" \in Pcs /\ "poisoned" \in Pcs
  BY DEF Pcs
<1>5. Goto(w, "off") \/ Goto(w, "poisoned")
  BY DEF IoError, Crash
<1> QED BY <1>1, <1>3, <1>4, <1>5, CalmJournal

\* A publication by w of a checkpoint that fits and stands, as long as it is not
\* durable, for what the old one stands for.
LEMMA PublicationSound ==
    ASSUME JournalInv, LogInv', NEW w \in Writers, pc[w] \in Holding, pc[w] # "published",
           Goto(w, "published"), UNCHANGED <<file, synced, dur, faults, power>>,
           Fits(side, file)', synced = Len(file), Value(side) = Committed'
    PROVE  JournalInv'
<1>1. pc' = [pc EXCEPT ![w] = "published"] /\ pc \in [Writers -> Pcs]
  BY DEF Goto, JournalInv, LogInv, LogTypeOK
<1>2. Sound' /\ OneKind'
  BY <1>1 DEF JournalInv, Sound, OneKind
<1>3. power = MaxPower \/ dur = side
  BY CaughtUp
<1>4. Caught'
  <2>1. CASE power = MaxPower
    BY <2>1 DEF Caught
  <2>2. CASE dur = side
    <3>1. pc'[w] = "published"
      BY <1>1
    <3>2. Fits(dur, file)'
      BY <2>2 DEF JournalInv, Fits, Offered, EndOf
    <3>3. Value(dur)' = Value(side)
      BY <2>2 DEF Value, EndOf
    <3> QED BY <3>1, <3>2, <3>3 DEF Caught
  <2> QED BY <1>3, <2>1, <2>2
<1> QED BY <1>2, <1>4 DEF JournalInv

LEMMA InitCheckpointSound ==
    ASSUME JournalInv, LogInv', NEW w \in Writers, InitCheckpoint(w)
    PROVE  JournalInv'
<1>1. pc[w] \in Holding /\ pc[w] # "published" /\ side = None
  BY DEF InitCheckpoint, Holding
<1>2. file = <<>>
  BY <1>1 DEF JournalInv, Fits
<1>3. side' = Journal(Commit0, None) /\ Goto(w, "published")
  BY <1>2 DEF InitCheckpoint
<1>4. UNCHANGED <<file, synced, dur, faults, power>>
  BY DEF InitCheckpoint, NoFile
<1>5. side' # None /\ side'.committed = Commit0 /\ side'.pending = None
  BY <1>3, Blank, JournalParts
<1>6. Len(file) = 0 /\ synced = 0
  <2>1. Len(file) = 0
    BY <1>2
  <2>2. synced \in Nat /\ synced <= Len(file)
    BY Checkpoint DEF JournalInv, LogInv
  <2> QED BY <2>1, <2>2
<1>7. Fits(side, file)'
  BY <1>4, <1>5, <1>6, Blank DEF Fits
<1>8. Value(side) = Committed'
  BY <1>1, <1>5 DEF Value, Committed
<1> QED BY <1>1, <1>3, <1>4, <1>6, <1>7, <1>8, PublicationSound

LEMMA PublishIntentSound ==
    ASSUME JournalInv, LogInv', NEW w \in Writers, PublishIntent(w)
    PROVE  JournalInv'
<1>1. pc[w] \in Holding /\ pc[w] # "published" /\ pc[w] = "ready" /\ Committed.completion = None
  BY DEF PublishIntent, Holding, Open
<1>2. LogTypeOK /\ side # None /\ Pending = None
  BY <1>1 DEF JournalInv, LogInv, Standing
<1>3. /\ side.committed = Committed /\ side.pending = None /\ Committed \in Commit
      /\ Committed.len \in Nat /\ Len(file) \in Nat /\ synced \in Nat /\ synced <= Len(file)
  BY <1>2, Checkpoint
<1>4. Len(file) = Committed.len /\ synced = Len(file)
  <2>1. Len(file) = Committed.len
    BY <1>2, <1>3 DEF JournalInv, Fits
  <2>2. Committed.len <= synced
    BY <1>2, <1>3 DEF JournalInv, LogInv, Backed
  <2> QED BY <1>3, <2>1, <2>2
<1>5. UNCHANGED <<file, synced, dur, faults, power>>
  BY DEF PublishIntent, NoFile
<1>6. PICK a \in Appends(Committed, file) :
         /\ side' = Journal(Committed, [payload |-> a.payload, next |-> Recorded(Committed, a)])
         /\ Goto(w, "published")
  BY <1>4 DEF PublishIntent
<1> DEFINE p == [payload |-> a.payload, next |-> Recorded(Committed, a)]
<1>7. /\ p \in Intents /\ p # None
      /\ p.payload = a.payload /\ p.next = Recorded(Committed, a)
  BY <1>3, IntentParts
<1>8. side' = Journal(Committed, p)
  BY <1>6
<1> HIDE DEF p
<1>9. side' \in Journals /\ side' # None /\ side'.committed = Committed /\ side'.pending = p
  BY <1>3, <1>7, <1>8, JournalParts
<1>10. Fits(side, file)'
  <2>1. EndOf(side') \in Nat /\ EndOf(side') = Committed.len + Len(p.payload) /\ Len(p.payload) \in Nat
    BY <1>7, <1>9, JournalTypes
  <2>2. SubSeq(file, 1, Committed.len) = file
    BY <1>2, <1>4, WholePrefix DEF LogTypeOK
  <2>3. Offered(side', file)
    BY <1>1, <1>7, <1>9, <2>2 DEF Offered
  <2>4. Len(file) \in Committed.len .. EndOf(side')
    BY <1>3, <1>4, <2>1
  <2>5. \A i \in 1 .. (Len(file) - Committed.len) : file[Committed.len + i] = p.payload[i]
    BY <1>3, <1>4
  <2>6. Fits(side', file)
    BY <1>7, <1>9, <2>3, <2>4, <2>5 DEF Fits
  <2> QED BY <1>5, <2>6 DEF Fits, Offered, EndOf
<1>11. Value(side) = Committed'
  BY <1>2, <1>3, <1>9 DEF Value, Committed
<1> QED BY <1>1, <1>4, <1>5, <1>6, <1>10, <1>11, PublicationSound

\* Where the commit is published, the log ends with the intent.
LEMMA AtCommit ==
    ASSUME JournalInv, NEW w \in Writers, pc[w] = "commit"
    PROVE  /\ Pending # None /\ side \in Journals /\ Len(file) = End /\ synced = Len(file)
           /\ side.pending = Pending /\ EndOf(side) = End /\ Pending.next.len = End
           /\ Pending.next \in Commit
<1>1. LogTypeOK /\ Pending # None /\ End <= synced
  BY DEF JournalInv, LogInv, Standing
<1>2. /\ side # None /\ side.committed = Committed /\ side.pending = Pending
      /\ Committed.len \in Nat /\ End \in Nat /\ Pending.next \in Commit
      /\ Len(file) \in Nat /\ synced \in Nat /\ synced <= Len(file)
  BY <1>1, Checkpoint
<1>3. EndOf(side) = End
  BY <1>2 DEF EndOf, End
<1>4. Len(file) \in Committed.len .. End
  BY <1>1, <1>2, <1>3 DEF JournalInv, Fits
<1>5. Len(file) = End /\ synced = Len(file)
  BY <1>1, <1>2, <1>4
<1>6. Pending.next.len = End
  BY <1>1, <1>2, <1>3 DEF JournalInv, LogInv, Backed
<1>7. side \in Journals
  BY <1>1, <1>2 DEF LogTypeOK
<1> QED BY <1>1, <1>2, <1>3, <1>5, <1>6, <1>7

LEMMA PublishCommitSound ==
    ASSUME JournalInv, LogInv', NEW w \in Writers, PublishCommit(w)
    PROVE  JournalInv'
<1>1. /\ pc[w] \in Holding /\ pc[w] # "published" /\ pc[w] = "commit"
      /\ Goto(w, "published") /\ side' = Journal(Pending.next, None)
  BY DEF PublishCommit, Completed, Holding
<1>2. UNCHANGED <<file, synced, dur, faults, power>>
  BY DEF PublishCommit, NoFile
<1>3. /\ Pending # None /\ side \in Journals /\ Len(file) = End /\ synced = Len(file)
      /\ side.pending = Pending /\ EndOf(side) = End /\ Pending.next.len = End
      /\ Pending.next \in Commit
  BY <1>1, AtCommit
<1>4. side' # None /\ side'.committed = Pending.next /\ side'.pending = None
  BY <1>1, <1>3, JournalParts
<1>5. Fits(side, file)'
  BY <1>2, <1>3, <1>4 DEF Fits
<1>6. Value(side) = Committed'
  <2>1. side # None /\ End <= synced
    BY <1>3, JournalTypes
  <2> QED BY <1>3, <1>4, <2>1 DEF Value, Committed
<1> QED BY <1>1, <1>2, <1>3, <1>5, <1>6, PublicationSound

LEMMA SyncDirectorySound ==
    ASSUME JournalInv, LogInv', NEW w \in Writers, SyncDirectory(w)
    PROVE  JournalInv'
<1> DEFINE l == IF Pending = None THEN "ready" ELSE "write"
<1>1. dur' = side /\ UNCHANGED <<file, synced, side, faults, power>> /\ Goto(w, l) /\ l # "corrupt"
  BY DEF SyncDirectory, NoFile
<1> HIDE DEF l
<1>2. Sound' /\ OneKind' /\ Fits(side, file)'
  BY <1>1 DEF JournalInv, LogInv, LogTypeOK, Goto, Sound, OneKind, Fits, Offered, EndOf
<1>3. Caught'
  BY <1>1 DEF Caught
<1> QED BY <1>2, <1>3 DEF JournalInv

LEMMA WriteByteSound ==
    ASSUME JournalInv, LogInv', NEW w \in Writers, WriteByte(w)
    PROVE  JournalInv'
<1>1. /\ pc[w] \in Holding /\ pc[w] # "published" /\ pc[w] = "write"
      /\ Len(file) < End /\ file' = Append(file, Pending.payload[Missing])
  BY DEF WriteByte, Holding
<1>2. UNCHANGED <<synced, side, dur, pc, faults, power>>
  BY DEF WriteByte, NoSide
<1>3. LogTypeOK /\ LogInv /\ Pending # None /\ file \in Seq(Unit)
  BY <1>1 DEF JournalInv, LogInv, Standing, LogTypeOK
<1>4. /\ side # None /\ side.committed = Committed /\ side.pending = Pending
      /\ Committed.len \in Nat /\ End \in Nat /\ Len(file) \in Nat
  BY <1>3, Checkpoint
<1>5. side \in Journals /\ EndOf(side) = End
  BY <1>3, <1>4 DEF LogTypeOK, EndOf, End
<1>6. Pending.payload[Missing] \in Unit /\ file' \in Seq(Unit)
  BY <1>1, <1>3, NextByte
<1>7. /\ Len(file') = Len(file) + 1
      /\ \A i \in 1..Len(file) : file'[i] = file[i]
      /\ file'[Len(file) + 1] = Pending.payload[Missing]
  BY <1>1, <1>3, <1>6
<1>8. Fits(side, file')
  <2>1. Len(file) \in Committed.len .. End /\ Fits(side, file)
    BY <1>3, <1>4, <1>5 DEF JournalInv, Fits
  <2>2. Committed.len <= Len(file') /\ Len(file') <= End
    BY <1>1, <1>4, <1>7, <2>1
  <2>3. \A i \in 1..Len(file') : i <= Len(file) => file'[i] = file[i]
    BY <1>4, <1>7
  <2>4. ASSUME NEW i \in 1..Len(file'), i > Len(file)
        PROVE  file'[i] = Pending.payload[i - Committed.len]
    <3>1. i = Len(file) + 1
      BY <1>4, <1>7, <2>4
    <3>2. i - Committed.len = Missing
      BY <1>4, <3>1 DEF Missing
    <3> QED BY <1>7, <3>1, <3>2
  <2> QED BY <1>3, <1>4, <1>5, <1>6, <2>1, <2>2, <2>3, <2>4, StillFits
<1>9. Fits(side, file)'
  BY <1>2, <1>8 DEF Fits, Offered, EndOf
<1>10. power = MaxPower \/ dur = side
  BY <1>1, CaughtUp
<1>11. Caught' /\ Sound' /\ OneKind'
  BY <1>2, <1>10 DEF JournalInv, Caught, Sound, OneKind
<1> QED BY <1>9, <1>11 DEF JournalInv

LEMMA SyncLogSound ==
    ASSUME JournalInv, LogInv', NEW w \in Writers, SyncLog(w)
    PROVE  JournalInv'
<1>1. pc[w] \in Holding /\ pc[w] # "published" /\ Goto(w, "commit")
  BY DEF SyncLog, Holding
<1>2. UNCHANGED <<file, side, dur, faults, power>>
  BY DEF SyncLog, NoSide
<1>3. power = MaxPower \/ dur = side
  BY <1>1, CaughtUp
<1>4. Caught' /\ OneKind' /\ Fits(side, file)'
  BY <1>2, <1>3 DEF JournalInv, Caught, OneKind, Fits, Offered, EndOf
<1>5. Sound'
  BY <1>1 DEF JournalInv, LogInv, LogTypeOK, Goto, Sound
<1> QED BY <1>4, <1>5 DEF JournalInv

\* What a power loss leaves: all of the log where a publication was under way, and
\* otherwise the visible checkpoint and at least what is on disk.
LEMMA AfterLoss ==
    ASSUME JournalInv, PowerLoss
    PROVE  /\ dur' = side' /\ power < MaxPower
           /\ \/ dur = side /\ side' = side
              \/ /\ side' \in {side, dur} /\ file' = file /\ synced' = synced
                 /\ Fits(dur, file) /\ Value(dur) = Committed
<1>1. PICK n \in synced..Len(file) : file' = SubSeq(file, 1, n) /\ synced' = n
  BY DEF PowerLoss
<1>2. dur' = side' /\ side' \in {side, dur} /\ power < MaxPower
  BY DEF PowerLoss
<1>3. power # MaxPower
  BY <1>2, LogAssumption DEF LogAssumption, JournalInv, LogInv, LogTypeOK
<1>4. CASE dur = side
  BY <1>2, <1>4
<1>5. CASE dur # side
  <2>1. synced = Len(file) /\ Fits(dur, file) /\ Value(dur) = Committed
    BY <1>3, <1>5 DEF JournalInv, Caught
  <2>2. LogTypeOK /\ synced \in Nat
    BY Checkpoint DEF JournalInv, LogInv
  <2>3. n = Len(file)
    BY <2>1, <2>2
  <2>4. file' = file
    BY <1>1, <2>2, <2>3, Cut
  <2> QED BY <1>1, <1>2, <2>1, <2>3, <2>4
<1> QED BY <1>4, <1>5

LEMMA PowerLossSound ==
    ASSUME JournalInv, LogInv', PowerLoss
    PROVE  JournalInv'
<1>1. PICK n \in synced..Len(file) : file' = SubSeq(file, 1, n) /\ synced' = n
  BY DEF PowerLoss
<1>2. pc' = [w \in Writers |-> "off"] /\ faults' = faults
  BY DEF PowerLoss
<1>3. Sound'
  BY <1>2 DEF Sound
<1>4. Caught'
  BY AfterLoss DEF Caught
<1>5. OneKind'
  <2>1. power # MaxPower
    BY AfterLoss, LogAssumption DEF LogAssumption, JournalInv, LogInv, LogTypeOK
  <2> QED BY <1>2, <2>1 DEF JournalInv, OneKind
<1>6. LogTypeOK /\ file \in Seq(Unit) /\ Fits(side, file)
  BY DEF JournalInv, LogInv, LogTypeOK
<1>7. Fits(side', file')
  <2>1. CASE dur = side /\ side' = side
    <3>1. /\ n \in Nat /\ file' \in Seq(Unit) /\ Len(file') = n /\ n <= Len(file)
          /\ \A i \in 1..n : file'[i] = file[i]
      BY <1>1, <1>6, Cut
    <3>2. CASE side = None
      <4>1. Len(file) = 0
        BY <1>6, <3>2 DEF Fits
      <4>2. Len(file') = 0
        BY <3>1, <4>1
      <4>3. file' = <<>>
        BY <3>1, <4>2
      <4> QED BY <2>1, <3>2, <4>3 DEF Fits
    <3>3. CASE side # None
      <4>1. side \in Journals /\ side.committed.len \in Nat /\ Len(file) \in Nat /\ synced \in Nat
        BY <1>6, <3>3, JournalTypes, Checkpoint DEF LogTypeOK
      <4>2. side.committed.len <= n
        BY <3>1, <3>3, <4>1 DEF JournalInv, LogInv, Backed
      <4>3. side.pending # None => n <= EndOf(side)
        <5>1. side.pending # None => EndOf(side) \in Nat /\ Len(file) <= EndOf(side)
          BY <1>6, <3>3, <4>1, JournalTypes DEF Fits
        <5> QED BY <3>1, <4>1, <5>1
      <4>4. \A i \in 1..Len(file') : i <= Len(file) => file'[i] = file[i]
        BY <3>1
      <4>5. \A i \in 1..Len(file') : ~(i > Len(file))
        BY <3>1, <4>1
      <4>6. Fits(side, file')
        BY <1>6, <3>1, <4>1, <4>2, <4>3, <4>4, <4>5, StillFits
      <4> QED BY <2>1, <4>6
    <3> QED BY <3>2, <3>3
  <2>2. CASE side' \in {side, dur} /\ file' = file /\ Fits(dur, file)
    BY <1>6, <2>2
  <2> QED BY <2>1, <2>2, AfterLoss
<1>8. Fits(side, file)'
  BY <1>7 DEF Fits, Offered, EndOf
<1> QED BY <1>3, <1>4, <1>5, <1>8 DEF JournalInv

LEMMA StillSound ==
    ASSUME JournalInv, LogInv', UNCHANGED <<file, synced, side, dur, pc, faults, power>>
    PROVE  JournalInv'
  BY DEF JournalInv, OneKind, Sound, Caught, Fits, Offered, EndOf, Value, Committed

LEMMA JournalInvNext == ASSUME JournalInv, [LogNext]_lvars PROVE JournalInv'
<1>1. LogInv'
  BY LogInvNext DEF JournalInv
<1>2. CASE UNCHANGED lvars
  BY <1>1, <1>2, StillSound DEF lvars
<1>3. CASE PowerLoss
  BY <1>1, <1>3, PowerLossSound
<1>4. CASE TakeSnapshot \/ Show
  BY <1>1, <1>4, StillSound DEF TakeSnapshot, Show, NoFile, NoSide
<1>5. ASSUME NEW w \in Writers, Write(w) PROVE JournalInv'
  BY <1>1, <1>5, OpeningSound, InitCheckpointSound, PublishIntentSound, SyncDirectorySound,
     WriteByteSound, SyncLogSound, PublishCommitSound DEF Write
<1>6. ASSUME NEW w \in Writers, IoError(w) \/ Crash(w) PROVE JournalInv'
  BY <1>1, <1>6, FailureSound
<1> QED BY <1>2, <1>3, <1>4, <1>5, <1>6 DEF LogNext

(* As long as only writers fail or only the machine does, every open finds a
   journal that it can go on with (runner_log.rs recover). *)
THEOREM AlwaysResumable ==
    ASSUME OneTrouble
    PROVE  LogSpec => []NeverCorrupt
<1>1. JournalInv => NeverCorrupt
  BY FitsIsResumable DEF JournalInv, LogInv, Sound, NeverCorrupt
<1>2. LogInit => JournalInv
  BY JournalInvInit
<1> QED BY <1>1, <1>2, JournalInvNext, PTL DEF LogSpec

-----------------------------------------------------------------------------
(* Appends are atomic. *)

Bytes == SubSeq(file, 1, Effective.len)

\* A step that lets one append take effect, and one that shows nothing.
Lands ==
    /\ Effective.completion = None
    /\ \E a \in Appends(Effective, Bytes) :
         Bytes' = Bytes \o a.payload /\ Effective' = Recorded(Effective, a)
Shows == Lands \/ (Effective' = Effective /\ Bytes' = Bytes)

\* The abstract journal has the same data.
LEMMA SameData ==
    ASSUME NEW c, NEW q, NEW a
    PROVE  /\ Abstract!Appends(c, q) = Appends(c, q)
           /\ Abstract!Recorded(c, a) = Recorded(c, a)
<1>1. Abstract!LineCount(q) = LineCount(q)
  BY DEF LineCount, Abstract!LineCount
<1>2. \A k : Abstract!Line(k) = Line(k)
  BY DEF Line, Abstract!Line
<1>3. \A s, from, to : Abstract!Chunk(s, from, to) = Chunk(s, from, to)
  BY DEF Chunk, Abstract!Chunk
<1>4. Abstract!Completions = Completions
  BY DEF Completions, Abstract!Completions
<1>5. \A x : Abstract!CompletionValid(c, x) = CompletionValid(c, x)
  BY DEF CompletionValid, Abstract!CompletionValid
<1>6. Abstract!Appends(c, q) = Appends(c, q)
  BY <1>1, <1>2, <1>3, <1>4, <1>5 DEF Appends, Abstract!Appends
<1>7. Abstract!Recorded(c, a) = Recorded(c, a)
  BY DEF Recorded, Abstract!Recorded
<1> QED BY <1>6, <1>7

\* Where the log ends with the intent, the intent is an append to what was committed.
LEMMA IntentAppends ==
    ASSUME NEW j \in Journals, NEW f \in Seq(Unit), Fits(j, f), j.pending # None,
           Len(f) = EndOf(j), j.pending.next.len = EndOf(j)
    PROVE  /\ j.committed.completion = None
           /\ \E a \in Appends(j.committed, SubSeq(f, 1, j.committed.len)) :
                /\ SubSeq(f, 1, j.pending.next.len) = SubSeq(f, 1, j.committed.len) \o a.payload
                /\ j.pending.next = Recorded(j.committed, a)
<1>1. /\ j # None /\ j.committed.len \in Nat
      /\ j.pending.payload \in Seq(Unit) /\ Len(j.pending.payload) \in Nat
      /\ EndOf(j) = j.committed.len + Len(j.pending.payload)
  BY JournalTypes
<1>2. /\ Offered(j, f)
      /\ \A i \in 1..(Len(f) - j.committed.len) : f[j.committed.len + i] = j.pending.payload[i]
  BY <1>1 DEF Fits
<1>3. PICK a \in Appends(j.committed, SubSeq(f, 1, j.committed.len)) :
         j.pending.payload = a.payload /\ j.pending.next = Recorded(j.committed, a)
  BY <1>2 DEF Offered
<1> DEFINE c == SubSeq(f, 1, j.committed.len)
           p == j.pending.payload
<1>4. c \in Seq(Unit) /\ Len(c) = j.committed.len /\ \A i \in 1..Len(c) : c[i] = f[i]
  <2>1. j.committed.len <= Len(f)
    BY <1>1
  <2>2. c \in Seq(Unit) /\ Len(c) = j.committed.len
    BY <1>1, <2>1
  <2>3. \A i \in 1..j.committed.len : c[i] = f[i]
    BY <1>1, <2>1
  <2> QED BY <2>2, <2>3
<1>5. SubSeq(f, 1, j.pending.next.len) = f
  BY WholePrefix
<1> HIDE DEF c, p
<1>6. p \in Seq(Unit) /\ Len(f) = Len(c) + Len(p)
  BY <1>1, <1>4 DEF p
<1>7. /\ c \o p \in Seq(Unit) /\ Len(c \o p) = Len(f)
      /\ \A i \in 1..Len(f) : (c \o p)[i] = IF i <= Len(c) THEN c[i] ELSE p[i - Len(c)]
  BY <1>4, <1>6, ConcatProperties
<1>8. ASSUME NEW i \in 1..Len(f) PROVE f[i] = (c \o p)[i]
  <2>1. CASE i <= Len(c)
    <3>1. (c \o p)[i] = c[i]
      BY <1>7, <2>1
    <3>2. i \in 1..Len(c)
      BY <1>4, <2>1
    <3> QED BY <1>4, <3>1, <3>2
  <2>2. CASE ~(i <= Len(c))
    <3>1. i - Len(c) \in 1..(Len(f) - j.committed.len) /\ j.committed.len + (i - Len(c)) = i
      BY <1>1, <1>4, <2>2
    <3>2. f[j.committed.len + (i - Len(c))] = p[i - Len(c)]
      BY <1>2, <3>1 DEF p
    <3>3. (c \o p)[i] = p[i - Len(c)]
      BY <1>7, <2>2
    <3> QED BY <3>1, <3>2, <3>3
  <2> QED BY <2>1, <2>2
<1>9. f = c \o p
  BY <1>7, <1>8, SeqEqual
<1> QED BY <1>2, <1>3, <1>5, <1>9 DEF c, p, Offered

\* What is in effect is committed, or it is the intent's.
LEMMA InEffect ==
    ASSUME LogInv
    PROVE  /\ Effective.len \in Nat /\ Effective.len <= synced
           /\ Effective \in {Committed, Pending.next}
           /\ Pending = None => Effective = Committed
           /\ Pending # None => Pending.next.len = End
<1>1. LogTypeOK
  BY DEF LogInv
<1>2. Committed.len \in Nat /\ Committed.len <= synced
  <2>1. CASE side = None
    BY <1>1, <2>1, Blank, Checkpoint DEF Committed
  <2>2. CASE side # None
    BY <1>1, <2>2, Checkpoint DEF LogInv, Backed
  <2> QED BY <2>1, <2>2
<1>3. ASSUME Pending # None PROVE Pending.next.len = End /\ Pending.next.len \in Nat
  <2>1. /\ side # None /\ side.pending = Pending /\ side.committed = Committed
        /\ Pending.next.len \in Nat
    BY <1>1, <1>3, Checkpoint
  <2> QED BY <1>3, <2>1 DEF LogInv, Backed, EndOf, End
<1> QED BY <1>1, <1>2, <1>3, Checkpoint DEF Effective

\* A step that keeps the visible checkpoint.
LEMMA CheckpointStays ==
    ASSUME JournalInv, JournalInv', side' = side, dur = side => dur' = side,
           synced <= synced', \A i \in 1..synced : file'[i] = file[i]
    PROVE  Shows
<1>1. LogInv /\ LogTypeOK /\ LogInv' /\ LogTypeOK'
  BY DEF JournalInv, LogInv
<1>2. Committed' = Committed /\ Pending' = Pending /\ End' = End
  BY DEF Committed, Pending, End
<1>3. /\ Effective.len \in Nat /\ Effective.len <= synced /\ Effective \in {Committed, Pending.next}
      /\ Pending = None => Effective = Committed
      /\ Pending # None => Pending.next.len = End
  BY <1>1, InEffect
<1>4. /\ file \in Seq(Unit) /\ Len(file) \in Nat /\ synced \in Nat /\ synced <= Len(file)
      /\ file' \in Seq(Unit) /\ Len(file') \in Nat /\ synced' \in Nat /\ synced' <= Len(file')
  BY <1>1 DEF LogTypeOK
<1>5. SubSeq(file', 1, Effective.len) = SubSeq(file, 1, Effective.len)
  <2>1. Effective.len <= Len(file) /\ Effective.len <= Len(file')
    BY <1>3, <1>4
  <2>2. \A i \in 1..Effective.len : file'[i] = file[i]
    BY <1>3, <1>4
  <2> QED BY <1>3, <1>4, <2>1, <2>2, SamePrefix
<1>6. CASE Effective' = Effective
  BY <1>5, <1>6 DEF Shows, Bytes
<1>7. CASE Effective' # Effective
  <2>1. /\ Pending # None /\ Effective = Committed /\ Effective' = Pending.next
        /\ End <= synced'
    <3>1. /\ Effective = IF Pending # None /\ dur = side /\ synced >= End THEN Pending.next ELSE Committed
          /\ Effective' = IF Pending # None /\ dur' = side /\ synced' >= End THEN Pending.next ELSE Committed
      BY <1>2 DEF Effective
    <3>2. Pending # None => End \in Nat
      BY <1>1, Checkpoint
    <3>3. Pending # None /\ dur = side /\ synced >= End => dur' = side /\ synced' >= End
      BY <1>4, <3>2
    <3> QED BY <1>4, <1>7, <3>1, <3>2, <3>3
  <2>2. /\ side \in Journals /\ side # None /\ side.committed = Committed /\ side.pending = Pending
        /\ End \in Nat /\ EndOf(side) = End
    <3>1. side # None /\ side.committed = Committed /\ side.pending = Pending /\ End \in Nat
      BY <1>1, <2>1, Checkpoint
    <3> QED BY <1>1, <3>1 DEF LogTypeOK, EndOf, End
  <2>3. Fits(side, file')
    <3>1. Fits(side, file)'
      BY DEF JournalInv
    <3> QED BY <3>1 DEF Fits, Offered, EndOf
  <2>4. Len(file') = End
    <3>1. Len(file') <= End
      BY <1>4, <2>1, <2>2, <2>3 DEF Fits
    <3> QED BY <1>4, <2>1, <2>2, <3>1
  <2>5. /\ Committed.completion = None
        /\ \E a \in Appends(Committed, SubSeq(file', 1, Committed.len)) :
             /\ SubSeq(file', 1, Pending.next.len) = SubSeq(file', 1, Committed.len) \o a.payload
             /\ Pending.next = Recorded(Committed, a)
    BY <1>3, <1>4, <2>1, <2>2, <2>3, <2>4, IntentAppends
  <2>6. Bytes = SubSeq(file', 1, Committed.len) /\ Bytes' = SubSeq(file', 1, Pending.next.len)
    BY <1>5, <2>1 DEF Bytes
  <2> QED BY <2>1, <2>5, <2>6 DEF Lands, Shows
<1> QED BY <1>6, <1>7

LEMMA InitCheckpointShows ==
    ASSUME JournalInv, JournalInv', NEW w \in Writers, InitCheckpoint(w)
    PROVE  Shows
<1>1. side = None /\ file = <<>>
  BY DEF InitCheckpoint, JournalInv, Fits
<1>2. side' = Journal(Commit0, None) /\ file' = file
  BY <1>1 DEF InitCheckpoint, NoFile
<1>3. side' # None /\ side'.committed = Commit0 /\ side'.pending = None
  BY <1>2, Blank, JournalParts
<1>4. Effective = Commit0
  BY <1>1 DEF Effective, Pending, Committed
<1>5. Effective' = Commit0
  BY <1>3 DEF Effective, Pending, Committed
<1> QED BY <1>2, <1>4, <1>5 DEF Shows, Bytes

LEMMA PublishIntentShows ==
    ASSUME JournalInv, JournalInv', NEW w \in Writers, PublishIntent(w)
    PROVE  Shows
<1>1. pc[w] = "ready" /\ UNCHANGED <<file, synced>>
  BY DEF PublishIntent, NoFile
<1>2. LogInv /\ LogTypeOK /\ side # None /\ Pending = None /\ LogInv' /\ LogTypeOK'
  BY <1>1 DEF JournalInv, LogInv, Standing
<1>3. Effective = Committed
  BY <1>2, InEffect
<1>4. PICK a \in Appends(Committed, file) :
         side' \in {side, Journal(Committed, [payload |-> a.payload, next |-> Recorded(Committed, a)])}
  BY DEF PublishIntent
<1> DEFINE p == [payload |-> a.payload, next |-> Recorded(Committed, a)]
<1>5. Committed \in Commit /\ side.committed = Committed /\ side \in Journals
  BY <1>2, Checkpoint DEF LogTypeOK
<1>6. p \in Intents
  BY <1>5, IntentParts
<1>7. side' \in {side, Journal(Committed, p)}
  BY <1>4
<1> HIDE DEF p
<1>8. side' \in Journals /\ side' # None /\ side'.committed = Committed
  BY <1>2, <1>5, <1>6, <1>7, JournalParts
<1>9. Committed' = Committed /\ Pending' = side'.pending /\ End' = EndOf(side')
  BY <1>8 DEF Committed, Pending, End, EndOf
<1>10. CASE Effective' = Committed'
  BY <1>1, <1>3, <1>9, <1>10 DEF Shows, Bytes
<1>11. CASE Effective' # Committed'
  <2>1. Pending' # None /\ Effective' = Pending'.next /\ synced' >= End'
    BY <1>11 DEF Effective
  <2>2. Pending'.next.len = EndOf(side')
    <3>1. Backed(side)'
      BY <1>2 DEF LogInv
    <3> QED BY <1>8, <1>9, <2>1, <3>1 DEF Backed, EndOf
  <2>3. Fits(side', file')
    <3>1. Fits(side, file)'
      BY DEF JournalInv
    <3> QED BY <3>1 DEF Fits, Offered, EndOf
  <2>4. Len(file') = EndOf(side')
    <3>1. EndOf(side') \in Nat
      BY <1>8, <1>9, <2>1, JournalTypes
    <3>2. file' \in Seq(Unit) /\ Len(file') \in Nat /\ synced' \in Nat /\ synced' <= Len(file')
      BY <1>2 DEF LogTypeOK
    <3>3. Len(file') \in side'.committed.len .. EndOf(side')
      BY <1>8, <1>9, <2>1, <2>3 DEF Fits
    <3>4. side'.committed.len \in Nat
      BY <1>8, JournalTypes
    <3> QED BY <1>9, <2>1, <3>1, <3>2, <3>3, <3>4
  <2>5. /\ Committed.completion = None
        /\ \E x \in Appends(Committed, SubSeq(file', 1, Committed.len)) :
             /\ SubSeq(file', 1, Pending'.next.len) = SubSeq(file', 1, Committed.len) \o x.payload
             /\ Pending'.next = Recorded(Committed, x)
    <3>1. file' \in Seq(Unit)
      BY <1>2 DEF LogTypeOK
    <3> QED BY <1>8, <1>9, <2>1, <2>2, <2>3, <2>4, <3>1, IntentAppends
  <2>6. Bytes = SubSeq(file', 1, Committed.len) /\ Bytes' = SubSeq(file', 1, Pending'.next.len)
    BY <1>1, <1>3, <2>1 DEF Bytes
  <2> QED BY <1>3, <2>1, <2>5, <2>6 DEF Lands, Shows
<1> QED BY <1>10, <1>11

LEMMA PublishCommitShows ==
    ASSUME JournalInv, JournalInv', NEW w \in Writers, PublishCommit(w)
    PROVE  Shows
<1>1. pc[w] = "commit" /\ side' = Journal(Pending.next, None) /\ UNCHANGED <<file, synced>>
  BY DEF PublishCommit, Completed, NoFile
<1>2. /\ Pending # None /\ side \in Journals /\ Len(file) = End
      /\ side.pending = Pending /\ EndOf(side) = End /\ Pending.next.len = End
      /\ Pending.next \in Commit
  BY <1>1, AtCommit
<1>3. Effective' = Pending.next
  <2>1. side' # None /\ side'.committed = Pending.next /\ side'.pending = None
    BY <1>1, <1>2, JournalParts
  <2>2. Committed' = Pending.next /\ Pending' = None
    BY <2>1 DEF Committed, Pending
  <2> QED BY <2>2 DEF Effective
<1>4. CASE Effective = Pending.next
  BY <1>1, <1>3, <1>4 DEF Shows, Bytes
<1>5. CASE Effective = Committed
  <2>1. side.committed = Committed /\ file \in Seq(Unit) /\ Fits(side, file)
    BY <1>2, Checkpoint DEF JournalInv, LogInv, LogTypeOK
  <2>2. /\ Committed.completion = None
        /\ \E a \in Appends(Committed, SubSeq(file, 1, Committed.len)) :
             /\ SubSeq(file, 1, Pending.next.len) = SubSeq(file, 1, Committed.len) \o a.payload
             /\ Pending.next = Recorded(Committed, a)
    BY <1>2, <2>1, IntentAppends
  <2>3. Bytes = SubSeq(file, 1, Committed.len) /\ Bytes' = SubSeq(file, 1, Pending.next.len)
    BY <1>1, <1>3, <1>5 DEF Bytes
  <2> QED BY <1>3, <1>5, <2>2, <2>3 DEF Lands, Shows
<1> QED BY <1>4, <1>5 DEF Effective

LEMMA PowerLossShows ==
    ASSUME JournalInv, JournalInv', PowerLoss
    PROVE  Shows
<1>1. LogInv /\ LogTypeOK
  BY DEF JournalInv, LogInv
<1>2. PICK n \in synced..Len(file) : file' = SubSeq(file, 1, n) /\ synced' = n
  BY DEF PowerLoss
<1>3. synced <= synced' /\ \A i \in 1..synced : file'[i] = file[i]
  <2>1. n \in Nat /\ (\A i \in 1..n : SubSeq(file, 1, n)[i] = file[i]) /\ synced \in Nat
    BY <1>1, Cut, Checkpoint
  <2> QED BY <1>2, <2>1
<1>4. dur' = side'
  BY AfterLoss
<1>5. CASE side' = side
  BY <1>3, <1>4, <1>5, CheckpointStays
<1>6. CASE side' # side
  <2>1. side' = dur /\ file' = file /\ synced' = synced /\ Value(dur) = Committed /\ dur # side
    BY <1>6, AfterLoss
  <2>2. Effective = Committed
    BY <2>1 DEF Effective
  <2>3. Effective' = Value(dur)
    <3>1. CASE dur = None
      BY <2>1, <3>1 DEF Effective, Value, Pending, Committed
    <3>2. CASE dur # None
      <4>1. /\ Committed' = dur.committed /\ Pending' = dur.pending
            /\ End' = EndOf(dur)
        BY <2>1, <3>2 DEF Committed, Pending, End, EndOf
      <4>2. dur.pending # None => EndOf(dur) \in Nat
        BY <1>1, <3>2, JournalTypes DEF LogTypeOK
      <4>3. synced' \in Nat
        BY <1>1, <2>1, Checkpoint
      <4>4. dur.pending # None => (synced' >= EndOf(dur) <=> EndOf(dur) <= synced)
        BY <2>1, <4>2, <4>3
      <4> QED BY <1>4, <2>1, <3>2, <4>1, <4>4 DEF Effective, Value
    <3> QED BY <3>1, <3>2
  <2> QED BY <2>1, <2>2, <2>3 DEF Shows, Bytes
<1> QED BY <1>5, <1>6

\* A step that leaves the visible checkpoint and what is on disk.
LEMMA OtherShows ==
    ASSUME JournalInv, JournalInv', NEW w \in Writers,
           \/ FindLog(w) \/ CreateLog(w) \/ Flock(w) \/ Recover(w) \/ Close(w)
           \/ SyncDirectory(w) \/ WriteByte(w) \/ SyncLog(w) \/ IoError(w) \/ Crash(w)
    PROVE  Shows
<1>1. LogInv /\ LogTypeOK
  BY DEF JournalInv, LogInv
<1>2. file \in Seq(Unit) /\ Len(file) \in Nat /\ synced \in Nat /\ synced <= Len(file)
  BY <1>1 DEF LogTypeOK
<1>3. side' = side /\ (dur = side => dur' = side)
  BY DEF FindLog, CreateLog, Flock, Recover, Close, SyncDirectory, WriteByte, SyncLog, IoError, Crash, NoSide
<1>4. synced' = synced \/ synced' = Len(file)
  BY DEF FindLog, CreateLog, Flock, Recover, Close, SyncDirectory, WriteByte, SyncLog, IoError, Crash,
         NoFile, Synced
<1>5. \A i \in 1..synced : file'[i] = file[i]
  <2>1. CASE WriteByte(w)
    <3>1. Len(file) < End /\ pc[w] = "write" /\ file' = Append(file, Pending.payload[Missing])
      BY <2>1 DEF WriteByte
    <3>2. Pending.payload[Missing] \in Unit
      BY <1>1, <3>1, NextByte DEF LogInv, Standing
    <3> QED BY <1>2, <3>1, <3>2
  <2>2. CASE file' = file
    BY <2>2
  <2> QED BY <2>1, <2>2 DEF FindLog, CreateLog, Flock, Recover, Close, SyncDirectory, SyncLog,
             IoError, Crash, NoFile
<1>6. synced <= synced'
  BY <1>2, <1>4
<1> QED BY <1>3, <1>5, <1>6, CheckpointStays

LEMMA StepShows == ASSUME JournalInv, JournalInv', [LogNext]_lvars PROVE Shows
<1>1. CASE UNCHANGED lvars
  BY <1>1 DEF lvars, Shows, Bytes, Effective, Pending, Committed, End
<1>2. CASE PowerLoss
  BY <1>2, PowerLossShows
<1>3. CASE TakeSnapshot \/ Show
  <2>1. /\ side' = side /\ dur' = dur /\ synced' = synced /\ file' = file /\ synced \in Nat
    BY <1>3, Checkpoint DEF TakeSnapshot, Show, NoSide, NoFile, JournalInv, LogInv
  <2>2. synced <= synced'
    BY <2>1
  <2> QED BY <2>1, <2>2, CheckpointStays
<1>4. ASSUME NEW w \in Writers, Write(w) \/ IoError(w) \/ Crash(w) PROVE Shows
  BY <1>4, OtherShows, InitCheckpointShows, PublishIntentShows, PublishCommitShows DEF Write
<1> QED BY <1>1, <1>2, <1>3, <1>4 DEF LogNext

(* As long as only writers fail or only the machine does, each append happens at
   once: the journal implements TurnJournal (runner_log.rs append and recover). *)
THEOREM JournalIsAtomic ==
    ASSUME OneTrouble
    PROVE  LogSpec => AppendsAreAtomic
<1>1. LogInit => Abstract!Init
  <2> SUFFICES ASSUME LogInit PROVE Abstract!Init
    OBVIOUS
  <2>1. Abstract!Commit0 = Commit0 /\ Abstract!Line("accepted") = Line("accepted")
    BY DEF Commit0, Abstract!Commit0, Line, Abstract!Line
  <2> DEFINE c == [Commit0 EXCEPT !.len = 1, !.accepted = TRUE]
  <2>2. CASE file = <<>> /\ side = None
    <3>1. Effective = Commit0
      BY <2>2 DEF Effective, Pending, Committed
    <3>2. SubSeq(file, 1, Effective.len) = <<>>
      BY <2>2, <3>1, Blank
    <3> QED BY <2>1, <3>1, <3>2 DEF Abstract!Init
  <2>3. CASE file = Line("accepted") /\ side = Journal(c, None)
    <3>1. c \in Commit /\ c.len = 1
      BY Blank DEF Commit
    <3>2. side # None /\ side.committed = c /\ side.pending = None
      BY <2>3, <3>1, JournalParts
    <3>3. Effective = c
      BY <3>2 DEF Effective, Pending, Committed
    <3>4. file \in Seq(Unit) /\ Len(file) = 1
      BY <2>3, LineTypes DEF Lines
    <3>5. SubSeq(file, 1, 1) = file
      BY <3>4, WholePrefix
    <3>6. SubSeq(file, 1, Effective.len) = Line("accepted")
      BY <2>3, <3>1, <3>3, <3>5
    <3> QED BY <2>1, <3>3, <3>6 DEF Abstract!Init
  <2> QED BY <2>2, <2>3 DEF LogInit
<1>2. ASSUME JournalInv, JournalInv', [LogNext]_lvars PROVE [Abstract!Append1]_(Abstract!avars)
  <2>1. Shows
    BY <1>2, StepShows
  <2>2. CASE Lands
    <3>1. PICK a \in Appends(Effective, Bytes) :
             Bytes' = Bytes \o a.payload /\ Effective' = Recorded(Effective, a)
      BY <2>2 DEF Lands
    <3>2. Abstract!Appends(Effective, Bytes) = Appends(Effective, Bytes)
          /\ Abstract!Recorded(Effective, a) = Recorded(Effective, a)
      BY SameData
    <3>3. Abstract!Append1
      BY <2>2, <3>1, <3>2 DEF Lands, Bytes, Abstract!Append1
    <3> QED BY <3>3
  <2>3. CASE Effective' = Effective /\ Bytes' = Bytes
    BY <2>3 DEF Bytes, Abstract!avars
  <2> QED BY <2>1, <2>2, <2>3 DEF Shows
<1>3. LogInit => JournalInv
  BY JournalInvInit
<1> QED BY <1>1, <1>2, <1>3, JournalInvNext, PTL DEF LogSpec, AppendsAreAtomic, Abstract!Spec

-----------------------------------------------------------------------------
(* Owned removals: the inductive invariant. *)

Calls == {"none", "remove", "resume", "retry"}
Unbound == {"off", "idle", "check", "look", "pending", "adopt"}
Working == {"resolve", "seek", "terminal", "back", "publish", "lock"} \cup Publishing \cup Resuming
Places == Unbound \cup Working \cup {"ok", "failed", "restored"}
Callers ==
    [call : Calls, target : Files \cup {None}, dir : Operations \cup {0}, op : Operations \cup {0},
     again : BOOLEAN, restoring : BOOLEAN, strayed : BOOLEAN]

RemoverTypes ==
    CleanupTypeOK /\ step \in [Processes -> Places] /\ me \in [Processes -> Callers]

(* A process that works on a removal knows its target, and one that does not
   knows none. *)
Knows(p) ==
    /\ step[p] \in Unbound => me[p].target = None
    /\ step[p] \in Working => me[p].target # None

(* One process at a time publishes an intent or carries one out. *)
OneAtATime ==
    /\ \A p, q \in Processes : step[p] \in Publishing /\ step[q] \in Publishing => p = q
    /\ \A p, q \in Processes : step[p] \in Resuming /\ step[q] \in Resuming => p = q

(* What is on disk where a process stands. *)
OnDisk ==
    /\ intent = None => quarantine = "missing" /\ slot # "target"
    /\ OpHeld => intent = None /\ boot # None
    /\ IntentHeld => intent # None
    /\ (\E p \in Processes : step[p] \in {"drop", "keep"}) => Gone

(* A file that somebody set out to remove is at its name, hidden or erased. *)
Accounted == erased \cup {public, Hidden}
Whereabouts ==
    /\ \A p \in Processes : me[p].target \in Accounted \cup {None}
    /\ Evidence => Target \in Accounted

RemoverInv ==
    /\ RemoverTypes /\ OneAtATime /\ OnDisk /\ Whereabouts /\ Truthful
    /\ \A p \in Processes : Knows(p)
-----------------------------------------------------------------------------
(* An identity that nobody remembers exists. *)
LEMMA FreshExists ==
    ASSUME RemoverTypes, ~Evidence PROVE Fresh \in Operations
<1> DEFINE n == Cardinality(Processes)
           D == {me[p].dir : p \in Processes}
           O == {me[p].op : p \in Processes}
<1>1. n \in Nat
  BY CleanupAssumption, FS_CardinalityType
<1>2. IsFiniteSet(D) /\ Cardinality(D) <= n
  <2>1. [p \in Processes |-> me[p].dir] \in Surjection(Processes, D)
    BY DEF Surjection
  <2>2. QED BY <2>1, CleanupAssumption, FS_Surjection
<1>3. IsFiniteSet(O) /\ Cardinality(O) <= n
  <2>1. [p \in Processes |-> me[p].op] \in Surjection(Processes, O)
    BY DEF Surjection
  <2>2. QED BY <2>1, CleanupAssumption, FS_Surjection
<1>4. /\ IsFiniteSet(D \cup O) /\ IsFiniteSet(D \cap O)
      /\ Cardinality(D \cup O) = Cardinality(D) + Cardinality(O) - Cardinality(D \cap O)
  BY <1>2, <1>3, FS_Union, FS_Subset
<1>5. Cardinality(D) \in Nat /\ Cardinality(O) \in Nat /\ Cardinality(D \cap O) \in Nat
  BY <1>2, <1>3, <1>4, FS_CardinalityType
<1>6. IsFiniteSet(Operations) /\ Cardinality(Operations) = 2 * n + 1
  <2>1. 1 \in Int /\ 2 * n + 1 \in Int /\ 2 * n + 1 >= 1
    BY <1>1
  <2>2. IsFiniteSet(1 .. 2 * n + 1) /\ Cardinality(1 .. 2 * n + 1) = 2 * n + 1
    BY <2>1, FS_Interval
  <2>3. QED BY <2>2 DEF Operations
<1> HIDE DEF n, D, O
<1>7. ~(Operations \subseteq D \cup O)
  <2>1. SUFFICES ASSUME Operations \subseteq D \cup O PROVE FALSE
    OBVIOUS
  <2>2. Cardinality(Operations) <= Cardinality(D \cup O)
    BY <1>4, <2>1, FS_Subset
  <2>3. QED BY <1>1, <1>2, <1>3, <1>4, <1>5, <1>6, <2>2
<1>8. PICK d \in Operations : d \notin D /\ d \notin O
  BY <1>7
<1>9. \A p \in Processes : d \notin {me[p].dir, me[p].op}
  BY <1>8 DEF D, O
<1>10. \A b \in {boot, intent} \ {None} : b.dir # d
  BY DEF Evidence
<1>11. QED BY <1>9, <1>10 DEF Fresh

-----------------------------------------------------------------------------
(* How steps keep the invariant. *)
OthersStay(p) == \A q \in Processes \ {p} : step'[q] = step[q] /\ me'[q] = me[q]

LEMMA RemoverStep ==
    ASSUME RemoverInv, RemoverTypes', OnDisk', NEW p \in Processes, OthersStay(p), Knows(p)',
           step'[p] \in Publishing => step[p] \in Publishing \/ ~OpHeld,
           step'[p] \in Resuming => step[p] \in Resuming \/ ~IntentHeld,
           step'[p] = "ok" => me'[p].target \in erased' \cup {None},
           erased \subseteq erased', Accounted \cap Files \subseteq Accounted',
           me'[p].target \in Accounted' \cup {None},
           Evidence' => Target' \in Accounted'
    PROVE  RemoverInv'
<1>1. ASSUME NEW q \in Processes PROVE Knows(q)'
  BY DEF RemoverInv, Knows, OthersStay
<1>2. OneAtATime'
  BY DEF RemoverInv, OneAtATime, OthersStay, OpHeld, IntentHeld
<1>3. ASSUME NEW q \in Processes, step'[q] = "ok" PROVE me'[q].target \in erased' \cup {None}
  BY <1>3 DEF RemoverInv, Truthful, OthersStay
<1>4. ASSUME NEW q \in Processes PROVE me'[q].target \in Accounted' \cup {None}
  <2>1. CASE q = p
    BY <2>1
  <2>2. CASE q # p
    <3>1. me'[q] = me[q] /\ me[q].target \in Files \cup {None}
      BY <2>2 DEF OthersStay, RemoverInv, RemoverTypes, Callers
    <3>2. me[q].target \in Accounted \cup {None}
      BY DEF RemoverInv, Whereabouts
    <3>3. QED BY <3>1, <3>2
  <2>3. QED BY <2>1, <2>2
<1>5. Whereabouts' /\ Truthful'
  BY <1>3, <1>4 DEF Whereabouts, Truthful
<1>6. QED BY <1>1, <1>2, <1>5 DEF RemoverInv

LEMMA StepsTo ==
    ASSUME RemoverInv, NEW p \in Processes, NEW l \in Places, StepTo(p, l)
    PROVE  /\ step' \in [Processes -> Places] /\ step'[p] = l
           /\ \A q \in Processes \ {p} : step'[q] = step[q]
BY DEF RemoverInv, RemoverTypes, StepTo

(* A step that changes nothing on disk. *)
LEMMA MoveKeeps ==
    ASSUME RemoverInv, NEW p \in Processes, NEW l \in Places, StepTo(p, l),
           UNCHANGED disk, anchored' \in BOOLEAN, troubles' \in 0 .. MaxTroubles,
           NEW r \in Callers, me' = [me EXCEPT ![p] = r],
           l \in Unbound => r.target = None, l \in Working => r.target # None,
           l \in Publishing => step[p] \in Publishing \/ (~OpHeld /\ intent = None /\ boot # None),
           l \in Resuming => step[p] \in Resuming \/ (~IntentHeld /\ intent # None),
           l \notin {"drop", "keep"},
           l = "ok" => r.target \in erased \cup {None},
           r.target \in Accounted \cup {None}
    PROVE  RemoverInv'
<1>1. /\ step' \in [Processes -> Places] /\ step'[p] = l
      /\ \A q \in Processes \ {p} : step'[q] = step[q]
  BY StepsTo
<1>2. /\ me' \in [Processes -> Callers] /\ me'[p] = r
      /\ \A q \in Processes \ {p} : me'[q] = me[q]
  BY DEF RemoverInv, RemoverTypes
<1>3. /\ public' = public /\ boot' = boot /\ slot' = slot /\ stage' = stage /\ intent' = intent
      /\ quarantine' = quarantine /\ staged' = staged /\ decision' = decision /\ erased' = erased
  BY DEF disk
<1>4. RemoverTypes'
  BY <1>1, <1>2, <1>3 DEF RemoverInv, RemoverTypes, CleanupTypeOK
<1>5. OnDisk'
  <2>1. OpHeld' => intent = None /\ boot # None
    BY <1>1 DEF OpHeld, RemoverInv, OnDisk
  <2>2. IntentHeld' => intent # None
    BY <1>1 DEF IntentHeld, RemoverInv, OnDisk
  <2>3. (\E q \in Processes : step'[q] \in {"drop", "keep"}) => Gone
    BY <1>1 DEF RemoverInv, OnDisk
  <2>4. QED BY <1>3, <2>1, <2>2, <2>3 DEF RemoverInv, OnDisk, Gone
<1>6. Accounted' = Accounted /\ Evidence' = Evidence /\ Target' = Target
  BY <1>3 DEF Accounted, Hidden, Evidence, Target
<1>7. OthersStay(p)
  BY <1>1, <1>2 DEF OthersStay
<1>8. Knows(p)'
  BY <1>1, <1>2 DEF Knows
<1>9. QED
  BY <1>1, <1>2, <1>3, <1>4, <1>5, <1>6, <1>7, <1>8, RemoverStep DEF RemoverInv, Whereabouts

LEMMA OnlyKeeps ==
    ASSUME RemoverInv, NEW p \in Processes, NEW l \in Places, Only(p, l),
           l \in Unbound => me[p].target = None, l \in Working => me[p].target # None,
           l \in Publishing => step[p] \in Publishing,
           l \in Resuming => step[p] \in Resuming \/ (~IntentHeld /\ intent # None),
           l \notin {"drop", "keep"},
           l = "ok" => me[p].target \in erased \cup {None}
    PROVE  RemoverInv'
<1>1. StepTo(p, l) /\ UNCHANGED <<disk, anchored, me, troubles>>
  BY DEF Only
<1>2. me[p] \in Callers /\ me' = [me EXCEPT ![p] = me[p]]
  BY <1>1 DEF RemoverInv, RemoverTypes
<1>3. anchored' \in BOOLEAN /\ troubles' \in 0 .. MaxTroubles
  BY <1>1 DEF RemoverInv, RemoverTypes, CleanupTypeOK
<1>4. me[p].target \in Accounted \cup {None}
  BY DEF RemoverInv, Whereabouts
<1>5. QED BY <1>1, <1>2, <1>3, <1>4, MoveKeeps

-----------------------------------------------------------------------------
(* The steps of a call before it is bound to a target. *)
LEMMA SeekingKeeps ==
    ASSUME RemoverInv, NEW p \in Processes, Check(p) \/ FindPending(p)
    PROVE  RemoverInv'
<1>1. step[p] \in Unbound /\ me[p].target = None
  BY DEF Check, FindPending, Unbound, RemoverInv, Knows
<1>2. PICK l \in {"look", "pending", "check", "failed", "adopt", "ok"} : Only(p, l)
  BY DEF Check, FindPending, Retry
<1>3. QED
  BY <1>1, <1>2, OnlyKeeps DEF Places, Unbound, Working, Publishing, Resuming

LEMMA BeginKeeps ==
    ASSUME RemoverInv, NEW p \in Processes, NEW call \in {"remove", "resume", "retry"}, Begin(p, call)
    PROVE  RemoverInv'
<1> DEFINE r == [me[p] EXCEPT !.call = call]
<1>1. me[p] \in Callers /\ me[p].target = None
  BY DEF RemoverInv, RemoverTypes, Begin, Knows, Unbound
<1>2. r \in Callers /\ r.target = None
  BY <1>1 DEF Callers, Calls
<1>3. me' = [me EXCEPT ![p] = r] /\ StepTo(p, "check") /\ UNCHANGED <<disk, anchored, troubles>>
  BY DEF Begin
<1>4. anchored' \in BOOLEAN /\ troubles' \in 0 .. MaxTroubles
  BY <1>3 DEF RemoverInv, RemoverTypes, CleanupTypeOK
<1> HIDE DEF r
<1>5. "check" \in Places /\ "check" \notin Working \cup Publishing \cup Resuming
  BY DEF Places, Unbound, Working, Publishing, Resuming
<1>6. QED BY <1>2, <1>3, <1>4, <1>5, MoveKeeps

(* The record a call takes over is that of a file that is accounted for. *)
LEMMA AdoptKeeps ==
    ASSUME RemoverInv, NEW p \in Processes, Adopt(p)
    PROVE  RemoverInv'
<1>1. me[p] \in Callers /\ me[p].target = None
  BY DEF RemoverInv, RemoverTypes, Adopt, Knows, Unbound
<1>2. CASE Only(p, "check") \/ Only(p, "failed")
  BY <1>1, <1>2, OnlyKeeps DEF Places, Unbound, Working, Publishing, Resuming
<1>3. ASSUME NEW b \in Bound, Adopted(p, b), b.target \in Accounted PROVE RemoverInv'
  <2> DEFINE r == [me[p] EXCEPT !.target = b.target, !.dir = b.dir]
  <2>1. b.target # None /\ b.target \in Files /\ b.dir \in Operations
    BY CleanupAssumption DEF Bound
  <2>2. r \in Callers /\ r.target = b.target
    BY <1>1, <2>1 DEF Callers
  <2>3. me' = [me EXCEPT ![p] = r] /\ StepTo(p, "resolve") /\ UNCHANGED <<disk, anchored, troubles>>
    BY <1>3 DEF Adopted
  <2>4. anchored' \in BOOLEAN /\ troubles' \in 0 .. MaxTroubles
    BY <2>3 DEF RemoverInv, RemoverTypes, CleanupTypeOK
  <2> HIDE DEF r
  <2>5. "resolve" \in Places /\ "resolve" \notin Unbound \cup Publishing \cup Resuming
    BY DEF Places, Unbound, Working, Publishing, Resuming
  <2>6. QED BY <1>3, <2>1, <2>2, <2>3, <2>4, <2>5, MoveKeeps
<1>4. CASE intent # None /\ Adopted(p, intent)
  <2>1. intent \in Bound /\ intent.target \in Accounted
    BY <1>4 DEF RemoverInv, RemoverTypes, CleanupTypeOK, Whereabouts, Evidence, Target
  <2>2. QED BY <1>3, <1>4, <2>1
<1>5. CASE Unpublished /\ Adopted(p, boot)
  <2>1. boot \in Bound /\ boot.target \in Accounted
    BY <1>5 DEF RemoverInv, RemoverTypes, CleanupTypeOK, Whereabouts, Evidence, Target, Unpublished
  <2>2. QED BY <1>3, <1>5, <2>1
<1>6. QED BY <1>2, <1>4, <1>5 DEF Adopt, Retry

-----------------------------------------------------------------------------
(* The steps of a bound call that only look. *)
LEMMA ResolveKeeps ==
    ASSUME RemoverInv, NEW p \in Processes, Resolve(p) \/ Seek(p)
    PROVE  RemoverInv'
<1>1. step[p] \in Working /\ me[p].target # None
  BY DEF Resolve, Seek, Working, RemoverInv, Knows
<1>2. \/ \E l \in {"failed", "seek", "terminal", "publish", "resolve"} : Only(p, l)
      \/ Only(p, "resume") /\ intent # None /\ ~IntentHeld
  BY DEF Resolve, Seek, Retry
<1>3. QED
  BY <1>1, <1>2, OnlyKeeps DEF Places, Unbound, Working, Publishing, Resuming

(* Without a record nothing is hidden, so a target that is not at its name
   has been erased. *)
LEMMA TerminalKeeps ==
    ASSUME RemoverInv, NEW p \in Processes, Terminal(p)
    PROVE  RemoverInv'
<1>1. step[p] \in Working /\ me[p].target # None
  BY DEF Terminal, Working, RemoverInv, Knows
<1>2. \/ \E l \in {"resolve", "back", "failed"} : Only(p, l)
      \/ Only(p, "ok") /\ ~Evidence /\ public = None
  BY DEF Terminal
<1>3. CASE \E l \in {"resolve", "back", "failed"} : Only(p, l)
  BY <1>1, <1>3, OnlyKeeps DEF Places, Unbound, Working, Publishing, Resuming
<1>4. CASE Only(p, "ok") /\ ~Evidence /\ public = None
  <2>1. Hidden = None
    BY <1>4 DEF Hidden, Evidence, RemoverInv, OnDisk
  <2>2. me[p].target \in erased
    BY <1>1, <1>4, <2>1 DEF RemoverInv, Whereabouts, Accounted
  <2>3. QED BY <1>4, <2>2, OnlyKeeps DEF Places, Unbound, Working, Publishing, Resuming
<1>5. QED BY <1>2, <1>3, <1>4

LEMMA LockKeeps ==
    ASSUME RemoverInv, NEW p \in Processes, Lock(p)
    PROVE  RemoverInv'
<1> DEFINE r == [me[p] EXCEPT !.op = 0]
<1>1. me[p] \in Callers /\ me[p].target # None /\ me[p].target \in Accounted \cup {None}
  BY DEF RemoverInv, RemoverTypes, Lock, Knows, Working, Whereabouts
<1>2. r \in Callers /\ r.target = me[p].target
  BY <1>1 DEF Callers
<1>3. me' = [me EXCEPT ![p] = r] /\ UNCHANGED <<disk, anchored, troubles>>
  BY DEF Lock
<1>4. anchored' \in BOOLEAN /\ troubles' \in 0 .. MaxTroubles
  BY <1>3 DEF RemoverInv, RemoverTypes, CleanupTypeOK
<1>5. PICK l \in {"publish", "resolve", "probe"} :
        StepTo(p, l) /\ (l = "probe" => ~OpHeld /\ intent = None /\ boot # None)
  BY DEF Lock
<1> HIDE DEF r
<1>6. l \in Places /\ l \notin Unbound \cup Resuming /\ (l \in Publishing => l = "probe")
  BY <1>5 DEF Places, Unbound, Working, Publishing, Resuming
<1>7. l \notin {"drop", "keep", "ok"}
  BY <1>5
<1>8. QED BY <1>1, <1>2, <1>3, <1>4, <1>5, <1>6, <1>7, MoveKeeps

LEMMA EndKeeps ==
    ASSUME RemoverInv, NEW p \in Processes, EndCall(p) \/ Kill(p)
    PROVE  RemoverInv'
<1>1. me' = [me EXCEPT ![p] = Idle] /\ StepTo(p, "idle") /\ UNCHANGED <<disk, anchored>>
  BY DEF EndCall, Kill
<1>2. Idle \in Callers /\ Idle.target = None
  BY DEF Idle, Callers, Calls
<1>3. anchored' \in BOOLEAN
  BY <1>1 DEF RemoverInv, RemoverTypes, CleanupTypeOK
<1>4. troubles' \in 0 .. MaxTroubles
  BY CleanupAssumption DEF RemoverInv, RemoverTypes, CleanupTypeOK, EndCall, Kill
<1>5. "idle" \in Places /\ "idle" \notin Working \cup Publishing \cup Resuming
  BY DEF Places, Unbound, Working, Publishing, Resuming
<1>6. QED BY <1>1, <1>2, <1>3, <1>4, <1>5, MoveKeeps

LEMMA ParentKeeps ==
    ASSUME RemoverInv, ParentMoves \/ ParentReturns
    PROVE  RemoverInv'
<1>1. UNCHANGED <<disk, step, me>>
  BY DEF ParentMoves, ParentReturns
<1>2. anchored' \in BOOLEAN
  BY DEF ParentMoves, ParentReturns
<1>3. troubles' \in 0 .. MaxTroubles
  BY CleanupAssumption DEF RemoverInv, RemoverTypes, CleanupTypeOK, ParentMoves, ParentReturns
<1>4. QED
  BY <1>1, <1>2, <1>3 DEF RemoverInv, RemoverTypes, CleanupTypeOK, OneAtATime, OnDisk, Whereabouts,
     Truthful, Knows, OpHeld, IntentHeld, Gone, Accounted, Hidden, Evidence, Target, disk

-----------------------------------------------------------------------------
(* A file at its name is put on record, by its new operation directory. *)
LEMMA RecordKeeps ==
    ASSUME RemoverInv, NEW p \in Processes, ~Evidence, public # None,
           step[p] \notin {"drop", "keep"},
           boot' = [target |-> public, dir |-> Fresh],
           UNCHANGED <<public, slot, stage, intent, quarantine, staged, decision, erased,
                       anchored, troubles>>,
           NEW l \in {"publish", "lock"}, StepTo(p, l),
           NEW r \in Callers, me' = [me EXCEPT ![p] = r], r.target = public
    PROVE  RemoverInv'
<1>1. l \in Places /\ l \notin Unbound \cup Publishing \cup Resuming /\ l # "ok"
  BY DEF Places, Unbound, Working, Publishing, Resuming
<1>2. /\ step' \in [Processes -> Places] /\ step'[p] = l
      /\ \A q \in Processes \ {p} : step'[q] = step[q]
  BY <1>1, StepsTo
<1>3. /\ me' \in [Processes -> Callers] /\ me'[p] = r
      /\ \A q \in Processes \ {p} : me'[q] = me[q]
  BY DEF RemoverInv, RemoverTypes
<1>4. Fresh \in Operations
  BY FreshExists DEF RemoverInv
<1>5. boot' \in Bound
  BY <1>4 DEF Bound, RemoverInv, RemoverTypes, CleanupTypeOK
<1>6. boot = None /\ intent = None /\ boot' # None /\ intent' = None
  BY <1>5, CleanupAssumption DEF Evidence
<1>7. RemoverTypes'
  BY <1>2, <1>3, <1>5 DEF RemoverInv, RemoverTypes, CleanupTypeOK
<1>8. OnDisk'
  <2>1. ~IntentHeld /\ ~IntentHeld'
    BY <1>1, <1>2, <1>6 DEF IntentHeld, RemoverInv, OnDisk
  <2>2. ~\E q \in Processes : step'[q] \in {"drop", "keep"}
    BY <2>1 DEF IntentHeld, Resuming
  <2>3. QED BY <1>6, <2>1, <2>2 DEF RemoverInv, OnDisk
<1>9. Accounted' = Accounted
  BY DEF Accounted, Hidden
<1>10. Target' = public /\ public \in Accounted
  BY <1>6 DEF Target, Accounted
<1>11. Knows(p)' /\ OthersStay(p)
  BY <1>1, <1>2, <1>3 DEF Knows, OthersStay
<1>12. QED
  BY <1>1, <1>2, <1>3, <1>7, <1>8, <1>9, <1>10, <1>11, RemoverStep

LEMMA LookKeeps ==
    ASSUME RemoverInv, NEW p \in Processes, Look(p)
    PROVE  RemoverInv'
<1>1. step[p] \in Unbound /\ me[p].target = None /\ me[p] \in Callers
  BY DEF Look, Unbound, RemoverInv, RemoverTypes, Knows
<1>2. CASE Only(p, "adopt") \/ Only(p, "ok")
  BY <1>1, <1>2, OnlyKeeps DEF Places, Unbound, Working, Publishing, Resuming
<1>3. CASE ~Evidence /\ public # None /\ Bind(p) /\ StepTo(p, "publish") /\ UNCHANGED <<anchored, troubles>>
  <2> DEFINE r == [me[p] EXCEPT !.target = public, !.dir = Fresh]
  <2>1. Fresh \in Operations /\ public \in Files
    BY <1>3, FreshExists DEF RemoverInv, RemoverTypes, CleanupTypeOK
  <2>2. r \in Callers /\ r.target = public
    BY <1>1, <2>1 DEF Callers
  <2>3. me' = [me EXCEPT ![p] = r]
    BY <1>3 DEF Bind
  <2> HIDE DEF r
  <2>4. /\ boot' = [target |-> public, dir |-> Fresh]
        /\ UNCHANGED <<public, slot, stage, intent, quarantine, staged, decision, erased, anchored, troubles>>
    BY <1>3 DEF Bind
  <2>5. step[p] \notin {"drop", "keep"}
    BY DEF Look
  <2>6. QED BY <1>3, <2>2, <2>3, <2>4, <2>5, RecordKeeps
<1>4. QED BY <1>2, <1>3 DEF Look

LEMMA BackKeeps ==
    ASSUME RemoverInv, NEW p \in Processes, Back(p)
    PROVE  RemoverInv'
<1>1. step[p] = "back" /\ me[p].target # None /\ me[p] \in Callers
  BY DEF Back, Working, RemoverInv, RemoverTypes, Knows
<1>2. CASE Only(p, "failed") \/ Only(p, "restored")
  BY <1>1, <1>2, OnlyKeeps DEF Places, Unbound, Working, Publishing, Resuming
<1>3. CASE /\ ~Evidence /\ public = me[p].target
           /\ boot' = [target |-> public, dir |-> Fresh]
           /\ me' = [me EXCEPT ![p].dir = Fresh, ![p].again = TRUE, ![p].restoring = FALSE]
           /\ StepTo(p, "publish")
           /\ UNCHANGED <<public, slot, stage, intent, quarantine, staged, decision, erased,
                          anchored, troubles>>
  <2> DEFINE r == [me[p] EXCEPT !.dir = Fresh, !.again = TRUE, !.restoring = FALSE]
  <2>1. Fresh \in Operations
    BY <1>3, FreshExists DEF RemoverInv
  <2>2. r \in Callers /\ r.target = public
    BY <1>1, <1>3, <2>1 DEF Callers
  <2>3. me' = [me EXCEPT ![p] = r]
    BY <1>3
  <2> HIDE DEF r
  <2>4. QED BY <1>1, <1>3, <2>2, <2>3, RecordKeeps
<1>4. QED BY <1>2, <1>3 DEF Back

LEMMA PublishKeeps ==
    ASSUME RemoverInv, NEW p \in Processes, Publish(p)
    PROVE  RemoverInv'
<1>1. step[p] = "publish" /\ me[p].target # None /\ me[p] \in Callers
  BY DEF Publish, Working, RemoverInv, RemoverTypes, Knows
<1>2. CASE Only(p, "resolve")
  BY <1>1, <1>2, OnlyKeeps DEF Places, Unbound, Working, Publishing, Resuming
<1>3. CASE /\ boot # None /\ me' = [me EXCEPT ![p].op = boot.dir]
           /\ StepTo(p, "lock") /\ UNCHANGED <<disk, anchored, troubles>>
  <2> DEFINE r == [me[p] EXCEPT !.op = boot.dir]
  <2>1. boot.dir \in Operations
    BY <1>3 DEF RemoverInv, RemoverTypes, CleanupTypeOK, Bound
  <2>2. r \in Callers /\ r.target = me[p].target
    BY <1>1, <2>1 DEF Callers
  <2>3. me' = [me EXCEPT ![p] = r] /\ StepTo(p, "lock") /\ UNCHANGED disk
    BY <1>3
  <2>4. anchored' \in BOOLEAN /\ troubles' \in 0 .. MaxTroubles
    BY <1>3 DEF RemoverInv, RemoverTypes, CleanupTypeOK
  <2>5. me[p].target \in Accounted \cup {None}
    BY DEF RemoverInv, Whereabouts
  <2> HIDE DEF r
  <2>6. "lock" \in Places /\ "lock" \notin Unbound \cup Publishing \cup Resuming
    BY DEF Places, Unbound, Working, Publishing, Resuming
  <2>7. QED BY <1>1, <2>2, <2>3, <2>4, <2>5, <2>6, MoveKeeps
<1>4. CASE /\ public = me[p].target /\ ~Evidence
           /\ boot' = [target |-> public, dir |-> Fresh]
           /\ me' = [me EXCEPT ![p].op = Fresh]
           /\ StepTo(p, "lock")
           /\ UNCHANGED <<public, slot, stage, intent, quarantine, staged, decision, erased,
                          anchored, troubles>>
  <2> DEFINE r == [me[p] EXCEPT !.op = Fresh]
  <2>1. Fresh \in Operations
    BY <1>4, FreshExists DEF RemoverInv
  <2>2. r \in Callers /\ r.target = public
    BY <1>1, <1>4, <2>1 DEF Callers
  <2>3. me' = [me EXCEPT ![p] = r]
    BY <1>4
  <2> HIDE DEF r
  <2>4. QED BY <1>1, <1>4, <2>2, <2>3, RecordKeeps
<1>5. QED BY <1>2, <1>3, <1>4 DEF Publish

-----------------------------------------------------------------------------
(* The holder of the operation directory prepares its slot and its stage. *)
LEMMA PrepareKeeps ==
    ASSUME RemoverInv, NEW p \in Processes,
           Probe(p) \/ ProbeEnds(p) \/ Place(p) \/ WriteStage(p) \/ WriteEnds(p)
    PROVE  RemoverInv'
<1>1. step[p] \in Publishing /\ me[p].target # None /\ intent = None /\ slot # "target"
  BY DEF Probe, ProbeEnds, Place, WriteStage, WriteEnds, Publishing, Working, RemoverInv, Knows,
         OnDisk, OpHeld
<1>2. PICK l \in Publishing : StepTo(p, l)
  BY DEF Probe, ProbeEnds, Place, WriteStage, WriteEnds, Publishing, Only
<1>3. UNCHANGED <<public, boot, intent, quarantine, staged, decision, erased, anchored, me, troubles>>
  BY DEF Probe, ProbeEnds, Place, WriteStage, WriteEnds, Only, disk
<1>4. slot' \in {"missing", "probe", "placeholder"} /\ stage' \in {"none", "torn", "whole"}
  BY <1>1 DEF Probe, ProbeEnds, Place, WriteStage, WriteEnds, Only, disk, RemoverInv, RemoverTypes,
         CleanupTypeOK
<1>5. l \in Places /\ l \notin Unbound \cup Resuming /\ l # "ok"
  BY DEF Places, Unbound, Working, Publishing, Resuming
<1>6. /\ step' \in [Processes -> Places] /\ step'[p] = l
      /\ \A q \in Processes \ {p} : step'[q] = step[q]
  BY <1>2, <1>5, StepsTo
<1>7. RemoverTypes'
  BY <1>3, <1>4, <1>6 DEF RemoverInv, RemoverTypes, CleanupTypeOK
<1>8. OnDisk'
  <2>1. ~IntentHeld /\ ~IntentHeld' /\ boot # None
    BY <1>1, <1>5, <1>6 DEF IntentHeld, RemoverInv, OnDisk, OpHeld
  <2>2. ~\E q \in Processes : step'[q] \in {"drop", "keep"}
    BY <2>1 DEF IntentHeld, Resuming
  <2>3. QED BY <1>1, <1>3, <1>4, <2>1, <2>2 DEF RemoverInv, OnDisk
<1>9. Accounted' = Accounted /\ Evidence' = Evidence /\ Target' = Target
  <2>1. quarantine # "target"
    BY <1>1 DEF RemoverInv, OnDisk
  <2>2. QED BY <1>1, <1>3, <1>4, <2>1 DEF Accounted, Hidden, Evidence, Target
<1>10. Knows(p)' /\ OthersStay(p)
  BY <1>1, <1>3, <1>5, <1>6 DEF Knows, OthersStay
<1>11. QED
  BY <1>1, <1>3, <1>5, <1>6, <1>7, <1>8, <1>9, <1>10, RemoverStep DEF RemoverInv, Whereabouts

(* The intent is published: the record of the operation directory, as it stands. *)
LEMMA RenameKeeps ==
    ASSUME RemoverInv, NEW p \in Processes, RenameIntent(p)
    PROVE  /\ RemoverInv'
           /\ Marked' = Marked /\ Hidden' = Hidden
<1>1. step[p] \in Publishing /\ me[p].target # None
  BY DEF RenameIntent, Publishing, Working, RemoverInv, Knows
<1>2. intent = None /\ boot # None /\ slot # "target" /\ quarantine = "missing"
  BY <1>1 DEF RemoverInv, OnDisk, OpHeld
<1>3. /\ intent' = boot /\ stage' = "none" /\ StepTo(p, "resolve")
      /\ UNCHANGED <<public, boot, slot, quarantine, staged, decision, erased, anchored, me, troubles>>
  BY DEF RenameIntent
<1>4. "resolve" \in Places /\ "resolve" \notin Unbound \cup Publishing \cup Resuming
  BY DEF Places, Unbound, Working, Publishing, Resuming
<1>5. /\ step' \in [Processes -> Places] /\ step'[p] = "resolve"
      /\ \A q \in Processes \ {p} : step'[q] = step[q]
  BY <1>3, <1>4, StepsTo
<1>6. RemoverTypes'
  BY <1>3, <1>5 DEF RemoverInv, RemoverTypes, CleanupTypeOK
<1>7. ~OpHeld'
  BY <1>1, <1>4, <1>5 DEF OpHeld, RemoverInv, OneAtATime
<1>8. OnDisk'
  <2>1. ~\E q \in Processes : step'[q] \in {"drop", "keep"}
    BY <1>2, <1>5 DEF IntentHeld, Resuming, RemoverInv, OnDisk
  <2>2. QED BY <1>2, <1>3, <1>7, <2>1 DEF OnDisk
<1>9. Hidden' = Hidden /\ Evidence /\ Evidence' /\ Target' = Target
  BY <1>2, <1>3 DEF Hidden, Evidence, Target
<1>10. Accounted' = Accounted
  BY <1>3, <1>9 DEF Accounted
<1>11. Knows(p)' /\ OthersStay(p)
  BY <1>1, <1>3, <1>4, <1>5 DEF Knows, OthersStay
<1>12. QED
  BY <1>3, <1>4, <1>5, <1>6, <1>8, <1>9, <1>10, <1>11, RemoverStep DEF RemoverInv, Whereabouts, Marked

-----------------------------------------------------------------------------
(* The holder of the intent carries it out. *)
LEMMA CarryKeeps ==
    ASSUME RemoverInv, NEW p \in Processes, step[p] = "resume",
           NEW l \in Resuming, StepTo(p, l), l \in {"drop", "keep"} => Gone',
           NEW r \in Callers, me' = [me EXCEPT ![p] = r], r.target = me[p].target,
           UNCHANGED <<stage, intent, anchored, troubles>>,
           public' \in Files \cup {None}, boot' \in {boot, None},
           slot' \in {"missing", "probe", "placeholder", "target"},
           quarantine' \in {"missing", "placeholder", "target"},
           staged' \in {"none", "delete", "restore"}, decision' \in {"none", "delete", "restore"},
           erased' \in SUBSET Files, erased \subseteq erased', Accounted \cap Files \subseteq Accounted'
    PROVE  RemoverInv'
<1>1. l \in Places /\ l \notin Unbound \cup Publishing /\ l # "ok"
  BY DEF Places, Unbound, Working, Publishing, Resuming
<1>2. /\ step' \in [Processes -> Places] /\ step'[p] = l
      /\ \A q \in Processes \ {p} : step'[q] = step[q]
  BY <1>1, StepsTo
<1>3. /\ me' \in [Processes -> Callers] /\ me'[p] = r
      /\ \A q \in Processes \ {p} : me'[q] = me[q]
  BY DEF RemoverInv, RemoverTypes
<1>4. step[p] \in Resuming /\ intent # None /\ r.target # None
  BY DEF Resuming, Working, RemoverInv, OnDisk, IntentHeld, Knows
<1>5. boot' \in Bound \cup {None}
  BY DEF RemoverInv, RemoverTypes, CleanupTypeOK
<1>6. RemoverTypes'
  BY <1>2, <1>3, <1>5 DEF RemoverInv, RemoverTypes, CleanupTypeOK
<1>7. OnDisk'
  <2>1. ~OpHeld'
    BY <1>1, <1>2, <1>4 DEF OpHeld, RemoverInv, OnDisk
  <2>2. (\E q \in Processes : step'[q] \in {"drop", "keep"}) => Gone'
    <3>1. SUFFICES ASSUME NEW q \in Processes, step'[q] \in {"drop", "keep"} PROVE Gone'
      OBVIOUS
    <3>2. q = p
      BY <1>2, <1>4, <3>1 DEF RemoverInv, OneAtATime, Resuming
    <3>3. QED BY <1>2, <3>1, <3>2
  <2>3. QED BY <1>4, <2>1, <2>2 DEF OnDisk
<1>8. Target' = Target /\ Target \in Accounted /\ Target \in Files
  BY <1>4 DEF Target, RemoverInv, Whereabouts, Evidence, RemoverTypes, CleanupTypeOK, Bound
<1>9. me'[p].target \in Accounted' \cup {None}
  <2>1. me[p].target \in Accounted \cup {None} /\ me[p].target \in Files \cup {None}
    BY DEF RemoverInv, Whereabouts, RemoverTypes, Callers
  <2>2. QED BY <1>3, <2>1
<1>10. Knows(p)' /\ OthersStay(p)
  BY <1>1, <1>2, <1>3, <1>4 DEF Knows, OthersStay
<1>11. QED
  BY <1>1, <1>2, <1>4, <1>6, <1>7, <1>8, <1>9, <1>10, RemoverStep

(* What such a step does to the file that it removes: nothing, or it takes it
   from its name, erases it, or puts it back. *)
Effect ==
    \/ UNCHANGED <<public, erased>> /\ Hidden' = Hidden
    \/ /\ Hidden = None /\ public = intent.target /\ public' = None
       /\ Hidden' = intent.target /\ erased' = erased
    \/ /\ Hidden = intent.target /\ Hidden' = None
       /\ erased' = erased \cup {Hidden} /\ public' = public
    \/ /\ Hidden = intent.target /\ Hidden' = None
       /\ public = None /\ public' = Hidden /\ erased' = erased

LEMMA EffectAccounts ==
    ASSUME RemoverInv, intent # None, Effect
    PROVE  /\ public' \in Files \cup {None} /\ erased' \in SUBSET Files /\ erased \subseteq erased'
           /\ Accounted \cap Files \subseteq Accounted'
<1>1. intent.target \in Files
  BY DEF RemoverInv, RemoverTypes, CleanupTypeOK, Bound
<1>2. None \notin Files
  BY CleanupAssumption
<1>3. public \in Files \cup {None} /\ erased \in SUBSET Files
  BY DEF RemoverInv, RemoverTypes, CleanupTypeOK
<1>4. QED BY <1>1, <1>2, <1>3 DEF Effect, Accounted

(* One turn of resume_cleanup: it gives up, or it carries the removal on. *)
GivesUp(p) ==
    /\ StepTo(p, "resolve") \/ StepTo(p, "failed")
    /\ UNCHANGED <<disk, anchored, troubles>>
    /\ me' \in {me, [me EXCEPT ![p].restoring = TRUE]}

Carries(p) ==
    \/ Load(p)
    \/ Found("target", "missing", "placeholder") /\ Hide(p)
    \/ Found("missing", "target", "placeholder") /\ Exchange(p)
    \/ Found("missing", "placeholder", "target") /\ (Unlink(p) \/ PutBack(p))
    \/ Dismantle(p)
    \/ \E d \in {"delete", "restore"} : Decide(p, d)
    \/ \E l \in {"drop", "keep"} : Gone /\ Finish(p, l)

LEMMA ResumeTurns ==
    ASSUME RemoverInv, NEW p \in Processes, Resume(p)
    PROVE  GivesUp(p) \/ Carries(p)
<1>1. ASSUME NEW l \in {"resolve", "failed"}, Only(p, l) PROVE GivesUp(p)
  BY <1>1 DEF Only, GivesUp
<1>2. ASSUME Undecided(p) PROVE GivesUp(p) \/ Carries(p)
  BY <1>1, <1>2 DEF Undecided, Retry, Carries
<1>3. ASSUME Deleting(p) PROVE GivesUp(p) \/ Carries(p)
  BY <1>1, <1>3 DEF Deleting, Retry, Carries
<1>4. ASSUME Restoring(p) PROVE GivesUp(p) \/ Carries(p)
  BY <1>4 DEF Restoring, GivesUp, Carries
<1>5. QED BY <1>2, <1>3, <1>4 DEF Resume, Carries

LEMMA GivesUpKeeps ==
    ASSUME RemoverInv, NEW p \in Processes, step[p] = "resume", GivesUp(p)
    PROVE  RemoverInv'
<1>1. me[p].target # None /\ me[p] \in Callers /\ me[p].target \in Accounted \cup {None}
  BY DEF Working, Resuming, RemoverInv, RemoverTypes, Knows, Whereabouts
<1>2. PICK l \in {"resolve", "failed"} : StepTo(p, l)
  BY DEF GivesUp
<1>3. UNCHANGED disk /\ anchored' \in BOOLEAN /\ troubles' \in 0 .. MaxTroubles
  BY DEF GivesUp, RemoverInv, RemoverTypes, CleanupTypeOK
<1>4. l \in Places /\ l \notin Unbound \cup Publishing \cup Resuming \cup {"drop", "keep", "ok"}
  BY <1>2 DEF Places, Unbound, Working, Publishing, Resuming
<1>5. PICK r \in {me[p], [me[p] EXCEPT !.restoring = TRUE]} : me' = [me EXCEPT ![p] = r]
  BY <1>1 DEF GivesUp, RemoverInv, RemoverTypes
<1>6. r \in Callers /\ r.target = me[p].target
  BY <1>1, <1>5 DEF Callers
<1>7. QED BY <1>1, <1>2, <1>3, <1>4, <1>5, <1>6, MoveKeeps

LEMMA CarriesTyped ==
    ASSUME RemoverInv, NEW p \in Processes, step[p] = "resume", Carries(p)
    PROVE  /\ boot' \in {boot, None} /\ UNCHANGED <<stage, intent, anchored, troubles>>
           /\ slot' \in {"missing", "probe", "placeholder", "target"}
           /\ quarantine' \in {"missing", "placeholder", "target"}
           /\ staged' \in {"none", "delete", "restore"} /\ decision' \in {"none", "delete", "restore"}
           /\ \E l \in Resuming : StepTo(p, l) /\ (l \in {"drop", "keep"} => Gone')
           /\ \E r \in Callers : me' = [me EXCEPT ![p] = r] /\ r.target = me[p].target
<1>1. /\ slot \in {"missing", "probe", "placeholder", "target"}
      /\ quarantine \in {"missing", "placeholder", "target"}
      /\ staged \in {"none", "delete", "restore"} /\ decision \in {"none", "delete", "restore"}
  BY DEF RemoverInv, RemoverTypes, CleanupTypeOK
<1>2. me[p] \in Callers /\ me = [me EXCEPT ![p] = me[p]]
  BY DEF RemoverInv, RemoverTypes
<1>3. UNCHANGED <<stage, intent, anchored, troubles>>
  BY DEF Carries, Load, Hide, Exchange, Unlink, PutBack, Dismantle, Decide, Finish, Sets
<1>4. boot' \in {boot, None}
  BY DEF Carries, Load, Hide, Exchange, Unlink, PutBack, Dismantle, Decide, Finish
<1>5. /\ slot' \in {"missing", "probe", "placeholder", "target"}
      /\ quarantine' \in {"missing", "placeholder", "target"}
  BY <1>1 DEF Carries, Load, Hide, Exchange, Unlink, PutBack, Dismantle, Decide, Finish, Found
<1>6. staged' \in {"none", "delete", "restore"} /\ decision' \in {"none", "delete", "restore"}
  BY <1>1 DEF Carries, Load, Hide, Exchange, Unlink, PutBack, Dismantle, Decide, Finish
<1>7. \E l \in Resuming : StepTo(p, l) /\ (l \in {"drop", "keep"} => Gone')
  <2>1. CASE \E l \in {"drop", "keep"} : Gone /\ Finish(p, l)
    BY <2>1 DEF Finish, Sets, Gone, Resuming
  <2>2. CASE ~\E l \in {"drop", "keep"} : Gone /\ Finish(p, l)
    <3>1. StepTo(p, "resume")
      BY <2>2 DEF Carries, Load, Hide, Exchange, Unlink, PutBack, Dismantle, Decide, Sets
    <3>2. QED BY <3>1 DEF Resuming
  <2>3. QED BY <2>1, <2>2
<1>8. \E r \in Callers : me' = [me EXCEPT ![p] = r] /\ r.target = me[p].target
  <2>1. \/ me' = me
        \/ me' = [me EXCEPT ![p].restoring = TRUE, ![p].strayed = TRUE]
        \/ \E l \in {"drop", "keep"} : me' = [me EXCEPT ![p].restoring = @ \/ l = "keep"]
    BY DEF Carries, Load, Hide, Exchange, Unlink, PutBack, Dismantle, Decide, Finish
  <2>2. CASE me' = me
    BY <1>2, <2>2
  <2>3. CASE me' = [me EXCEPT ![p].restoring = TRUE, ![p].strayed = TRUE]
    <3> DEFINE r == [me[p] EXCEPT !.restoring = TRUE, !.strayed = TRUE]
    <3>1. r \in Callers /\ r.target = me[p].target
      BY <1>2 DEF Callers
    <3>2. me' = [me EXCEPT ![p] = r]
      BY <2>3
    <3>3. QED BY <3>1, <3>2
  <2>4. ASSUME NEW l \in {"drop", "keep"}, me' = [me EXCEPT ![p].restoring = @ \/ l = "keep"]
        PROVE  \E r \in Callers : me' = [me EXCEPT ![p] = r] /\ r.target = me[p].target
    <3> DEFINE r == [me[p] EXCEPT !.restoring = me[p].restoring \/ l = "keep"]
    <3>1. r \in Callers /\ r.target = me[p].target
      BY <1>2 DEF Callers
    <3>2. me' = [me EXCEPT ![p] = r]
      BY <2>4
    <3>3. QED BY <3>1, <3>2
  <2>5. QED BY <2>1, <2>2, <2>3, <2>4
<1>9. QED BY <1>3, <1>4, <1>5, <1>6, <1>7, <1>8

LEMMA CarriesEffect ==
    ASSUME RemoverInv, NEW p \in Processes, step[p] = "resume", Carries(p)
    PROVE  Effect /\ intent # None /\ intent' = intent
<1>1. intent # None
  BY DEF RemoverInv, OnDisk, IntentHeld, Resuming
<1>2. intent' = intent
  BY CarriesTyped
<1> DEFINE W == quarantine = "target" \/ slot = "target"
<1>3. Hidden = (IF W THEN intent.target ELSE None) /\ Hidden' = (IF W' THEN intent.target ELSE None)
  BY <1>2 DEF Hidden
<1>4. CASE Load(p) \/ (\E d \in {"delete", "restore"} : Decide(p, d))
           \/ (\E l \in {"drop", "keep"} : Finish(p, l))
  <2>1. UNCHANGED <<public, erased, slot, quarantine>>
    BY <1>4 DEF Load, Decide, Finish
  <2>2. QED BY <1>1, <1>2, <1>3, <2>1 DEF Effect
<1>5. CASE Dismantle(p)
  <2>1. ~W /\ ~W' /\ UNCHANGED <<public, erased>>
    BY <1>5 DEF Dismantle
  <2>2. QED BY <1>1, <1>2, <1>3, <2>1 DEF Effect
<1>6. CASE Found("target", "missing", "placeholder") /\ Hide(p)
  <2>1. ~W /\ W' /\ public = intent.target /\ public' = None /\ erased' = erased
    BY <1>6 DEF Found, Class, Hide
  <2>2. QED BY <1>1, <1>2, <1>3, <2>1 DEF Effect
<1>7. CASE Found("missing", "target", "placeholder") /\ Exchange(p)
  <2>1. W /\ W' /\ UNCHANGED <<public, erased>>
    BY <1>7 DEF Found, Exchange
  <2>2. QED BY <1>1, <1>2, <1>3, <2>1 DEF Effect
<1>8. CASE Found("missing", "placeholder", "target") /\ Unlink(p)
  <2>1. W /\ ~W' /\ public' = public /\ erased' = erased \cup {intent.target}
    BY <1>8 DEF Found, Unlink
  <2>2. QED BY <1>1, <1>2, <1>3, <2>1 DEF Effect
<1>9. CASE Found("missing", "placeholder", "target") /\ PutBack(p)
  <2>1. W /\ ~W' /\ public = None /\ public' = intent.target /\ erased' = erased
    BY <1>9 DEF Found, Class, PutBack
  <2>2. QED BY <1>1, <1>2, <1>3, <2>1 DEF Effect
<1>10. QED BY <1>1, <1>2, <1>4, <1>5, <1>6, <1>7, <1>8, <1>9 DEF Carries

LEMMA ResumeKeeps ==
    ASSUME RemoverInv, NEW p \in Processes, Resume(p)
    PROVE  RemoverInv'
<1>1. step[p] = "resume"
  BY DEF Resume
<1>2. CASE GivesUp(p)
  BY <1>1, <1>2, GivesUpKeeps
<1>3. CASE Carries(p)
  <2>1. PICK l \in Resuming : StepTo(p, l) /\ (l \in {"drop", "keep"} => Gone')
    BY <1>1, <1>3, CarriesTyped
  <2>2. PICK r \in Callers : me' = [me EXCEPT ![p] = r] /\ r.target = me[p].target
    BY <1>1, <1>3, CarriesTyped
  <2>3. /\ public' \in Files \cup {None} /\ erased' \in SUBSET Files /\ erased \subseteq erased'
        /\ Accounted \cap Files \subseteq Accounted'
    BY <1>1, <1>3, CarriesEffect, EffectAccounts
  <2>4. /\ boot' \in {boot, None} /\ UNCHANGED <<stage, intent, anchored, troubles>>
        /\ slot' \in {"missing", "probe", "placeholder", "target"}
        /\ quarantine' \in {"missing", "placeholder", "target"}
        /\ staged' \in {"none", "delete", "restore"} /\ decision' \in {"none", "delete", "restore"}
    BY <1>1, <1>3, CarriesTyped
  <2>5. QED BY <1>1, <2>1, <2>2, <2>3, <2>4, CarryKeeps
<1>4. QED BY <1>2, <1>3, ResumeTurns

(* The intent goes last: everything else of the record is gone already. *)
LEMMA RetireKeeps ==
    ASSUME RemoverInv, NEW p \in Processes, Retire(p)
    PROVE  /\ RemoverInv'
           /\ Evidence /\ ~Evidence' /\ Hidden = None /\ Hidden' = None
<1>1. step[p] \in Resuming /\ me[p].target # None
  BY DEF Retire, Resuming, Working, RemoverInv, Knows
<1>2. intent # None /\ Gone
  BY <1>1 DEF Retire, RemoverInv, OnDisk, IntentHeld
<1>3. PICK l \in {"resolve", "back"} : StepTo(p, l)
  BY DEF Retire, Sets
<1>4. /\ intent' = None
      /\ UNCHANGED <<public, boot, slot, stage, quarantine, staged, decision, erased, anchored, me, troubles>>
  BY DEF Retire, Sets
<1>5. l \in Places /\ l \notin Unbound \cup Publishing \cup Resuming \cup {"ok"}
  BY DEF Places, Unbound, Working, Publishing, Resuming
<1>6. /\ step' \in [Processes -> Places] /\ step'[p] = l
      /\ \A q \in Processes \ {p} : step'[q] = step[q]
  BY <1>3, <1>5, StepsTo
<1>7. RemoverTypes'
  BY <1>4, <1>6 DEF RemoverInv, RemoverTypes, CleanupTypeOK
<1>8. ~OpHeld' /\ ~IntentHeld'
  BY <1>1, <1>2, <1>5, <1>6 DEF OpHeld, IntentHeld, RemoverInv, OneAtATime, OnDisk
<1>9. OnDisk'
  <2>1. ~\E q \in Processes : step'[q] \in {"drop", "keep"}
    BY <1>8 DEF IntentHeld, Resuming
  <2>2. QED BY <1>2, <1>4, <1>8, <2>1 DEF OnDisk, Gone
<1>10. Evidence /\ ~Evidence' /\ Hidden = None /\ Hidden' = None
  BY <1>2, <1>4 DEF Hidden, Evidence, Gone
<1>11. Accounted' = Accounted
  BY <1>4, <1>10 DEF Accounted
<1>12. Knows(p)' /\ OthersStay(p)
  BY <1>1, <1>4, <1>5, <1>6 DEF Knows, OthersStay
<1>13. QED
  BY <1>4, <1>5, <1>6, <1>7, <1>9, <1>10, <1>11, <1>12, RemoverStep DEF RemoverInv, Whereabouts

LEMMA CreateKeeps ==
    ASSUME RemoverInv, Create
    PROVE  RemoverInv' /\ Hidden' = Hidden /\ Evidence' = Evidence /\ Target' = Target
<1>1. /\ public = None /\ public' \in Files
      /\ UNCHANGED <<boot, slot, stage, intent, quarantine, staged, decision, erased,
                     anchored, step, me, troubles>>
  BY DEF Create
<1>2. Hidden' = Hidden /\ Evidence' = Evidence /\ Target' = Target
  BY <1>1 DEF Hidden, Evidence, Target
<1>3. Accounted \cap Files \subseteq Accounted'
  BY <1>1, <1>2, CleanupAssumption DEF Accounted
<1>4. RemoverTypes' /\ OneAtATime' /\ OnDisk' /\ Truthful' /\ \A p \in Processes : Knows(p)'
  BY <1>1 DEF RemoverInv, RemoverTypes, CleanupTypeOK, OneAtATime, OnDisk, Truthful, Knows, OpHeld,
              IntentHeld, Gone
<1>5. Whereabouts'
  <2>1. ASSUME NEW p \in Processes PROVE me'[p].target \in Accounted' \cup {None}
    <3>1. me[p].target \in Accounted \cup {None} /\ me[p].target \in Files \cup {None}
      BY DEF RemoverInv, Whereabouts, RemoverTypes, Callers
    <3>2. QED BY <1>1, <1>3, <3>1
  <2>2. Evidence => Target \in Accounted /\ Target \in Files
    BY DEF Target, Evidence, RemoverInv, Whereabouts, RemoverTypes, CleanupTypeOK, Bound
  <2>3. QED BY <1>2, <1>3, <2>1, <2>2 DEF Whereabouts
<1>6. QED BY <1>2, <1>4, <1>5 DEF RemoverInv

-----------------------------------------------------------------------------
(* The invariant holds of every behaviour. *)
LEMMA RemoverInvInit ==
    ASSUME CleanupInit PROVE RemoverInv
<1>1. public \in Files
  BY CleanupAssumption DEF CleanupInit
<1>2. PICK l \in Loads : /\ step = [p \in Processes |-> IF p \in l.running THEN "idle" ELSE "off"]
                         /\ troubles = l.spent
  BY DEF CleanupInit
<1>3. l.spent \in 0 .. MaxTroubles
  BY <1>2, CleanupAssumption
<1>4. Idle \in Callers /\ Idle.target = None
  BY DEF Idle, Callers, Calls
<1>5. /\ boot = None /\ slot = "missing" /\ stage = "none" /\ intent = None /\ quarantine = "missing"
      /\ staged = "none" /\ decision = "none" /\ erased = {} /\ anchored = TRUE
      /\ me = [p \in Processes |-> Idle]
  BY DEF CleanupInit
<1>6. \A p \in Processes : step[p] \in {"off", "idle"} /\ me[p] = Idle
  BY <1>2, <1>5
<1>7. CleanupTypeOK
  BY <1>1, <1>2, <1>3, <1>5 DEF CleanupTypeOK
<1>8. step \in [Processes -> Places] /\ me \in [Processes -> Callers]
  BY <1>2, <1>4, <1>5 DEF Places, Unbound
<1>9. \A p \in Processes : step[p] \notin Working \cup Publishing \cup Resuming \cup {"ok"}
  BY <1>6 DEF Working, Publishing, Resuming
<1>10. OneAtATime /\ Truthful /\ \A p \in Processes : Knows(p)
  BY <1>4, <1>6, <1>9 DEF OneAtATime, Truthful, Knows
<1>11. OnDisk
  <2>1. ~OpHeld /\ ~IntentHeld /\ ~\E p \in Processes : step[p] \in {"drop", "keep"}
    BY <1>9 DEF OpHeld, IntentHeld, Resuming
  <2>2. QED BY <1>5, <2>1 DEF OnDisk
<1>12. Whereabouts
  BY <1>4, <1>5, <1>6 DEF Whereabouts, Evidence
<1>13. QED BY <1>7, <1>8, <1>10, <1>11, <1>12 DEF RemoverInv, RemoverTypes

LEMMA RemoverInvNext ==
    ASSUME RemoverInv, [CleanupNext]_cleanupVars PROVE RemoverInv'
<1>1. CASE UNCHANGED cleanupVars
  BY <1>1 DEF cleanupVars, disk, RemoverInv, RemoverTypes, CleanupTypeOK, OneAtATime, OnDisk, Whereabouts,
     Truthful, Knows, OpHeld, IntentHeld, Gone, Accounted, Hidden, Evidence, Target
<1>2. CASE Create \/ ParentMoves \/ ParentReturns
  BY <1>2, CreateKeeps, ParentKeeps
<1>3. ASSUME NEW p \in Processes, Kill(p) \/ \E call \in {"remove", "resume", "retry"} : Begin(p, call)
      PROVE  RemoverInv'
  BY <1>3, BeginKeeps, EndKeeps
<1>4. ASSUME NEW p \in Processes, Step(p) PROVE RemoverInv'
  <2>1. CASE Check(p) \/ Look(p) \/ FindPending(p) \/ Adopt(p)
    BY <2>1, SeekingKeeps, LookKeeps, AdoptKeeps
  <2>2. CASE Resolve(p) \/ Seek(p) \/ Terminal(p) \/ Back(p)
    BY <2>2, ResolveKeeps, TerminalKeeps, BackKeeps
  <2>3. CASE Publish(p) \/ Lock(p)
    BY <2>3, PublishKeeps, LockKeeps
  <2>4. CASE Probe(p) \/ ProbeEnds(p) \/ Place(p) \/ WriteStage(p) \/ WriteEnds(p) \/ RenameIntent(p)
    BY <2>4, PrepareKeeps, RenameKeeps
  <2>5. CASE Resume(p) \/ Retire(p) \/ EndCall(p)
    BY <2>5, ResumeKeeps, RetireKeeps, EndKeeps
  <2>6. QED BY <1>4, <2>1, <2>2, <2>3, <2>4, <2>5 DEF Step
<1>5. QED BY <1>1, <1>2, <1>3, <1>4 DEF CleanupNext

LEMMA RemoverInvHolds == CleanupSpec => []RemoverInv
<1>1. CleanupInit => RemoverInv
  BY RemoverInvInit
<1>2. RemoverInv /\ [CleanupNext]_cleanupVars => RemoverInv'
  BY RemoverInvNext
<1>3. QED BY <1>1, <1>2, PTL DEF CleanupSpec

(* A call that reports success has removed what it set out to remove, whoever
   finished the work and whatever took the name since: resolve_bound_cleanup
   reports a removed entry only where cleanup_terminal_snapshot found neither a
   record nor the entry.  It holds because a file that a process or a record
   names stays at its name, hidden or erased (Whereabouts), and without a record
   nothing is hidden (OnDisk). *)
THEOREM SuccessIsTrue == CleanupSpec => []Truthful
<1>1. RemoverInv => Truthful
  BY DEF RemoverInv
<1>2. QED BY <1>1, RemoverInvHolds, PTL

-----------------------------------------------------------------------------
(* Every step is one that Removal allows. *)
Seen == <<public, Marked, Hidden, erased>>
Allowed == [Promise!RemovalNext]_(Promise!removalVars)

LEMMA SeenStays ==
    ASSUME UNCHANGED Seen PROVE Allowed
BY DEF Seen, Allowed, Promise!removalVars

LEMMA DiskStays ==
    ASSUME UNCHANGED disk PROVE Allowed
<1>1. UNCHANGED Seen
  BY DEF disk, Seen, Marked, Hidden, Evidence, Target
<1>2. QED BY <1>1, SeenStays

LEMMA RecordAllowed ==
    ASSUME RemoverInv, ~Evidence, public # None, boot' = [target |-> public, dir |-> Fresh],
           UNCHANGED <<public, slot, intent, quarantine, erased>>
    PROVE  Allowed
<1>1. boot' \in Bound
  <2>1. Fresh \in Operations /\ public \in Files
    BY FreshExists DEF RemoverInv, RemoverTypes, CleanupTypeOK
  <2>2. QED BY <2>1 DEF Bound
<1>2. boot' # None /\ intent = None /\ boot'.target = public
  BY <1>1, CleanupAssumption DEF Evidence
<1>3. Marked = None /\ Marked' = public /\ Hidden' = Hidden
  BY <1>2 DEF Marked, Hidden, Evidence, Target
<1>4. Promise!Mark
  BY <1>3 DEF Promise!Mark
<1>5. QED BY <1>4 DEF Allowed, Promise!RemovalNext

LEMMA PrepareAllowed ==
    ASSUME RemoverInv, NEW p \in Processes,
           Probe(p) \/ ProbeEnds(p) \/ Place(p) \/ WriteStage(p) \/ WriteEnds(p)
    PROVE  Allowed
<1>1. intent = None /\ slot # "target" /\ quarantine = "missing"
  BY DEF Probe, ProbeEnds, Place, WriteStage, WriteEnds, Publishing, RemoverInv, OnDisk, OpHeld
<1>2. UNCHANGED <<public, boot, intent, quarantine, erased>>
  BY DEF Probe, ProbeEnds, Place, WriteStage, WriteEnds, Only, disk
<1>3. slot' # "target"
  BY <1>1 DEF Probe, ProbeEnds, Place, WriteStage, WriteEnds, Only, disk
<1>4. Hidden = None /\ Hidden' = None /\ Marked' = Marked
  BY <1>1, <1>2, <1>3 DEF Hidden, Marked, Evidence, Target
<1>5. QED BY <1>2, <1>4, SeenStays DEF Seen

LEMMA ResumeAllowed ==
    ASSUME RemoverInv, NEW p \in Processes, Resume(p)
    PROVE  Allowed
<1>1. step[p] = "resume"
  BY DEF Resume
<1>2. CASE GivesUp(p)
  BY <1>2, DiskStays DEF GivesUp
<1>3. CASE Carries(p)
  <2>1. Effect /\ intent # None /\ intent' = intent
    BY <1>1, <1>3, CarriesEffect
  <2>2. Marked = intent.target /\ Marked' = intent.target /\ intent.target # None
    BY <2>1, CleanupAssumption DEF Marked, Evidence, Target, RemoverInv, RemoverTypes, CleanupTypeOK, Bound
  <2>3. CASE UNCHANGED <<public, erased>> /\ Hidden' = Hidden
    BY <2>2, <2>3, SeenStays DEF Seen
  <2>4. CASE /\ Hidden = None /\ public = intent.target /\ public' = None
             /\ Hidden' = intent.target /\ erased' = erased
    <3>1. Promise!Hide
      BY <2>2, <2>4 DEF Promise!Hide
    <3>2. QED BY <3>1 DEF Allowed, Promise!RemovalNext
  <2>5. CASE /\ Hidden = intent.target /\ Hidden' = None
             /\ erased' = erased \cup {Hidden} /\ public' = public
    <3>1. Promise!Erase
      BY <2>2, <2>5 DEF Promise!Erase
    <3>2. QED BY <3>1 DEF Allowed, Promise!RemovalNext
  <2>6. CASE /\ Hidden = intent.target /\ Hidden' = None
             /\ public = None /\ public' = Hidden /\ erased' = erased
    <3>1. Promise!PutBack
      BY <2>2, <2>6 DEF Promise!PutBack
    <3>2. QED BY <3>1 DEF Allowed, Promise!RemovalNext
  <2>7. QED BY <2>1, <2>3, <2>4, <2>5, <2>6 DEF Effect
<1>4. QED BY <1>2, <1>3, ResumeTurns

LEMMA RetireAllowed ==
    ASSUME RemoverInv, NEW p \in Processes, Retire(p)
    PROVE  Allowed
<1>1. Evidence /\ ~Evidence' /\ Hidden = None /\ Hidden' = None
  BY RetireKeeps
<1>2. UNCHANGED <<public, erased>>
  BY DEF Retire
<1>3. Target # None
  BY <1>1, CleanupAssumption DEF Target, Evidence, RemoverInv, RemoverTypes, CleanupTypeOK, Bound
<1>4. Marked # None /\ Marked' = None
  BY <1>1, <1>3 DEF Marked
<1>5. Promise!Clear
  BY <1>1, <1>2, <1>4 DEF Promise!Clear
<1>6. QED BY <1>5 DEF Allowed, Promise!RemovalNext

LEMMA CreateAllowed ==
    ASSUME RemoverInv, Create
    PROVE  Allowed
<1>1. Hidden' = Hidden /\ Evidence' = Evidence /\ Target' = Target
  BY CreateKeeps
<1>2. Marked' = Marked
  BY <1>1 DEF Marked
<1>3. Hidden \in {None, Marked}
  BY DEF Hidden, Marked, Evidence, Target, RemoverInv, OnDisk
<1>4. public = None /\ public' \in Files \ (erased \cup {Hidden}) /\ erased' = erased
  BY <1>3, CleanupAssumption DEF Create, Marked
<1>5. Promise!Create
  BY <1>1, <1>2, <1>4 DEF Promise!Create
<1>6. QED BY <1>5 DEF Allowed, Promise!RemovalNext

LEMMA StepAllowed ==
    ASSUME RemoverInv, [CleanupNext]_cleanupVars PROVE Allowed
<1>1. CASE UNCHANGED cleanupVars \/ ParentMoves \/ ParentReturns
  BY <1>1, DiskStays DEF cleanupVars, ParentMoves, ParentReturns
<1>2. CASE Create
  BY <1>2, CreateAllowed
<1>3. ASSUME NEW p \in Processes, Kill(p) \/ \E call \in {"remove", "resume", "retry"} : Begin(p, call)
      PROVE  Allowed
  BY <1>3, DiskStays DEF Kill, Begin
<1>4. ASSUME NEW p \in Processes, NEW l, Only(p, l) PROVE Allowed
  BY <1>4, DiskStays DEF Only
<1>5. ASSUME NEW p \in Processes, Step(p) PROVE Allowed
  <2>1. CASE Check(p) \/ FindPending(p) \/ Resolve(p) \/ Seek(p) \/ Terminal(p)
    <3>1. PICK l \in Places : Only(p, l)
      BY <2>1 DEF Check, FindPending, Resolve, Seek, Terminal, Retry, Places, Unbound, Working, Resuming
    <3>2. QED BY <1>4, <3>1
  <2>2. CASE Adopt(p) \/ Lock(p) \/ EndCall(p)
    <3>1. UNCHANGED disk
      BY <2>2 DEF Adopt, Adopted, Retry, Only, Lock, EndCall
    <3>2. QED BY <3>1, DiskStays
  <2>3. CASE Look(p) \/ Back(p) \/ Publish(p)
    <3>1. CASE UNCHANGED disk
      BY <3>1, DiskStays
    <3>2. CASE ~UNCHANGED disk
      <4>1. /\ ~Evidence /\ boot' = [target |-> public, dir |-> Fresh]
            /\ UNCHANGED <<public, slot, intent, quarantine, erased>>
            /\ public # None
        <5>1. CASE Look(p)
          BY <3>2, <5>1 DEF Look, Bind, Only
        <5>2. CASE Back(p)
          BY <3>2, <5>2 DEF Back, Only, RemoverInv, Knows, Working
        <5>3. CASE Publish(p)
          BY <3>2, <5>3 DEF Publish, Only, RemoverInv, Knows, Working
        <5>4. QED BY <2>3, <5>1, <5>2, <5>3
      <4>2. QED BY <4>1, RecordAllowed
    <3>3. QED BY <3>1, <3>2
  <2>4. CASE Probe(p) \/ ProbeEnds(p) \/ Place(p) \/ WriteStage(p) \/ WriteEnds(p)
    BY <2>4, PrepareAllowed
  <2>5. CASE RenameIntent(p)
    <3>1. UNCHANGED Seen
      BY <2>5, RenameKeeps DEF Seen, RenameIntent
    <3>2. QED BY <3>1, SeenStays
  <2>6. CASE Resume(p) \/ Retire(p)
    BY <2>6, ResumeAllowed, RetireAllowed
  <2>7. QED BY <1>5, <2>1, <2>2, <2>3, <2>4, <2>5, <2>6 DEF Step
<1>6. QED BY <1>1, <1>2, <1>3, <1>5 DEF CleanupNext

(* The removal of an owned entry does step by step what Removal allows, with
   any number of processes that remove the entry or finish a removal, killed at
   any step: Look, Back and Publish put a file on record, a turn of
   resume_cleanup hides, erases or puts back the file on record and no other,
   and finish_cleanup_records clears the record last. *)
THEOREM RemovalIsKept == CleanupSpec => KeepsPromise
<1>1. CleanupInit => Promise!RemovalInit
  <2>1. SUFFICES ASSUME CleanupInit PROVE Promise!RemovalInit
    OBVIOUS
  <2>2. public \in Files
    BY <2>1, CleanupAssumption DEF CleanupInit
  <2>3. Marked = None /\ Hidden = None /\ erased = {}
    BY <2>1 DEF CleanupInit, Marked, Hidden, Evidence
  <2>4. QED BY <2>2, <2>3 DEF Promise!RemovalInit
<1>2. RemoverInv /\ [CleanupNext]_cleanupVars => [Promise!RemovalNext]_(Promise!removalVars)
  BY StepAllowed DEF Allowed
<1>3. QED
  BY <1>1, <1>2, RemoverInvHolds, PTL DEF CleanupSpec, KeepsPromise, Promise!RemovalSpec
=============================================================================
