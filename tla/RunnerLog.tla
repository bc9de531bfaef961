----------------------------- MODULE RunnerLog -----------------------------
(***************************************************************************)
(* The runner journal (runner_log.rs): the visible log of one turn and the *)
(* checkpoint beside it.  A writer holds the log's flock; an append first  *)
(* publishes its intent in the checkpoint, then writes the missing bytes,  *)
(* syncs the log and publishes the committed state.  Whoever opens the     *)
(* journal next completes a pending intent.                                *)
(*                                                                         *)
(* A publication is an atomic exchange of directory entries followed by    *)
(* fsync of the directory (rooted_fs.rs): `side` is what processes see,    *)
(* `dur` what survives a power loss.  Writers may die or get an I/O error  *)
(* at every step, and the machine may lose power.                          *)
(***************************************************************************)
EXTENDS JournalData

CONSTANTS
    Writers,    \* processes that open the journal
    MaxFaults,  \* bound: deaths of a writer and I/O errors
    MaxPower,   \* bound: power losses
    Spent       \* bound: pairs of faults and power losses a behaviour begins with

\* What a checkpoint holds: the committed state and, during an append, its intent.
Intents  == [payload : Seq(Unit), next : Commit]
Journals == [committed : Commit, pending : Intents \cup {None}]

ASSUME LogAssumption ==
    /\ None \notin Workers \cup Writers \cup Completions \cup Intents \cup Journals
    /\ Streams \cap Lines = {}
    /\ StreamLen \in Nat /\ MaxLines \in Nat
    /\ MaxFaults \in Nat /\ MaxPower \in Nat
    /\ Spent \subseteq (0..MaxFaults) \X (0..MaxPower)

VARIABLES
    made,     \* the log file exists
    file,     \* its bytes
    synced,   \* how many of them are on disk
    side,     \* the checkpoint, None before the first open has written it
    dur,      \* the checkpoint on disk
    lock,     \* holder of the journal flock
    pc,       \* where each writer stands
    snap,     \* the committed length a reader has taken from the checkpoint
    shown,    \* what it has printed of the log
    faults, power

lvars == <<made, file, synced, side, dur, lock, pc, snap, shown, faults, power>>

Journal(c, p) == [committed |-> c, pending |-> p]
Pcs == {"off", "create", "lock", "locked", "ready", "published", "write", "commit",
        "poisoned", "corrupt"}

NoFile  == <<made, file, synced>>
NoSide  == <<side, dur>>
Nobody  == <<snap, shown>>
Goto(w, l) == pc' = [pc EXCEPT ![w] = l]

\* The checkpoint's committed part; a journal without one is empty.
Committed == IF side = None THEN Commit0 ELSE side.committed
Pending   == IF side = None THEN None ELSE side.pending
End       == Committed.len + Len(Pending.payload)

LogInit ==
    /\ lock = None /\ pc = [w \in Writers |-> "off"]
    /\ snap = 0 /\ shown = <<>> /\ \E b \in Spent : faults = b[1] /\ power = b[2]
    /\ \/ made = FALSE /\ file = <<>> /\ side = None
       \/ /\ made = TRUE /\ file = Line("accepted")
          /\ side = Journal([Commit0 EXCEPT !.len = 1, !.accepted = TRUE], None)
    /\ synced = Len(file) /\ dur = side

-----------------------------------------------------------------------------
(* open *)

\* The existence check and the no-replace creation are two steps: of two first
\* openers the slower one fails with EEXIST.
FindLog(w) ==
    /\ pc[w] = "off"
    /\ Goto(w, IF made THEN "lock" ELSE "create")
    /\ UNCHANGED <<NoFile, NoSide, lock, Nobody, faults, power>>

CreateLog(w) ==
    /\ pc[w] = "create"
    /\ Goto(w, IF made THEN "off" ELSE "lock")
    /\ made' = TRUE
    /\ UNCHANGED <<file, synced, NoSide, lock, Nobody, faults, power>>

\* LOCK_EX | LOCK_NB: a busy journal is reported, not waited for.
Flock(w) ==
    /\ pc[w] = "lock"
    /\ IF lock = None THEN lock' = w /\ Goto(w, "locked") ELSE lock' = lock /\ Goto(w, "off")
    /\ UNCHANGED <<NoFile, NoSide, Nobody, faults, power>>

\* Only an empty log may get a first checkpoint.
InitCheckpoint(w) ==
    /\ pc[w] = "locked" /\ side = None
    /\ IF file = <<>>
       THEN side' = Journal(Commit0, None) /\ Goto(w, "published")
       ELSE side' = side /\ Goto(w, "corrupt")
    /\ UNCHANGED <<NoFile, dur, lock, Nobody, faults, power>>

\* recover: the log must end inside the pending payload and match it so far;
\* without an intent it must end at the committed length.
Resumable ==
    IF Pending = None THEN Len(file) = Committed.len
    ELSE /\ Len(file) \in Committed.len..End
         /\ \A i \in 1..(Len(file) - Committed.len) :
               file[Committed.len + i] = Pending.payload[i]

Recover(w) ==
    /\ pc[w] = "locked" /\ side # None
    /\ Goto(w, IF ~Resumable THEN "corrupt" ELSE IF Pending = None THEN "ready" ELSE "write")
    /\ UNCHANGED <<NoFile, NoSide, lock, Nobody, faults, power>>

-----------------------------------------------------------------------------
(* append *)

\* accepted, append_chunk, append_bytes, finish and the assignment upgrade all
\* publish an intent.  A completed journal takes no more appends.
Open_Reopened == TRUE
Open == Committed.completion = None

PublishIntent(w) ==
    /\ pc[w] = "ready" /\ Open
    /\ \E a \in Appends(Committed, file) :
         IF Len(file) = Committed.len
         THEN /\ side' = Journal(Committed, [payload |-> a.payload, next |-> Recorded(Committed, a)])
              /\ Goto(w, "published")
         ELSE side' = side /\ Goto(w, "corrupt")
    /\ UNCHANGED <<NoFile, dur, lock, Nobody, faults, power>>

\* fsync of the directory ends a publication.
SyncDirectory(w) ==
    /\ pc[w] = "published"
    /\ dur' = side
    /\ Goto(w, IF Pending = None THEN "ready" ELSE "write")
    /\ UNCHANGED <<NoFile, side, lock, Nobody, faults, power>>

\* The bytes of the intent that are not in the log yet, one by one.
Missing_All == 1
Missing == Len(file) - Committed.len + 1

WriteByte(w) ==
    /\ pc[w] = "write" /\ Len(file) < End
    /\ file' = Append(file, Pending.payload[Missing])
    /\ UNCHANGED <<made, synced, NoSide, lock, pc, Nobody, faults, power>>

Synced_NotYet == synced
Synced == Len(file)

SyncLog(w) ==
    /\ pc[w] = "write" /\ Len(file) = End
    /\ synced' = Synced
    /\ Goto(w, "commit")
    /\ UNCHANGED <<made, file, NoSide, lock, Nobody, faults, power>>

Completed_KeepsIntent == Journal(Pending.next, Pending)
Completed == Journal(Pending.next, None)

PublishCommit(w) ==
    /\ pc[w] = "commit"
    /\ side' = Completed
    /\ Goto(w, "published")
    /\ UNCHANGED <<NoFile, dur, lock, Nobody, faults, power>>

Close(w) ==
    /\ pc[w] \in {"ready", "poisoned"}
    /\ lock' = None /\ Goto(w, "off")
    /\ UNCHANGED <<NoFile, NoSide, Nobody, faults, power>>

-----------------------------------------------------------------------------
(* Failures and readers *)

\* An I/O error poisons the handle: nothing but closing it is left.
IoError(w) ==
    /\ pc[w] \in {"published", "write", "commit"} /\ faults < MaxFaults
    /\ faults' = faults + 1
    /\ Goto(w, "poisoned")
    /\ UNCHANGED <<NoFile, NoSide, lock, Nobody, power>>

Crash(w) ==
    /\ pc[w] # "off" /\ faults < MaxFaults
    /\ faults' = faults + 1
    /\ lock' = IF lock = w THEN None ELSE lock
    /\ Goto(w, "off")
    /\ UNCHANGED <<NoFile, NoSide, Nobody, power>>

\* Bytes that were not synced may be lost, and so may an unsynced publication.
PowerLoss ==
    /\ power < MaxPower /\ power' = power + 1
    /\ \E n \in synced..Len(file) : file' = SubSeq(file, 1, n) /\ synced' = n
    /\ \E s \in {side, dur} : side' = s /\ dur' = s
    /\ lock' = None /\ pc' = [w \in Writers |-> "off"]
    /\ UNCHANGED <<made, Nobody, faults>>

\* A reader takes the committed length and then reads exactly that prefix.
TakeSnapshot ==
    /\ snap' = Committed.len
    /\ UNCHANGED <<NoFile, NoSide, lock, pc, shown, faults, power>>

Show ==
    /\ Len(shown) < snap /\ snap <= Len(file)
    /\ shown' = SubSeq(file, 1, snap)
    /\ UNCHANGED <<NoFile, NoSide, lock, pc, snap, faults, power>>

Write(w) ==
    \/ FindLog(w) \/ CreateLog(w) \/ Flock(w) \/ InitCheckpoint(w) \/ Recover(w)
    \/ PublishIntent(w) \/ SyncDirectory(w) \/ WriteByte(w) \/ SyncLog(w)
    \/ PublishCommit(w) \/ Close(w)

LogNext ==
    \/ \E w \in Writers : Write(w) \/ IoError(w) \/ Crash(w)
    \/ PowerLoss \/ TakeSnapshot \/ Show

LogSpec == LogInit /\ [][LogNext]_lvars

\* Reconcile opens a journal with an unfinished turn again and again.
LogFairness == \A w \in Writers :
    /\ WF_lvars(FindLog(w) \/ CreateLog(w) \/ InitCheckpoint(w) \/ Recover(w))
    /\ SF_lvars(Flock(w) /\ lock = None)
    /\ WF_lvars(SyncDirectory(w) \/ WriteByte(w) \/ SyncLog(w) \/ PublishCommit(w))
    /\ WF_lvars(Close(w))

LogFair == LogSpec /\ LogFairness

-----------------------------------------------------------------------------
(* Properties *)

\* The log, its two checkpoints and the writers have their types, and nothing is
\* durable that was not written.
LogTypeOK ==
    /\ made \in BOOLEAN /\ synced \in 0..Len(file)
    /\ file \in Seq(Unit) /\ shown \in Seq(Unit)
    /\ {side, dur} \subseteq Journals \cup {None}
    /\ lock \in Writers \cup {None}
    /\ pc \in [Writers -> Pcs]
    /\ snap \in Nat /\ faults \in 0..MaxFaults /\ power \in 0..MaxPower

\* No interruption leaves a journal that the next open refuses with
\* LOG_CHECKPOINT_INVALID or LOG_CHECKPOINT_MISSING: the turn could then never
\* be drained nor retired.
NeverCorrupt ==
    /\ \A w \in Writers : pc[w] # "corrupt"
    /\ lock = None /\ side # None => Resumable

\* What `task logs` has printed stays in the log, byte for byte, whatever fails
\* afterwards: committed bytes were synced before they were committed.
ShownIsKept == Len(shown) <= Len(file) /\ \A i \in 1..Len(shown) : shown[i] = file[i]

\* An append takes effect when its intent is durable and its bytes are synced,
\* and at the latest when its commit is published.
Effective == IF Pending # None /\ dur = side /\ synced >= End THEN Pending.next ELSE Committed
Abstract  == INSTANCE TurnJournal WITH bytes  <- SubSeq(file, 1, Effective.len),
                                       commit <- Effective
\* Each append happens at once, bytes and checkpoint together: neither a dying
\* writer nor a power loss shows half of one or takes one back.
AppendsAreAtomic == Abstract!Spec

\* An interrupted append is completed or the journal stays closed for ever.
PendingCompletes == (Pending # None) ~> (Pending = None)
=============================================================================
