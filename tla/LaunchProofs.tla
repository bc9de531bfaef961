---------------------------- MODULE LaunchProofs ----------------------------
(***************************************************************************)
(* Proofs about what stands between a queued turn and its launch.          *)
(*   - DrainGate: DrainFence and PauseFence for any number of launchers    *)
(*     and operators and any number of crashes and losses, once a          *)
(*     controller store exists.                                            *)
(*   - QueueDispatch: RunCapKept and OlderFirst for any number of runners, *)
(*     tasks, workers and deaths.                                          *)
(***************************************************************************)
EXTENDS DrainGate, QueueDispatch, FiniteSetTheorems, TLAPS

-----------------------------------------------------------------------------
(* Drain valve: the inductive invariant. *)

(* flock: one writer, and no permit beside it. *)
Excluded ==
    \A o \in Operators : Exclusive(o) =>
        /\ \A l \in Callers : ~Shared(l)
        /\ \A p \in Operators : Exclusive(p) => p = o

(* Every permit is a lock: the lock file is there and stays. *)
Locked ==
    /\ lockFile = "marked"
    /\ \A l \in Callers : launcher[l].at \notin {"missing", "bare"}

(* What a writer that has written its flag may count on until it answers. *)
Written ==
    \A o \in Operators : operator[o].at \in {"flagged", "marked"} =>
        /\ operator[o].op = "on" => flag # "off"
        /\ operator[o].op = "off" => ~drained /\ ~paused
        /\ operator[o].op # "disable"
        /\ operator[o].at = "marked" => operator[o].op # "open"

(* The files still say what was acknowledged. *)
Kept ==
    /\ drained => /\ flag # "off"
                  /\ \A l \in Callers : ~Shared(l)
    /\ paused => /\ gate \in {"open", "bad"}
                 /\ \A l \in Callers : Shared(l) => launcher[l].kind = "turn"

GateInv == GateTypeOK /\ Excluded /\ Locked /\ Written /\ Kept

-----------------------------------------------------------------------------
\* Every step keeps the types.
LEMMA TypeStep == GateTypeOK /\ [GateNext]_gateVars => GateTypeOK'
<1> SUFFICES ASSUME GateTypeOK, [GateNext]_gateVars PROVE GateTypeOK'
  OBVIOUS
<1> USE GateConstants DEF GateTypeOK, NoPermit, Resting, Kinds, Ops, files, ghosts, budgets
<1>1. CASE UNCHANGED gateVars
  BY <1>1 DEF gateVars
<1>2. ASSUME NEW l \in Callers, NEW kind \in Kinds, Look(l, kind) PROVE GateTypeOK'
  BY <1>2 DEF Look
<1>3. ASSUME NEW l \in Callers, LookFlag(l) PROVE GateTypeOK'
  BY <1>3 DEF LookFlag
<1>4. ASSUME NEW l \in Callers, LockShared(l) PROVE GateTypeOK'
  BY <1>4 DEF LockShared
<1>5. ASSUME NEW l \in Callers, TimeOut(l) PROVE GateTypeOK'
  BY <1>5 DEF TimeOut
<1>6. ASSUME NEW l \in Callers, Handoff(l) PROVE GateTypeOK'
  BY <1>6 DEF Handoff
<1>7. ASSUME NEW o \in Operators, NEW op \in Ops, OpenLock(o, op) PROVE GateTypeOK'
  BY <1>7 DEF OpenLock
<1>8. ASSUME NEW o \in Operators, LockExclusive(o) PROVE GateTypeOK'
  BY <1>8 DEF LockExclusive
<1>9. ASSUME NEW o \in Operators, WriteFlag(o) PROVE GateTypeOK'
  BY <1>9 DEF WriteFlag
<1>10. ASSUME NEW o \in Operators, OpenStore(o) PROVE GateTypeOK'
  BY <1>10 DEF OpenStore
<1>11. ASSUME NEW o \in Operators, Mark(o) PROVE GateTypeOK'
  BY <1>11 DEF Mark
<1>12. ASSUME NEW o \in Operators, NEW ok \in BOOLEAN, Answer(o, ok) PROVE GateTypeOK'
  BY <1>12 DEF Answer, UpdateIntegrationGate
<1>13. ASSUME NEW o \in Operators, Die(o) PROVE GateTypeOK'
  BY <1>13 DEF Die
<1>14. CASE LoseFlag
  BY <1>14 DEF LoseFlag
<1>15. CASE DamageGate
  BY <1>15 DEF DamageGate
<1>16. QED
  BY <1>1, <1>2, <1>3, <1>4, <1>5, <1>6, <1>7, <1>8, <1>9, <1>10, <1>11, <1>12,
     <1>13, <1>14, <1>15 DEF GateNext, Launching, Writing

\* A launcher that only moves between places without a permit, while nothing
\* else changes, disturbs no part of the invariant.
LEMMA QuietLauncher ==
    ASSUME GateInv, GateTypeOK', NEW l \in Callers,
           ~Shared(l)', launcher'[l].at \notin {"missing", "bare"},
           \A k \in Callers \ {l} : launcher'[k] = launcher[k],
           UNCHANGED <<files, operator, ghosts>>
    PROVE  GateInv'
<1> USE DEF GateInv, GateTypeOK, files, ghosts
<1>1. \A k \in Callers : Shared(k)' => Shared(k) /\ launcher'[k] = launcher[k]
  BY DEF Shared
<1>2. Excluded'
  BY <1>1 DEF Excluded, Exclusive
<1>3. Locked'
  BY DEF Locked
<1>4. Written'
  BY DEF Written
<1>5. Kept'
  BY <1>1 DEF Kept
<1>6. QED
  BY <1>2, <1>3, <1>4, <1>5

\* An operator that lets go of the lock, or never had it, while the files stay.
LEMMA QuietOperator ==
    ASSUME GateInv, GateTypeOK', NEW o \in Operators,
           operator'[o].at \in {"idle", "asking"},
           \A p \in Operators \ {o} : operator'[p] = operator[p],
           UNCHANGED <<files, launcher, ghosts>>
    PROVE  GateInv'
<1> USE DEF GateInv, GateTypeOK, files, ghosts
<1>1. \A p \in Operators : Exclusive(p)' => Exclusive(p) /\ p # o
  BY DEF Exclusive
<1>2. Excluded'
  BY <1>1 DEF Excluded, Shared
<1>3. Locked'
  BY DEF Locked
<1>4. Written'
  BY DEF Written
<1>5. Kept'
  BY DEF Kept, Shared
<1>6. QED
  BY <1>2, <1>3, <1>4, <1>5

\* Every step of a launcher keeps the invariant; only LockShared gives a permit,
\* and it does so without a writer and after reading the files.
LEMMA LauncherStep ==
    ASSUME GateInv, GateTypeOK', NEW l \in Callers, Launching(l)
    PROVE  GateInv'
<1> USE DEF GateInv, GateTypeOK, files, ghosts, budgets, NoPermit
<1>1. ASSUME NEW kind \in Kinds, Look(l, kind) PROVE GateInv'
  <2>1. launcher'[l].at = "asking" /\ UNCHANGED <<files, operator, ghosts>>
    BY <1>1 DEF Look, Locked
  <2>2. \A k \in Callers \ {l} : launcher'[k] = launcher[k]
    BY <1>1 DEF Look
  <2>3. QED
    BY <2>1, <2>2, QuietLauncher DEF Shared
<1>2. CASE LookFlag(l)
  BY <1>2 DEF LookFlag, Locked
<1>3. CASE LockShared(l)
  <2>1. UNCHANGED <<files, operator, ghosts>> /\ NoWriter
    BY <1>3 DEF LockShared
  <2>2. \A k \in Callers \ {l} : launcher'[k] = launcher[k]
    BY <1>3 DEF LockShared
  <2>3. CASE ~Lets(launcher[l].kind)
    <3>1. launcher'[l].at = "idle"
      BY <1>3, <2>3 DEF LockShared
    <3>2. QED
      BY <2>1, <2>2, <3>1, QuietLauncher DEF Shared
  <2>4. CASE Lets(launcher[l].kind)
    <3>1. launcher'[l].at = "permit" /\ launcher'[l].kind = launcher[l].kind
      BY <1>3, <2>4 DEF LockShared
    <3>2. flag = "off"
      BY <2>4 DEF Lets, ReadDrainFlag, Locked
    <3>3. ~drained
      BY <3>2 DEF Kept
    <3>4. paused => launcher[l].kind = "turn"
      BY <2>4 DEF Lets, Kept, Kinds
    <3>5. Excluded'
      BY <2>1 DEF Excluded, Exclusive, NoWriter
    <3>6. Locked'
      BY <2>1, <2>2, <3>1 DEF Locked
    <3>7. Written'
      BY <2>1 DEF Written
    <3>8. Kept'
      BY <2>1, <2>2, <3>1, <3>3, <3>4 DEF Kept, Shared
    <3>9. QED
      BY <3>5, <3>6, <3>7, <3>8
  <2>5. QED
    BY <2>3, <2>4
<1>4. CASE TimeOut(l)
  <2>1. /\ launcher'[l].at = "idle"
        /\ UNCHANGED <<files, operator, ghosts>>
        /\ \A k \in Callers \ {l} : launcher'[k] = launcher[k]
    BY <1>4 DEF TimeOut
  <2>2. QED
    BY <2>1, QuietLauncher DEF Shared
<1>5. CASE Handoff(l)
  <2>1. /\ launcher'[l].at = "idle"
        /\ UNCHANGED <<files, operator, ghosts>>
        /\ \A k \in Callers \ {l} : launcher'[k] = launcher[k]
    BY <1>5 DEF Handoff
  <2>2. QED
    BY <2>1, QuietLauncher DEF Shared
<1>6. QED
  BY <1>1, <1>2, <1>3, <1>4, <1>5 DEF Launching

\* Every step of a writer keeps the invariant: what it may rely on while it
\* holds the lock is what it acknowledges when it lets go.
LEMMA OperatorStep ==
    ASSUME GateInv, GateTypeOK', NEW o \in Operators, Writing(o)
    PROVE  GateInv'
<1> USE DEF GateInv, GateTypeOK, files, ghosts, budgets, Resting
<1>1. CASE LockExclusive(o)
  <2>1. /\ operator'[o].at = "locked"
        /\ \A p \in Operators \ {o} : operator'[p] = operator[p] /\ ~Exclusive(p)
        /\ \A l \in Callers : ~Shared(l)
        /\ UNCHANGED <<files, launcher, ghosts>>
    BY <1>1 DEF LockExclusive, NoWriter, NoReader
  <2>2. Excluded'
    BY <2>1 DEF Excluded, Exclusive, Shared
  <2>3. Locked' /\ Kept'
    BY <2>1 DEF Locked, Kept, Shared
  <2>4. Written'
    BY <2>1 DEF Written
  <2>5. QED
    BY <2>2, <2>3, <2>4
<1>2. CASE WriteFlag(o)
  <2>1. /\ operator'[o].at = "flagged" /\ operator'[o].op = operator[o].op
        /\ operator[o].op \in {"on", "off"} /\ flag' = operator[o].op
        /\ \A p \in Operators \ {o} : operator'[p] = operator[p]
        /\ UNCHANGED <<lockFile, gate, launcher>>
    BY <1>2 DEF WriteFlag
  <2>2. \/ operator[o].op = "off" /\ ~drained' /\ ~paused'
        \/ operator[o].op = "on" /\ drained' = drained /\ paused' = paused
    BY <1>2 DEF WriteFlag
  <2>3. /\ \A l \in Callers : ~Shared(l)
        /\ \A p \in Operators \ {o} : ~Exclusive(p)
    BY <1>2 DEF WriteFlag, Excluded, Exclusive
  <2>4. Excluded'
    BY <2>1, <2>3 DEF Excluded, Exclusive, Shared
  <2>5. Locked'
    BY <2>1 DEF Locked
  <2>6. Written'
    BY <2>1, <2>2, <2>3 DEF Written, Exclusive
  <2>7. Kept'
    BY <2>1, <2>2, <2>3 DEF Kept, Shared
  <2>8. QED
    BY <2>4, <2>5, <2>6, <2>7
<1>3. CASE OpenStore(o)
  <2>1. CASE flag = "none"
    <3>1. /\ operator'[o].at = "idle"
          /\ UNCHANGED <<files, launcher, ghosts>>
          /\ \A p \in Operators \ {o} : operator'[p] = operator[p]
      BY <1>3, <2>1 DEF OpenStore, Locked
    <3>2. QED
      BY <3>1, QuietOperator
  <2>2. CASE flag # "none"
    <3>1. /\ operator'[o].at = "flagged" /\ operator'[o].op = "open"
          /\ \A p \in Operators \ {o} : operator'[p] = operator[p]
          /\ UNCHANGED <<files, launcher, ghosts>>
      BY <1>3, <2>2 DEF OpenStore
    <3>2. Exclusive(o)
      BY <1>3 DEF OpenStore, Exclusive
    <3>3. Excluded'
      BY <3>1, <3>2 DEF Excluded, Exclusive, Shared
    <3>4. Locked' /\ Kept'
      BY <3>1 DEF Locked, Kept, Shared
    <3>5. Written'
      BY <3>1 DEF Written
    <3>6. QED
      BY <3>3, <3>4, <3>5
  <2>3. QED
    BY <2>1, <2>2
<1>4. CASE Mark(o)
  <2>1. /\ \/ operator'[o].at = "idle"
           \/ /\ operator'[o].at = "marked" /\ operator'[o].op = operator[o].op
              /\ operator[o].op # "open"
        /\ operator[o].at = "flagged"
        /\ \A p \in Operators \ {o} : operator'[p] = operator[p]
        /\ lockFile' = "marked"
        /\ UNCHANGED <<flag, gate, launcher, ghosts>>
    BY <1>4 DEF Mark
  <2>2. Exclusive(o)
    BY <2>1 DEF Exclusive
  <2>3. Excluded'
    BY <2>1, <2>2 DEF Excluded, Exclusive, Shared
  <2>4. Locked' /\ Kept'
    BY <2>1 DEF Locked, Kept, Shared
  <2>5. Written'
    BY <2>1 DEF Written, Ops
  <2>6. QED
    BY <2>3, <2>4, <2>5
<1>5. ASSUME NEW ok \in BOOLEAN, Answer(o, ok) PROVE GateInv'
  <2>1. /\ operator'[o].at = "idle"
        /\ \A p \in Operators \ {o} : operator'[p] = operator[p]
        /\ UNCHANGED <<lockFile, flag, launcher>>
        /\ operator[o].at = IF operator[o].op = "disable" THEN "locked" ELSE "marked"
        /\ drained' = (drained \/ operator[o].op = "on")
        /\ paused' = (paused \/ (ok /\ operator[o].op \in {"on", "disable"}))
        /\ gate' = gate \/ gate' = UpdateIntegrationGate(operator[o].op)
        /\ ok => gate' = UpdateIntegrationGate(operator[o].op)
    BY <1>5 DEF Answer
  <2>2. /\ \A l \in Callers : ~Shared(l)
        /\ \A p \in Operators \ {o} : ~Exclusive(p)
    BY <2>1 DEF Excluded, Exclusive
  <2>3. Excluded'
    BY <2>1, <2>2 DEF Excluded, Exclusive, Shared
  <2>4. Locked'
    BY <2>1 DEF Locked
  <2>5. Written'
    BY <2>1, <2>2 DEF Written, Exclusive
  <2>6. operator[o].op \in {"on", "off", "disable"}
    BY <2>1 DEF Written, Ops
  <2>7. drained' => flag' # "off" /\ \A l \in Callers : ~Shared(l)'
    BY <2>1, <2>2 DEF Written, Kept, Shared
  <2>8. paused' => gate' \in {"open", "bad"}
    BY <2>1, <2>6 DEF Written, Kept, UpdateIntegrationGate
  <2>9. Kept'
    BY <2>1, <2>2, <2>7, <2>8 DEF Kept, Shared
  <2>10. QED
    BY <2>3, <2>4, <2>5, <2>9
<1>6. QED
  BY <1>1, <1>2, <1>3, <1>4, <1>5 DEF Writing

\* The invariant is inductive.
LEMMA GateInvStep == GateInv /\ [GateNext]_gateVars => GateInv'
<1> SUFFICES ASSUME GateInv, [GateNext]_gateVars PROVE GateInv'
  OBVIOUS
<1>1. GateTypeOK'
  BY TypeStep DEF GateInv
<1> USE <1>1 DEF GateInv, GateTypeOK, files, ghosts, budgets, Resting
<1>2. CASE UNCHANGED gateVars
  BY <1>2 DEF gateVars, Excluded, Exclusive, Shared, Locked, Written, Kept
<1>3. ASSUME NEW l \in Callers, Launching(l) PROVE GateInv'
  BY <1>3, LauncherStep
<1>4. ASSUME NEW o \in Operators, NEW op \in Ops, OpenLock(o, op) PROVE GateInv'
  <2>1. /\ operator'[o].at = "asking"
        /\ \A p \in Operators \ {o} : operator'[p] = operator[p]
        /\ UNCHANGED <<files, launcher, ghosts>>
    BY <1>4 DEF OpenLock, Locked
  <2>2. QED
    BY <2>1, QuietOperator
<1>5. ASSUME NEW o \in Operators, Writing(o) PROVE GateInv'
  BY <1>5, OperatorStep
<1>6. ASSUME NEW o \in Operators, Die(o) PROVE GateInv'
  <2>1. /\ operator'[o].at = "idle"
        /\ \A p \in Operators \ {o} : operator'[p] = operator[p]
        /\ UNCHANGED <<files, launcher, ghosts>>
    BY <1>6 DEF Die
  <2>2. QED
    BY <2>1, QuietOperator
<1>7. CASE LoseFlag
  BY <1>7 DEF LoseFlag, Excluded, Exclusive, Shared, Locked, Written, Kept
<1>8. CASE DamageGate
  BY <1>8 DEF DamageGate, Excluded, Exclusive, Shared, Locked, Written, Kept
<1>9. QED
  BY <1>2, <1>3, <1>4, <1>5, <1>6, <1>7, <1>8 DEF GateNext

\* The invariant holds at first if a store exists.
LEMMA GateInvInit == ~fresh /\ GateInit => GateInv
<1> SUFFICES ASSUME ~fresh, GateInit PROVE GateInv
  OBVIOUS
<1> USE DEF GateInit, NoPermit, Resting
<1>1. GateTypeOK
  <2>1. lockFile = "marked" /\ flag = "off"
    BY Zenon
  <2>2. drained \in BOOLEAN /\ paused \in BOOLEAN
    BY Zenon
  <2>3. crashes \in 0 .. MaxCrashes /\ losses \in 0 .. MaxLosses
    BY GateConstants
  <2>4. launcher \in [Callers -> [at : {"idle"}, kind : {"turn"}]]
    OBVIOUS
  <2>5. operator \in [Operators -> [at : {"idle"}, op : {"on"}]]
    OBVIOUS
  <2>6. gate = "none"
    OBVIOUS
  <2>7. fresh \in BOOLEAN
    BY Zenon
  <2> HIDE DEF GateInit
  <2>8. QED
    BY <2>1, <2>2, <2>3, <2>4, <2>5, <2>6, <2>7 DEF GateTypeOK, Kinds, Ops
<1>2. Excluded /\ Locked
  BY DEF Excluded, Exclusive, Locked
<1>3. Written /\ Kept
  BY DEF Written, Kept
<1>4. QED
  BY <1>1, <1>2, <1>3 DEF GateInv

\* Whether the store existed at first does not change.
LEMMA FreshKept == [GateNext]_gateVars => fresh' = fresh
<1> USE DEF files
<1>1. ASSUME NEW l \in Callers, Launching(l) PROVE fresh' = fresh
  BY <1>1 DEF Launching, Look, LookFlag, LockShared, TimeOut, Handoff
<1>2. ASSUME NEW o \in Operators, Writing(o) PROVE fresh' = fresh
  BY <1>2 DEF Writing, LockExclusive, WriteFlag, OpenStore, Mark, Answer
<1>3. QED
  BY <1>1, <1>2 DEF GateNext, gateVars, OpenLock, Die, LoseFlag, DamageGate

\* In a behaviour that began with a store the invariant always holds.
LEMMA GateInvHolds == GateSpec => [](fresh \/ GateInv)
<1>1. GateInit => fresh \/ GateInv
  BY GateInvInit
<1>2. (fresh \/ GateInv) /\ [GateNext]_gateVars => (fresh \/ GateInv)'
  BY GateInvStep, FreshKept
<1>3. QED
  BY <1>1, <1>2, PTL DEF GateSpec

\* Once a controller store exists, an acknowledged drain fences every handoff
\* and every integration phase until an operator lifts it (launch_permit,
\* integration_admission, set_gate_at, initialize), for any number of
\* launchers, operators, crashes and losses of drain.json.
THEOREM DrainFences == GateSpec => []DrainFence
<1>1. fresh \/ GateInv => DrainFence
  BY DEF GateInv, Locked, Kept, DrainFence, Admitted, Shared, GateTypeOK
<1>2. QED
  BY <1>1, GateInvHolds, PTL

\* Likewise an acknowledged pause keeps every integration phase out until
\* `drain --off`, damage to the pause history included.
THEOREM PauseFences == GateSpec => []PauseFence
<1>1. fresh \/ GateInv => PauseFence
  BY DEF GateInv, Locked, Kept, PauseFence, Admitted, Shared, GateTypeOK, Kinds
<1>2. QED
  BY <1>1, GateInvHolds, PTL

-----------------------------------------------------------------------------
(* Queue and dispatch: the inductive invariant. *)

DispatchTypes ==
    /\ rows \in [Tasks -> QueueRow]
    /\ status \in [Tasks -> {"new", "queued", "active", "open", "closed"}]
    /\ home \in [Tasks -> Workers \cup {None}] /\ host \in [Tasks -> Workers \cup {None}]
    /\ over \subseteq Tasks
    /\ step \in [Slots -> Pcs] /\ serves \in [Slots -> Tasks \cup {None}]
    /\ idle \in [Slots -> SUBSET Workers] /\ donor \in [Slots -> Tasks \cup {None}]

(* A runner that serves a turn owns its row, and where it stands says what the
   row is and whether the host has the turn. *)
Serving(s) ==
    LET t == serves[s] IN
    /\ step[s] \in {"off", "next"} => t = None
    /\ step[s] \notin {"off", "next"} => t \in Tasks /\ rows[t].owner = s
    /\ step[s] \in {"wait", "look", "yield"} => Waiting(t)
    /\ step[s] \in {"taken", "run", "live", "end"} => Dispatched(t)
    /\ step[s] \in {"look", "yield", "taken", "run"} => ~Accepted(t)
    /\ step[s] = "taken" => donor[s] \in Tasks
    /\ step[s] = "end" => t \in over

(* The row of a turn, its task and its host agree. *)
Tied(t) ==
    /\ rows[t].owner # None => serves[rows[t].owner] = t
    /\ rows[t].st \in {"none", "parked"} => rows[t].owner = None
    /\ host[t] # None => status[t] = "active" /\ t \notin over
    /\ Accepted(t) => rows[t].st # "none"
    /\ rows[t].st # "none" /\ t \notin over => status[t] \in {"queued", "active"}
    /\ status[t] = "new" => rows[t].st = "none"

DispatchInv ==
    /\ DispatchTypes
    /\ \A s \in Slots : Serving(s)
    /\ \A t \in Tasks : Tied(t)
-----------------------------------------------------------------------------
(* A turn and a runner that a step leaves alone. *)
SameTurn(x) ==
    /\ rows'[x] = rows[x] /\ status'[x] = status[x] /\ host'[x] = host[x]
    /\ x \in over' <=> x \in over
SameRunner(q) == step'[q] = step[q] /\ serves'[q] = serves[q] /\ donor'[q] = donor[q]

LEMMA RunnerFrame ==
    ASSUME DispatchInv, NEW q \in Slots, SameRunner(q),
           serves[q] \in Tasks => SameTurn(serves[q])
    PROVE  Serving(q)'
<1>1. Serving(q) /\ step \in [Slots -> Pcs]
  BY DEF DispatchInv, DispatchTypes
<1>2. CASE serves[q] \in Tasks
  BY <1>1, <1>2 DEF Serving, SameRunner, SameTurn, Waiting, Dispatched, Accepted
<1>3. CASE serves[q] \notin Tasks
  BY <1>1, <1>3 DEF Serving, SameRunner, Pcs
<1>4. QED BY <1>2, <1>3

LEMMA TurnFrame ==
    ASSUME DispatchInv, NEW x \in Tasks, SameTurn(x),
           rows[x].owner # None => serves'[rows[x].owner] = serves[rows[x].owner]
    PROVE  Tied(x)'
BY DEF DispatchInv, Tied, SameTurn, Accepted

(* A step of runner s that touches the turns T, of which nobody else has one. *)
LEMMA RunnerStep ==
    ASSUME DispatchInv, DispatchTypes', NEW s \in Slots, NEW T \in SUBSET Tasks,
           \A q \in Slots \ {s} : SameRunner(q),
           \A x \in Tasks \ T : SameTurn(x),
           serves[s] \in T \cup {None},
           \A t \in T : rows[t].owner \in {None, s},
           Serving(s)', \A t \in T : Tied(t)'
    PROVE  DispatchInv'
<1>1. ASSUME NEW q \in Slots \ {s} PROVE Serving(q)'
  <2>1. Serving(q) /\ step[q] \in Pcs
    BY DEF DispatchInv, DispatchTypes
  <2>2. serves[q] \in Tasks => rows[serves[q]].owner = q
    BY <2>1, DispatchAssumption DEF Serving, DispatchInv
  <2>3. serves[q] \in Tasks => serves[q] \notin T
    BY <2>2, DispatchAssumption
  <2>4. QED BY <2>3, RunnerFrame
<1>2. ASSUME NEW x \in Tasks \ T PROVE Tied(x)'
  <2>1. Tied(x) /\ rows[x].owner \in Slots \cup {None}
    BY DEF DispatchInv, DispatchTypes, QueueRow
  <2>2. rows[x].owner # s
    BY <2>1, DispatchAssumption DEF Tied
  <2>3. QED BY <2>1, <2>2, TurnFrame DEF SameRunner
<1>3. QED BY <1>1, <1>2 DEF DispatchInv

LEMMA RunnerTurnStep ==
    ASSUME DispatchInv, DispatchTypes', NEW s \in Slots, NEW t \in Tasks,
           \A q \in Slots \ {s} : SameRunner(q),
           \A x \in Tasks \ {t} : SameTurn(x),
           serves[s] \in {t, None},
           rows[t].owner \in {None, s},
           Serving(s)', Tied(t)'
    PROVE  DispatchInv'
<1>1. /\ {t} \in SUBSET Tasks /\ serves[s] \in {t} \cup {None}
      /\ \A u \in {t} : rows[u].owner \in {None, s}
      /\ \A u \in {t} : Tied(u)'
  OBVIOUS
<1>2. QED BY <1>1, RunnerStep

(* A step of no runner that touches the turn t. *)
LEMMA TurnStep ==
    ASSUME DispatchInv, DispatchTypes', NEW t \in Tasks,
           UNCHANGED <<step, serves, donor>>,
           \A x \in Tasks \ {t} : SameTurn(x),
           \A q \in Slots : serves[q] = t => Serving(q)',
           Tied(t)'
    PROVE  DispatchInv'
<1>1. ASSUME NEW q \in Slots PROVE Serving(q)'
  BY RunnerFrame DEF SameRunner
<1>2. ASSUME NEW x \in Tasks \ {t} PROVE Tied(x)'
  BY TurnFrame
<1>3. QED BY <1>1, <1>2 DEF DispatchInv

-----------------------------------------------------------------------------
(* Every action keeps the invariant. *)
LEMMA QueueStarts == QueueInit => DispatchInv
<1> SUFFICES ASSUME QueueInit PROVE DispatchInv
  OBVIOUS
<1>1. DispatchTypes
  BY DispatchAssumption DEF QueueInit, DispatchTypes, QueueRow, Rest, Pcs
<1>2. \A s \in Slots : Serving(s)
  BY DEF QueueInit, Serving
<1>3. \A t \in Tasks : Tied(t)
  BY DEF QueueInit, Tied, Accepted, Rest
<1>4. QED BY <1>1, <1>2, <1>3 DEF DispatchInv

LEMMA EnqueuedStep ==
    ASSUME DispatchInv, NEW t \in Tasks, NEW s \in Slots \cup {None}, Enqueued(t, s),
           rows[t].st = "none", UNCHANGED <<host, over>>, status' \in [Tasks -> {"new", "queued", "active", "open", "closed"}],
           home' = home, \A x \in Tasks \ {t} : status'[x] = status[x],
           status'[t] \in {"queued", "active"}, ~Accepted(t)
    PROVE  DispatchInv'
<1>1. rows[t].owner = None /\ Tied(t)
  BY DEF DispatchInv, Tied
<1>2. CASE s = None
  <2>1. DispatchTypes'
    <3>1. rows' = [rows EXCEPT ![t] = [Rest EXCEPT !.st = "parked"]] /\ UNCHANGED Runner
      BY <1>2 DEF Enqueued
    <3>2. [Rest EXCEPT !.st = "parked"] \in QueueRow
      BY DispatchAssumption DEF Rest, QueueRow
    <3>3. QED BY <3>1, <3>2 DEF DispatchInv, DispatchTypes, Runner
  <2>2. \A x \in Tasks \ {t} : SameTurn(x)
    BY <1>2 DEF DispatchInv, DispatchTypes, Enqueued, SameTurn
  <2>3. rows'[t] = [Rest EXCEPT !.st = "parked"]
    BY <1>2 DEF DispatchInv, DispatchTypes, Enqueued
  <2>4. Tied(t)'
    BY <1>1, <2>3 DEF Tied, Rest, Accepted
  <2>5. \A q \in Slots : serves[q] # t
    BY <1>1, DispatchAssumption DEF DispatchInv, DispatchTypes, Serving
  <2>6. UNCHANGED <<step, serves, donor>>
    BY <1>2 DEF Enqueued, Runner
  <2>7. QED BY <2>1, <2>2, <2>4, <2>5, <2>6, TurnStep
<1>3. CASE s # None
  <2>0. s \in Slots /\ step[s] = "off" /\ serves[s] = None
    BY <1>3 DEF Enqueued, DispatchInv, Serving
  <2>1. DispatchTypes'
    <3>1. /\ rows' = [rows EXCEPT ![t] = [Rest EXCEPT !.st = "waiting", !.owner = s]]
          /\ Serve(s, t, "wait") /\ UNCHANGED <<idle, donor>>
      BY <1>3 DEF Enqueued
    <3>2. [Rest EXCEPT !.st = "waiting", !.owner = s] \in QueueRow
      BY <2>0, DispatchAssumption DEF Rest, QueueRow
    <3>3. QED BY <2>0, <3>1, <3>2 DEF DispatchInv, DispatchTypes, Serve, StepTo, Pcs
  <2>2. \A x \in Tasks \ {t} : SameTurn(x)
    BY <1>3 DEF DispatchInv, DispatchTypes, Enqueued, SameTurn
  <2>3. rows'[t] = [Rest EXCEPT !.st = "waiting", !.owner = s]
    BY <1>3 DEF DispatchInv, DispatchTypes, Enqueued
  <2>4. step'[s] = "wait" /\ serves'[s] = t /\ \A q \in Slots \ {s} : SameRunner(q)
    BY <1>3, <2>0 DEF DispatchInv, DispatchTypes, Enqueued, Serve, StepTo, SameRunner
  <2>5. Tied(t)' /\ Serving(s)'
    BY <1>1, <2>3, <2>4 DEF Tied, Serving, Rest, Accepted, Waiting
  <2>6. QED BY <1>1, <2>0, <2>1, <2>2, <2>4, <2>5, RunnerTurnStep
<1>4. QED BY <1>2, <1>3
LEMMA Served ==
    ASSUME DispatchInv, NEW s \in Slots, step[s] \notin {"off", "next"}
    PROVE  \E t \in Tasks : t = serves[s] /\ rows[t].owner = s /\ Serving(s) /\ Tied(t)
BY DEF DispatchInv, Serving

LEMMA RowDispatched ==
    ASSUME rows \in [Tasks -> QueueRow], NEW t \in Tasks, NEW w \in Workers \cup {None},
           rows' = [rows EXCEPT ![t].st = "dispatching", ![t].worker = w]
    PROVE  rows' \in [Tasks -> QueueRow] /\ \A x \in Tasks \ {t} : rows'[x] = rows[x]
<1>1. rows[t] \in QueueRow
  OBVIOUS
<1>2. [rows[t] EXCEPT !.st = "dispatching"] \in QueueRow
  BY <1>1 DEF QueueRow
<1>3. [[rows[t] EXCEPT !.st = "dispatching"] EXCEPT !.worker = w] \in QueueRow
  BY <1>2 DEF QueueRow
<1>4. QED BY <1>3

LEMMA RowReplaced ==
    ASSUME rows \in [Tasks -> QueueRow], NEW t \in Tasks, NEW r \in QueueRow,
           rows' = [rows EXCEPT ![t] = r]
    PROVE  rows' \in [Tasks -> QueueRow] /\ \A x \in Tasks \ {t} : rows'[x] = rows[x]
OBVIOUS

LEMMA ResumeAcceptedStep ==
    ASSUME DispatchInv, NEW s \in Slots, ResumeAccepted(s)
    PROVE  DispatchInv'
<1>1. PICK t \in Tasks : t = serves[s] /\ rows[t].owner = s /\ Serving(s) /\ Tied(t)
  BY Served DEF ResumeAccepted
<1>2. DispatchTypes
  BY DEF DispatchInv
<1>3. rows' \in [Tasks -> QueueRow] /\ \A x \in Tasks \ {t} : rows'[x] = rows[x]
  <2>1. rows' = [rows EXCEPT ![t].st = "dispatching", ![t].worker = home[t]]
    BY <1>1 DEF ResumeAccepted
  <2>2. home[t] \in Workers \cup {None}
    BY <1>2 DEF DispatchTypes
  <2>3. QED BY <1>2, <2>1, <2>2, RowDispatched DEF DispatchTypes
<1>4. DispatchTypes'
  BY <1>1, <1>2, <1>3, DispatchAssumption
     DEF ResumeAccepted, DispatchTypes, Serve, StepTo, Leave, Pcs, Local, Stage, QueueRow
<1>5. \A q \in Slots \ {s} : SameRunner(q)
  BY <1>2 DEF ResumeAccepted, DispatchTypes, Serve, StepTo, Leave, SameRunner
<1>6. \A x \in Tasks \ {t} : SameTurn(x)
  BY <1>1, <1>2, <1>3 DEF ResumeAccepted, DispatchTypes, Local, SameTurn
<1>7. Serving(s)'
  BY <1>1, <1>2, DispatchAssumption
     DEF ResumeAccepted, DispatchTypes, Serve, StepTo, Leave, RowOut, Local, Serving, Waiting, Dispatched, Accepted, Stage, Tied
<1>8. Tied(t)'
  BY <1>1, <1>2, DispatchAssumption
     DEF ResumeAccepted, DispatchTypes, Serve, StepTo, Leave, RowOut, Rest, Local, Serving, Waiting, Dispatched, Accepted, Tied
<1>9. QED BY <1>1, <1>4, <1>5, <1>6, <1>7, <1>8, RunnerTurnStep

LEMMA CancelWaitingStep ==
    ASSUME DispatchInv, NEW s \in Slots, CancelWaiting(s)
    PROVE  DispatchInv'
<1>1. PICK t \in Tasks : t = serves[s] /\ rows[t].owner = s /\ Serving(s) /\ Tied(t)
  BY Served DEF CancelWaiting
<1>2. DispatchTypes
  BY DEF DispatchInv
<1>3. rows' \in [Tasks -> QueueRow] /\ \A x \in Tasks \ {t} : rows'[x] = rows[x]
  BY <1>1, <1>2, DispatchAssumption DEF CancelWaiting, DispatchTypes, RowOut, Rest, QueueRow
<1>4. DispatchTypes'
  BY <1>1, <1>2, <1>3, DispatchAssumption
     DEF CancelWaiting, DispatchTypes, Serve, StepTo, Leave, Pcs, Local, Stage, QueueRow
<1>5. \A q \in Slots \ {s} : SameRunner(q)
  BY <1>2 DEF CancelWaiting, DispatchTypes, Serve, StepTo, Leave, SameRunner
<1>6. \A x \in Tasks \ {t} : SameTurn(x)
  BY <1>1, <1>2, <1>3 DEF CancelWaiting, DispatchTypes, Local, SameTurn
<1>7. Serving(s)'
  BY <1>1, <1>2, DispatchAssumption
     DEF CancelWaiting, DispatchTypes, Serve, StepTo, Leave, RowOut, Local, Serving, Waiting, Dispatched, Accepted, Stage, Tied
<1>8. Tied(t)'
  BY <1>1, <1>2, DispatchAssumption
     DEF CancelWaiting, DispatchTypes, Serve, StepTo, Leave, RowOut, Rest, Local, Serving, Waiting, Dispatched, Accepted, Tied
<1>9. QED BY <1>1, <1>4, <1>5, <1>6, <1>7, <1>8, RunnerTurnStep

LEMMA ObserveStep ==
    ASSUME DispatchInv, NEW s \in Slots, Observe(s)
    PROVE  DispatchInv'
<1>1. PICK t \in Tasks : t = serves[s] /\ rows[t].owner = s /\ Serving(s) /\ Tied(t)
  BY Served DEF Observe
<1>2. DispatchTypes
  BY DEF DispatchInv
<1>3. rows' \in [Tasks -> QueueRow] /\ \A x \in Tasks \ {t} : rows'[x] = rows[x]
  BY <1>1, <1>2, DispatchAssumption DEF Observe, DispatchTypes, RowOut, Rest, QueueRow
<1>4. DispatchTypes'
  BY <1>1, <1>2, <1>3, DispatchAssumption
     DEF Observe, DispatchTypes, Serve, StepTo, Leave, Pcs, Local, Stage, QueueRow
<1>5. \A q \in Slots \ {s} : SameRunner(q)
  BY <1>2 DEF Observe, DispatchTypes, Serve, StepTo, Leave, SameRunner
<1>6. \A x \in Tasks \ {t} : SameTurn(x)
  BY <1>1, <1>2, <1>3 DEF Observe, DispatchTypes, Local, SameTurn
<1>7. Serving(s)'
  BY <1>1, <1>2, DispatchAssumption
     DEF Observe, DispatchTypes, Serve, StepTo, Leave, RowOut, Local, Serving, Waiting, Dispatched, Accepted, Stage, Tied
<1>8. Tied(t)'
  BY <1>1, <1>2, DispatchAssumption
     DEF Observe, DispatchTypes, Serve, StepTo, Leave, RowOut, Rest, Local, Serving, Waiting, Dispatched, Accepted, Tied
<1>9. QED BY <1>1, <1>4, <1>5, <1>6, <1>7, <1>8, RunnerTurnStep

LEMMA ClaimWorkerStep ==
    ASSUME DispatchInv, NEW s \in Slots, ClaimWorker(s)
    PROVE  DispatchInv'
<1>1. PICK t \in Tasks : t = serves[s] /\ rows[t].owner = s /\ Serving(s) /\ Tied(t)
  BY Served DEF ClaimWorker
<1>2. DispatchTypes
  BY DEF DispatchInv
<1>3. rows' \in [Tasks -> QueueRow] /\ \A x \in Tasks \ {t} : rows'[x] = rows[x]
  <2>1. PICK w \in Claimable(t, idle[s]) : rows' = [rows EXCEPT ![t].st = "dispatching", ![t].worker = w]
    BY <1>1 DEF ClaimWorker
  <2>2. w \in Workers \cup {None}
    BY <1>2 DEF DispatchTypes, Claimable
  <2>3. QED BY <1>2, <2>1, <2>2, RowDispatched DEF DispatchTypes
<1>4. DispatchTypes'
  BY <1>1, <1>2, <1>3, DispatchAssumption
     DEF ClaimWorker, DispatchTypes, Serve, StepTo, Leave, Pcs, Local, Stage, QueueRow
<1>5. \A q \in Slots \ {s} : SameRunner(q)
  BY <1>2 DEF ClaimWorker, DispatchTypes, Serve, StepTo, Leave, SameRunner
<1>6. \A x \in Tasks \ {t} : SameTurn(x)
  BY <1>1, <1>2, <1>3 DEF ClaimWorker, DispatchTypes, Local, SameTurn
<1>7. Serving(s)'
  BY <1>1, <1>2, DispatchAssumption
     DEF ClaimWorker, DispatchTypes, Serve, StepTo, Leave, RowOut, Local, Serving, Waiting, Dispatched, Accepted, Stage, Tied
<1>8. Tied(t)'
  BY <1>1, <1>2, DispatchAssumption
     DEF ClaimWorker, DispatchTypes, Serve, StepTo, Leave, RowOut, Rest, Local, Serving, Waiting, Dispatched, Accepted, Tied
<1>9. QED BY <1>1, <1>4, <1>5, <1>6, <1>7, <1>8, RunnerTurnStep

LEMMA ClaimFailsStep ==
    ASSUME DispatchInv, NEW s \in Slots, ClaimFails(s)
    PROVE  DispatchInv'
<1>1. PICK t \in Tasks : t = serves[s] /\ rows[t].owner = s /\ Serving(s) /\ Tied(t)
  BY Served DEF ClaimFails
<1>2. DispatchTypes
  BY DEF DispatchInv
<1>3. rows' \in [Tasks -> QueueRow] /\ \A x \in Tasks \ {t} : rows'[x] = rows[x]
  BY <1>1, <1>2, DispatchAssumption DEF ClaimFails, DispatchTypes, RowOut, Rest, QueueRow
<1>4. DispatchTypes'
  BY <1>1, <1>2, <1>3, DispatchAssumption
     DEF ClaimFails, DispatchTypes, Serve, StepTo, Leave, Pcs, Local, Stage, QueueRow
<1>5. \A q \in Slots \ {s} : SameRunner(q)
  BY <1>2 DEF ClaimFails, DispatchTypes, Serve, StepTo, Leave, SameRunner
<1>6. \A x \in Tasks \ {t} : SameTurn(x)
  BY <1>1, <1>2, <1>3 DEF ClaimFails, DispatchTypes, Local, SameTurn
<1>7. Serving(s)'
  BY <1>1, <1>2, DispatchAssumption
     DEF ClaimFails, DispatchTypes, Serve, StepTo, Leave, RowOut, Local, Serving, Waiting, Dispatched, Accepted, Stage, Tied
<1>8. Tied(t)'
  BY <1>1, <1>2, DispatchAssumption
     DEF ClaimFails, DispatchTypes, Serve, StepTo, Leave, RowOut, Rest, Local, Serving, Waiting, Dispatched, Accepted, Tied
<1>9. QED BY <1>1, <1>4, <1>5, <1>6, <1>7, <1>8, RunnerTurnStep

LEMMA KeepWaitingStep ==
    ASSUME DispatchInv, NEW s \in Slots, KeepWaiting(s)
    PROVE  DispatchInv'
<1>1. PICK t \in Tasks : t = serves[s] /\ rows[t].owner = s /\ Serving(s) /\ Tied(t)
  BY Served DEF KeepWaiting
<1>2. DispatchTypes
  BY DEF DispatchInv
<1>3. rows' \in [Tasks -> QueueRow] /\ \A x \in Tasks \ {t} : rows'[x] = rows[x]
  BY <1>1, <1>2, DispatchAssumption DEF KeepWaiting, DispatchTypes, RowOut, Rest, QueueRow
<1>4. DispatchTypes'
  BY <1>1, <1>2, <1>3, DispatchAssumption
     DEF KeepWaiting, DispatchTypes, Serve, StepTo, Leave, Pcs, Local, Stage, QueueRow
<1>5. \A q \in Slots \ {s} : SameRunner(q)
  BY <1>2 DEF KeepWaiting, DispatchTypes, Serve, StepTo, Leave, SameRunner
<1>6. \A x \in Tasks \ {t} : SameTurn(x)
  BY <1>1, <1>2, <1>3 DEF KeepWaiting, DispatchTypes, Local, SameTurn
<1>7. Serving(s)'
  BY <1>1, <1>2, DispatchAssumption
     DEF KeepWaiting, DispatchTypes, Serve, StepTo, Leave, RowOut, Local, Serving, Waiting, Dispatched, Accepted, Stage, Tied
<1>8. Tied(t)'
  BY <1>1, <1>2, DispatchAssumption
     DEF KeepWaiting, DispatchTypes, Serve, StepTo, Leave, RowOut, Rest, Local, Serving, Waiting, Dispatched, Accepted, Tied
<1>9. QED BY <1>1, <1>4, <1>5, <1>6, <1>7, <1>8, RunnerTurnStep

LEMMA LaunchPermitStep ==
    ASSUME DispatchInv, NEW s \in Slots, LaunchPermit(s)
    PROVE  DispatchInv'
<1>1. PICK t \in Tasks : t = serves[s] /\ rows[t].owner = s /\ Serving(s) /\ Tied(t)
  BY Served DEF LaunchPermit
<1>2. DispatchTypes
  BY DEF DispatchInv
<1>3. rows' \in [Tasks -> QueueRow] /\ \A x \in Tasks \ {t} : rows'[x] = rows[x]
  BY <1>1, <1>2, DispatchAssumption DEF LaunchPermit, DispatchTypes, RowOut, Rest, QueueRow
<1>4. DispatchTypes'
  BY <1>1, <1>2, <1>3, DispatchAssumption
     DEF LaunchPermit, DispatchTypes, Serve, StepTo, Leave, Pcs, Local, Stage, QueueRow
<1>5. \A q \in Slots \ {s} : SameRunner(q)
  BY <1>2 DEF LaunchPermit, DispatchTypes, Serve, StepTo, Leave, SameRunner
<1>6. \A x \in Tasks \ {t} : SameTurn(x)
  BY <1>1, <1>2, <1>3 DEF LaunchPermit, DispatchTypes, Local, SameTurn
<1>7. Serving(s)'
  BY <1>1, <1>2, DispatchAssumption
     DEF LaunchPermit, DispatchTypes, Serve, StepTo, Leave, RowOut, Local, Serving, Waiting, Dispatched, Accepted, Stage, Tied
<1>8. Tied(t)'
  BY <1>1, <1>2, DispatchAssumption
     DEF LaunchPermit, DispatchTypes, Serve, StepTo, Leave, RowOut, Rest, Local, Serving, Waiting, Dispatched, Accepted, Tied
<1>9. QED BY <1>1, <1>4, <1>5, <1>6, <1>7, <1>8, RunnerTurnStep

LEMMA CancelDispatchedStep ==
    ASSUME DispatchInv, NEW s \in Slots, CancelDispatched(s)
    PROVE  DispatchInv'
<1>1. PICK t \in Tasks : t = serves[s] /\ rows[t].owner = s /\ Serving(s) /\ Tied(t)
  BY Served DEF CancelDispatched
<1>2. DispatchTypes
  BY DEF DispatchInv
<1>3. rows' \in [Tasks -> QueueRow] /\ \A x \in Tasks \ {t} : rows'[x] = rows[x]
  BY <1>1, <1>2, DispatchAssumption DEF CancelDispatched, DispatchTypes, RowOut, Rest, QueueRow
<1>4. DispatchTypes'
  BY <1>1, <1>2, <1>3, DispatchAssumption
     DEF CancelDispatched, DispatchTypes, Serve, StepTo, Leave, Pcs, Local, Stage, QueueRow
<1>5. \A q \in Slots \ {s} : SameRunner(q)
  BY <1>2 DEF CancelDispatched, DispatchTypes, Serve, StepTo, Leave, SameRunner
<1>6. \A x \in Tasks \ {t} : SameTurn(x)
  BY <1>1, <1>2, <1>3 DEF CancelDispatched, DispatchTypes, Local, SameTurn
<1>7. Serving(s)'
  BY <1>1, <1>2, DispatchAssumption
     DEF CancelDispatched, DispatchTypes, Serve, StepTo, Leave, RowOut, Local, Serving, Waiting, Dispatched, Accepted, Stage, Tied
<1>8. Tied(t)'
  BY <1>1, <1>2, DispatchAssumption
     DEF CancelDispatched, DispatchTypes, Serve, StepTo, Leave, RowOut, Rest, Local, Serving, Waiting, Dispatched, Accepted, Tied
<1>9. QED BY <1>1, <1>4, <1>5, <1>6, <1>7, <1>8, RunnerTurnStep

LEMMA HostAcceptsStep ==
    ASSUME DispatchInv, NEW s \in Slots, HostAccepts(s)
    PROVE  DispatchInv'
<1>1. PICK t \in Tasks : t = serves[s] /\ rows[t].owner = s /\ Serving(s) /\ Tied(t)
  BY Served DEF HostAccepts
<1>2. DispatchTypes
  BY DEF DispatchInv
<1>3. rows' \in [Tasks -> QueueRow] /\ \A x \in Tasks \ {t} : rows'[x] = rows[x]
  BY <1>1, <1>2, DispatchAssumption DEF HostAccepts, DispatchTypes, RowOut, Rest, QueueRow
<1>4. DispatchTypes'
  BY <1>1, <1>2, <1>3, DispatchAssumption
     DEF HostAccepts, DispatchTypes, Serve, StepTo, Leave, Pcs, Local, Stage, QueueRow
<1>5. \A q \in Slots \ {s} : SameRunner(q)
  BY <1>2 DEF HostAccepts, DispatchTypes, Serve, StepTo, Leave, SameRunner
<1>6. \A x \in Tasks \ {t} : SameTurn(x)
  BY <1>1, <1>2, <1>3 DEF HostAccepts, DispatchTypes, Local, SameTurn
<1>7. Serving(s)'
  BY <1>1, <1>2, DispatchAssumption
     DEF HostAccepts, DispatchTypes, Serve, StepTo, Leave, RowOut, Local, Serving, Waiting, Dispatched, Accepted, Stage, Tied
<1>8. Tied(t)'
  BY <1>1, <1>2, DispatchAssumption
     DEF HostAccepts, DispatchTypes, Serve, StepTo, Leave, RowOut, Rest, Local, Serving, Waiting, Dispatched, Accepted, Tied
<1>9. QED BY <1>1, <1>4, <1>5, <1>6, <1>7, <1>8, RunnerTurnStep

LEMMA HostRefusesStep ==
    ASSUME DispatchInv, NEW s \in Slots, HostRefuses(s)
    PROVE  DispatchInv'
<1>1. PICK t \in Tasks : t = serves[s] /\ rows[t].owner = s /\ Serving(s) /\ Tied(t)
  BY Served DEF HostRefuses
<1>2. DispatchTypes
  BY DEF DispatchInv
<1>3. rows' \in [Tasks -> QueueRow] /\ \A x \in Tasks \ {t} : rows'[x] = rows[x]
  <2>1. [rows[t] EXCEPT !.st = "waiting", !.owner = None, !.worker = None] \in QueueRow
    BY <1>2 DEF DispatchTypes, QueueRow
  <2>2. QED BY <1>1, <1>2, <2>1, RowReplaced DEF HostRefuses, DispatchTypes
<1>4. DispatchTypes'
  BY <1>1, <1>2, <1>3, DispatchAssumption
     DEF HostRefuses, DispatchTypes, Serve, StepTo, Leave, Pcs, Local, Stage, QueueRow
<1>5. \A q \in Slots \ {s} : SameRunner(q)
  BY <1>2 DEF HostRefuses, DispatchTypes, Serve, StepTo, Leave, SameRunner
<1>6. \A x \in Tasks \ {t} : SameTurn(x)
  BY <1>1, <1>2, <1>3 DEF HostRefuses, DispatchTypes, Local, SameTurn
<1>7. Serving(s)'
  BY <1>1, <1>2, DispatchAssumption
     DEF HostRefuses, DispatchTypes, Serve, StepTo, Leave, RowOut, Local, Serving, Waiting, Dispatched, Accepted, Stage, Tied
<1>8. Tied(t)'
  BY <1>1, <1>2, DispatchAssumption
     DEF HostRefuses, DispatchTypes, Serve, StepTo, Leave, RowOut, Rest, Local, Serving, Waiting, Dispatched, Accepted, Tied
<1>9. QED BY <1>1, <1>4, <1>5, <1>6, <1>7, <1>8, RunnerTurnStep

LEMMA SaveStatusStep ==
    ASSUME DispatchInv, NEW s \in Slots, SaveStatus(s)
    PROVE  DispatchInv'
<1>1. PICK t \in Tasks : t = serves[s] /\ rows[t].owner = s /\ Serving(s) /\ Tied(t)
  BY Served DEF SaveStatus
<1>2. DispatchTypes
  BY DEF DispatchInv
<1>3. rows' \in [Tasks -> QueueRow] /\ \A x \in Tasks \ {t} : rows'[x] = rows[x]
  BY <1>1, <1>2, DispatchAssumption DEF SaveStatus, DispatchTypes, RowOut, Rest, QueueRow
<1>4. DispatchTypes'
  BY <1>1, <1>2, <1>3, DispatchAssumption
     DEF SaveStatus, DispatchTypes, Serve, StepTo, Leave, Pcs, Local, Stage, QueueRow
<1>5. \A q \in Slots \ {s} : SameRunner(q)
  BY <1>2 DEF SaveStatus, DispatchTypes, Serve, StepTo, Leave, SameRunner
<1>6. \A x \in Tasks \ {t} : SameTurn(x)
  BY <1>1, <1>2, <1>3 DEF SaveStatus, DispatchTypes, Local, SameTurn
<1>7. Serving(s)'
  BY <1>1, <1>2, DispatchAssumption
     DEF SaveStatus, DispatchTypes, Serve, StepTo, Leave, RowOut, Local, Serving, Waiting, Dispatched, Accepted, Stage, Tied
<1>8. Tied(t)'
  BY <1>1, <1>2, DispatchAssumption
     DEF SaveStatus, DispatchTypes, Serve, StepTo, Leave, RowOut, Rest, Local, Serving, Waiting, Dispatched, Accepted, Tied
<1>9. QED BY <1>1, <1>4, <1>5, <1>6, <1>7, <1>8, RunnerTurnStep

LEMMA RetireStep ==
    ASSUME DispatchInv, NEW s \in Slots, Retire(s)
    PROVE  DispatchInv'
<1>1. PICK t \in Tasks : t = serves[s] /\ rows[t].owner = s /\ Serving(s) /\ Tied(t)
  BY Served DEF Retire
<1>2. DispatchTypes
  BY DEF DispatchInv
<1>3. rows' \in [Tasks -> QueueRow] /\ \A x \in Tasks \ {t} : rows'[x] = rows[x]
  BY <1>1, <1>2, DispatchAssumption DEF Retire, DispatchTypes, RowOut, Rest, QueueRow
<1>4. DispatchTypes'
  BY <1>1, <1>2, <1>3, DispatchAssumption
     DEF Retire, DispatchTypes, Serve, StepTo, Leave, Pcs, Local, Stage, QueueRow
<1>5. \A q \in Slots \ {s} : SameRunner(q)
  BY <1>2 DEF Retire, DispatchTypes, Serve, StepTo, Leave, SameRunner
<1>6. \A x \in Tasks \ {t} : SameTurn(x)
  BY <1>1, <1>2, <1>3 DEF Retire, DispatchTypes, Local, SameTurn
<1>7. Serving(s)'
  BY <1>1, <1>2, DispatchAssumption
     DEF Retire, DispatchTypes, Serve, StepTo, Leave, RowOut, Local, Serving, Waiting, Dispatched, Accepted, Stage, Tied
<1>8. Tied(t)'
  BY <1>1, <1>2, DispatchAssumption
     DEF Retire, DispatchTypes, Serve, StepTo, Leave, RowOut, Rest, Local, Serving, Waiting, Dispatched, Accepted, Tied
<1>9. QED BY <1>1, <1>4, <1>5, <1>6, <1>7, <1>8, RunnerTurnStep

LEMMA NoneParkedStep ==
    ASSUME DispatchInv, NEW s \in Slots, NoneParked(s)
    PROVE  DispatchInv'
<1>1. DispatchTypes /\ Serving(s) /\ serves[s] = None
  BY DEF DispatchInv, NoneParked, Serving
<1>2. DispatchTypes'
  BY <1>1 DEF NoneParked, DispatchTypes, Leave, Serve, StepTo, Local, Pcs
<1>3. \A q \in Slots \ {s} : SameRunner(q)
  BY <1>1 DEF NoneParked, DispatchTypes, Serve, StepTo, Leave, SameRunner
<1>4. \A x \in Tasks : SameTurn(x)
  BY DEF NoneParked, Local, SameTurn
<1>5. Serving(s)'
  BY <1>1 DEF NoneParked, DispatchTypes, Serve, StepTo, Leave, Serving
<1>6. {} \in SUBSET Tasks /\ \A t \in {} : rows[t].owner \in {None, s} /\ Tied(t)'
  OBVIOUS
<1>7. QED BY <1>1, <1>2, <1>3, <1>4, <1>5, <1>6, RunnerStep

LEMMA RunnerDiesStep ==
    ASSUME DispatchInv, NEW s \in Slots, RunnerDies(s)
    PROVE  DispatchInv'
<1>1. DispatchTypes /\ Serving(s)
  BY DEF DispatchInv
<1>2. CASE serves[s] = None
  <2>1. DispatchTypes'
    BY <1>1, <1>2 DEF RunnerDies, DispatchTypes, Leave, Serve, StepTo, Local, Pcs
  <2>2. \A q \in Slots \ {s} : SameRunner(q)
    BY <1>1 DEF RunnerDies, DispatchTypes, Serve, StepTo, Leave, SameRunner
  <2>3. \A x \in Tasks : SameTurn(x)
    BY <1>2 DEF RunnerDies, Local, SameTurn
  <2>4. Serving(s)'
    BY <1>1 DEF RunnerDies, DispatchTypes, Serve, StepTo, Leave, Serving
  <2>5. {} \in SUBSET Tasks /\ \A t \in {} : rows[t].owner \in {None, s} /\ Tied(t)'
    OBVIOUS
  <2>6. QED BY <1>2, <2>1, <2>2, <2>3, <2>4, <2>5, RunnerStep
<1>3. CASE serves[s] # None
  <2>1. PICK t \in Tasks : t = serves[s] /\ rows[t].owner = s /\ Tied(t)
    BY <1>1, <1>3, Served DEF Serving
  <2>2. rows' = [rows EXCEPT ![t].owner = None]
    BY <1>3, <2>1 DEF RunnerDies
  <2>3. rows' \in [Tasks -> QueueRow] /\ \A x \in Tasks \ {t} : rows'[x] = rows[x]
    BY <1>1, <2>2 DEF DispatchTypes, QueueRow
  <2>4. DispatchTypes'
    BY <1>1, <2>3 DEF RunnerDies, DispatchTypes, Leave, Serve, StepTo, Local, Pcs
  <2>5. \A q \in Slots \ {s} : SameRunner(q)
    BY <1>1 DEF RunnerDies, DispatchTypes, Serve, StepTo, Leave, SameRunner
  <2>6. \A x \in Tasks \ {t} : SameTurn(x)
    BY <2>3 DEF RunnerDies, Local, SameTurn
  <2>7. Serving(s)'
    BY <1>1 DEF RunnerDies, DispatchTypes, Serve, StepTo, Leave, Serving
  <2>8. Tied(t)'
    <3>1. rows'[t].st = rows[t].st /\ rows'[t].owner = None
      BY <1>1, <2>2 DEF DispatchTypes, QueueRow
    <3>2. QED BY <2>1, <3>1 DEF RunnerDies, Local, Tied, Accepted
  <2>9. QED BY <2>1, <2>4, <2>5, <2>6, <2>7, <2>8, RunnerTurnStep
<1>4. QED BY <1>2, <1>3

LEMMA ReassignStep ==
    ASSUME DispatchInv, NEW s \in Slots, Reassign(s)
    PROVE  DispatchInv'
<1>1. PICK t \in Tasks : t = serves[s] /\ rows[t].owner = s /\ Serving(s) /\ Tied(t)
  BY Served DEF Reassign
<1>2. DispatchTypes
  BY DEF DispatchInv
<1>a. PICK u \in Reassignable(t, idle[s]) : \E w \in Assignable(u, idle[s]) :
        /\ rows' = [rows EXCEPT ![t] = Yielded(@),
                                ![u] = [@ EXCEPT !.st = "dispatching", !.owner = s, !.worker = w]]
        /\ Serve(s, u, "taken")
  BY <1>1 DEF Reassign
<1>3. PICK w \in Assignable(u, idle[s]) :
        /\ rows' = [rows EXCEPT ![t] = Yielded(@),
                                ![u] = [@ EXCEPT !.st = "dispatching", !.owner = s, !.worker = w]]
        /\ Serve(s, u, "taken")
  BY <1>a
<1>4. u \in Tasks /\ Parked(u) /\ ~Accepted(u) /\ w \in Workers
  BY <1>2, <1>a, <1>3 DEF Reassignable, Recipients, Runnable, Assignable, DispatchTypes
<1>5. Tied(u) /\ rows[u].owner = None /\ u # t
  BY <1>1, <1>4 DEF DispatchInv, Tied, Parked, Reassign, Serving, Waiting
<1>6. rows[t] \in QueueRow /\ rows[u] \in QueueRow
  BY <1>2, <1>4 DEF DispatchTypes
<1>7. /\ rows'[t] = [rows[t] EXCEPT !.st = "parked", !.owner = None]
      /\ rows'[u] = [rows[u] EXCEPT !.st = "dispatching", !.owner = s, !.worker = w]
      /\ \A x \in Tasks \ {t, u} : rows'[x] = rows[x]
  BY <1>2, <1>3, <1>4, <1>5 DEF DispatchTypes, Yielded
<1>8. rows'[t] \in QueueRow /\ rows'[u] \in QueueRow
  BY <1>4, <1>6, <1>7 DEF QueueRow
<1>9. rows' \in [Tasks -> QueueRow]
  <2>1. rows' = [x \in Tasks |-> rows'[x]]
    BY <1>2, <1>3 DEF DispatchTypes
  <2>2. \A x \in Tasks : rows'[x] \in QueueRow
    BY <1>2, <1>7, <1>8 DEF DispatchTypes
  <2>3. QED BY <2>1, <2>2
<1>10. DispatchTypes'
  BY <1>1, <1>2, <1>3, <1>4, <1>9 DEF Reassign, DispatchTypes, Serve, StepTo, Local, Pcs
<1>11. \A q \in Slots \ {s} : SameRunner(q)
  BY <1>2, <1>3 DEF Reassign, DispatchTypes, Serve, StepTo, SameRunner
<1>12. \A x \in Tasks \ {t, u} : SameTurn(x)
  BY <1>7 DEF Reassign, Local, SameTurn
<1>13. step'[s] = "taken" /\ serves'[s] = u /\ donor'[s] = t /\ UNCHANGED <<status, host, over>>
  BY <1>1, <1>2, <1>3 DEF Reassign, DispatchTypes, Serve, StepTo, Local
<1>14. Serving(s)'
  BY <1>4, <1>6, <1>7, <1>13 DEF Serving, Dispatched, Accepted, QueueRow
<1>15. Tied(t)' /\ Tied(u)'
  <2>1. rows'[t].st = "parked" /\ rows'[t].owner = None
    BY <1>6, <1>7 DEF QueueRow
  <2>2. rows'[u].st = "dispatching" /\ rows'[u].owner = s
    BY <1>6, <1>7 DEF QueueRow
  <2>3. rows[t].st = "waiting" /\ rows[u].st = "parked"
    BY <1>1, <1>4 DEF Reassign, Serving, Waiting, Parked
  <2>4. QED BY <1>1, <1>5, <1>13, <2>1, <2>2, <2>3 DEF Tied, Accepted
<1>16. /\ {t, u} \in SUBSET Tasks /\ serves[s] \in {t, u} \cup {None}
       /\ \A v \in {t, u} : rows[v].owner \in {None, s}
       /\ \A v \in {t, u} : Tied(v)'
  BY <1>1, <1>4, <1>5, <1>15
<1>17. QED BY <1>10, <1>11, <1>12, <1>14, <1>16, RunnerStep

LEMMA LaunchRefusedStep ==
    ASSUME DispatchInv, NEW s \in Slots, LaunchRefused(s)
    PROVE  DispatchInv'
<1>1. PICK u \in Tasks : u = serves[s] /\ rows[u].owner = s /\ Serving(s) /\ Tied(u)
  BY Served DEF LaunchRefused
<1>2. DispatchTypes /\ donor[s] \in Tasks /\ Dispatched(u)
  BY <1>1 DEF DispatchInv, LaunchRefused, Serving
<1>3. PICK t \in Tasks : t = donor[s] /\ Tied(t)
  BY <1>2 DEF DispatchInv
<1>4. CASE Parked(t)
  <2>1. /\ rows' = [rows EXCEPT
                      ![u] = [@ EXCEPT !.st = "parked", !.owner = None, !.worker = None],
                      ![t] = [@ EXCEPT !.st = "waiting", !.owner = s]]
        /\ Serve(s, t, "wait")
    BY <1>1, <1>3, <1>4 DEF LaunchRefused
  <2>2. u # t /\ rows[t].owner = None
    BY <1>2, <1>3, <1>4 DEF Tied, Parked, Dispatched
  <2>3. rows[t] \in QueueRow /\ rows[u] \in QueueRow
    BY <1>2 DEF DispatchTypes
  <2>4. /\ rows'[u] = [rows[u] EXCEPT !.st = "parked", !.owner = None, !.worker = None]
        /\ rows'[t] = [rows[t] EXCEPT !.st = "waiting", !.owner = s]
        /\ \A x \in Tasks \ {t, u} : rows'[x] = rows[x]
    BY <1>2, <2>1, <2>2 DEF DispatchTypes
  <2>5. rows'[t] \in QueueRow /\ rows'[u] \in QueueRow
    BY <2>3, <2>4 DEF QueueRow
  <2>6. rows' \in [Tasks -> QueueRow]
    <3>1. rows' = [x \in Tasks |-> rows'[x]]
      BY <1>2, <2>1 DEF DispatchTypes
    <3>2. \A x \in Tasks : rows'[x] \in QueueRow
      BY <1>2, <2>4, <2>5 DEF DispatchTypes
    <3>3. QED BY <3>1, <3>2
  <2>7. DispatchTypes'
    BY <1>2, <2>1, <2>6 DEF LaunchRefused, DispatchTypes, Serve, StepTo, Local, Pcs
  <2>8. \A q \in Slots \ {s} : SameRunner(q)
    BY <1>2, <2>1 DEF LaunchRefused, DispatchTypes, Serve, StepTo, SameRunner
  <2>9. \A x \in Tasks \ {t, u} : SameTurn(x)
    BY <2>4 DEF LaunchRefused, Local, SameTurn
  <2>10. step'[s] = "wait" /\ serves'[s] = t /\ UNCHANGED <<status, host, over>>
    BY <1>2, <2>1 DEF LaunchRefused, DispatchTypes, Serve, StepTo, Local
  <2>11. /\ rows'[t].st = "waiting" /\ rows'[t].owner = s
         /\ rows'[u].st = "parked" /\ rows'[u].owner = None
         /\ rows[t].st = "parked" /\ rows[u].st = "dispatching"
    BY <1>2, <1>4, <2>3, <2>4 DEF QueueRow, Parked, Dispatched
  <2>12. Serving(s)'
    BY <2>10, <2>11 DEF Serving, Waiting
  <2>13. Tied(t)' /\ Tied(u)'
    BY <1>1, <1>3, <2>10, <2>11 DEF Tied, Accepted
  <2>14. /\ {t, u} \in SUBSET Tasks /\ serves[s] \in {t, u} \cup {None}
         /\ \A v \in {t, u} : rows[v].owner \in {None, s}
         /\ \A v \in {t, u} : Tied(v)'
    BY <1>1, <2>2, <2>13
  <2>15. QED BY <2>7, <2>8, <2>9, <2>12, <2>14, RunnerStep
<1>5. CASE ~Parked(t)
  <2>1. rows' = [rows EXCEPT ![u].owner = None] /\ Leave(s)
    BY <1>1, <1>3, <1>5 DEF LaunchRefused
  <2>2. rows' \in [Tasks -> QueueRow] /\ \A x \in Tasks \ {u} : rows'[x] = rows[x]
    BY <1>2, <2>1 DEF DispatchTypes, QueueRow
  <2>3. DispatchTypes'
    BY <1>2, <2>1, <2>2 DEF LaunchRefused, DispatchTypes, Leave, Serve, StepTo, Local, Pcs
  <2>4. \A q \in Slots \ {s} : SameRunner(q)
    BY <1>2, <2>1 DEF LaunchRefused, DispatchTypes, Serve, StepTo, Leave, SameRunner
  <2>5. \A x \in Tasks \ {u} : SameTurn(x)
    BY <2>2 DEF LaunchRefused, Local, SameTurn
  <2>6. Serving(s)'
    BY <1>2, <2>1 DEF LaunchRefused, DispatchTypes, Serve, StepTo, Leave, Serving
  <2>7. Tied(u)'
    BY <1>1, <1>2, <2>1 DEF LaunchRefused, DispatchTypes, Local, Tied, Accepted
  <2>8. QED BY <1>1, <2>3, <2>4, <2>5, <2>6, <2>7, RunnerTurnStep
<1>6. QED BY <1>4, <1>5

LEMMA NextParkedStep ==
    ASSUME DispatchInv, NEW s \in Slots, NextParked(s)
    PROVE  DispatchInv'
<1>1. DispatchTypes /\ serves[s] = None
  BY DEF DispatchInv, NextParked, Serving
<1>2. PICK t \in Tasks : /\ Parked(t)
                         /\ rows' = [rows EXCEPT ![t] = [@ EXCEPT !.st = "waiting", !.owner = s]]
                         /\ Serve(s, t, "wait")
  BY DEF NextParked
<1>3. Tied(t) /\ rows[t].owner = None
  BY <1>2 DEF DispatchInv, Tied, Parked
<1>4. [rows[t] EXCEPT !.st = "waiting", !.owner = s] \in QueueRow
  <2>1. rows[t] \in QueueRow
    BY <1>1 DEF DispatchTypes
  <2>2. QED BY <2>1 DEF QueueRow
<1>5. rows' \in [Tasks -> QueueRow] /\ \A x \in Tasks \ {t} : rows'[x] = rows[x]
  BY <1>1, <1>2, <1>4, RowReplaced DEF DispatchTypes
<1>6. DispatchTypes'
  BY <1>1, <1>2, <1>5 DEF NextParked, DispatchTypes, Serve, StepTo, Local, Pcs
<1>7. \A q \in Slots \ {s} : SameRunner(q)
  BY <1>1, <1>2 DEF NextParked, DispatchTypes, Serve, StepTo, SameRunner
<1>8. \A x \in Tasks \ {t} : SameTurn(x)
  BY <1>5 DEF NextParked, Local, SameTurn
<1>9. step'[s] = "wait" /\ serves'[s] = t /\ UNCHANGED <<status, host, over>>
  BY <1>1, <1>2 DEF NextParked, DispatchTypes, Serve, StepTo, Local
<1>10. rows'[t].st = "waiting" /\ rows'[t].owner = s /\ rows[t].st = "parked"
  BY <1>1, <1>2 DEF DispatchTypes, QueueRow, Parked
<1>11. Serving(s)' /\ Tied(t)'
  BY <1>3, <1>9, <1>10 DEF Serving, Waiting, Tied, Accepted
<1>12. QED BY <1>1, <1>3, <1>6, <1>7, <1>8, <1>11, RunnerTurnStep

LEMMA ReplaceStep ==
    ASSUME DispatchInv, NEW t \in Tasks, NEW s \in Slots, Replace(t, s)
    PROVE  DispatchInv'
<1>1. DispatchTypes /\ serves[s] = None /\ Tied(t) /\ rows[t].owner = None
  BY DEF DispatchInv, Replace, Serving, Orphan
<1>2. rows' = [rows EXCEPT ![t].owner = s] /\ UNCHANGED <<status, host, over>>
  BY DEF Replace, Local
<1>3. rows' \in [Tasks -> QueueRow] /\ \A x \in Tasks \ {t} : rows'[x] = rows[x]
  BY <1>1, <1>2 DEF DispatchTypes, QueueRow
<1>4. DispatchTypes'
  BY <1>1, <1>3 DEF Replace, DispatchTypes, Serve, StepTo, Local, Pcs, Stage
<1>5. \A q \in Slots \ {s} : SameRunner(q)
  BY <1>1 DEF Replace, DispatchTypes, Serve, StepTo, SameRunner
<1>6. \A x \in Tasks \ {t} : SameTurn(x)
  BY <1>2, <1>3 DEF SameTurn
<1>7. rows'[t].st = rows[t].st /\ rows'[t].owner = s
  BY <1>1, <1>2 DEF DispatchTypes, QueueRow
<1>8. serves'[s] = t /\ step'[s] = IF Waiting(t) THEN "wait" ELSE IF Accepted(t) THEN Stage(t) ELSE "run"
  BY <1>1 DEF Replace, DispatchTypes, Serve, StepTo
<1>9. Serving(s)' /\ Tied(t)'
  BY <1>1, <1>2, <1>7, <1>8 DEF Replace, Orphan, Serving, Waiting, Dispatched, Tied, Accepted, Stage
<1>10. QED BY <1>1, <1>4, <1>5, <1>6, <1>9, RunnerTurnStep

LEMMA SubmitTaskStep ==
    ASSUME DispatchInv, NEW t \in Tasks, NEW s \in Slots \cup {None}, SubmitTask(t, s)
    PROVE  DispatchInv'
<1>1. DispatchTypes /\ Tied(t) /\ status[t] = "new"
  BY DEF DispatchInv, SubmitTask
<1>2. rows[t].st = "none" /\ ~Accepted(t)
  BY <1>1 DEF Tied
<1>3. /\ status' \in [Tasks -> {"new", "queued", "active", "open", "closed"}]
      /\ status'[t] = "queued" /\ \A x \in Tasks \ {t} : status'[x] = status[x]
  BY <1>1 DEF DispatchTypes, SubmitTask
<1>4. QED BY <1>2, <1>3, EnqueuedStep DEF SubmitTask

LEMMA EnqueueFollowupStep ==
    ASSUME DispatchInv, NEW t \in Tasks, NEW s \in Slots \cup {None}, EnqueueFollowup(t, s)
    PROVE  DispatchInv'
<1>1. DispatchTypes /\ Tied(t)
  BY DEF DispatchInv
<1>2. rows[t].st = "none" /\ ~Accepted(t)
  BY <1>1 DEF Tied, EnqueueFollowup
<1>3. QED BY <1>1, <1>2, EnqueuedStep DEF EnqueueFollowup, Local, DispatchTypes

LEMMA SayStep ==
    ASSUME DispatchInv, NEW t \in Tasks, Say(t)
    PROVE  DispatchInv'
<1>1. DispatchTypes /\ Tied(t) /\ rows[t].st = "none"
  BY DEF DispatchInv, Say
<1>2. DispatchTypes'
  BY <1>1 DEF Say, DispatchTypes, Runner
<1>3. \A x \in Tasks \ {t} : SameTurn(x)
  BY <1>1 DEF Say, DispatchTypes, SameTurn
<1>4. Tied(t)'
  BY <1>1 DEF Say, DispatchTypes, Runner, Tied, Accepted
<1>5. \A q \in Slots : serves[q] # t
  BY <1>1, DispatchAssumption DEF DispatchInv, DispatchTypes, Serving, Tied
<1>6. QED BY <1>2, <1>3, <1>4, <1>5, TurnStep DEF Say, Runner

LEMMA HostEndsStep ==
    ASSUME DispatchInv, NEW t \in Tasks, HostEnds(t)
    PROVE  DispatchInv'
<1>1. DispatchTypes /\ Tied(t) /\ Accepted(t)
  BY DEF DispatchInv, HostEnds, Accepted
<1>2. DispatchTypes'
  BY <1>1 DEF HostEnds, DispatchTypes, Runner
<1>3. \A x \in Tasks \ {t} : SameTurn(x)
  BY <1>1 DEF HostEnds, DispatchTypes, SameTurn
<1>4. Tied(t)'
  BY <1>1 DEF HostEnds, DispatchTypes, Runner, Tied, Accepted
<1>5. ASSUME NEW q \in Slots, serves[q] = t PROVE Serving(q)'
  BY <1>1, <1>5, DispatchAssumption
     DEF DispatchInv, Serving, HostEnds, DispatchTypes, Runner, Waiting, Dispatched, Accepted
<1>6. QED BY <1>2, <1>3, <1>4, <1>5, TurnStep DEF HostEnds, Runner

LEMMA RefreshStatusStep ==
    ASSUME DispatchInv, NEW t \in Tasks, RefreshStatus(t)
    PROVE  DispatchInv'
<1>1. DispatchTypes /\ Tied(t) /\ t \in over /\ rows[t].owner = None
  BY DEF DispatchInv, RefreshStatus, Orphan
<1>2. DispatchTypes'
  BY <1>1 DEF RefreshStatus, DispatchTypes, Runner
<1>3. \A x \in Tasks \ {t} : SameTurn(x)
  BY <1>1 DEF RefreshStatus, DispatchTypes, SameTurn
<1>4. Tied(t)'
  BY <1>1 DEF RefreshStatus, DispatchTypes, Runner, Tied, Accepted
<1>5. \A q \in Slots : serves[q] # t
  BY <1>1, DispatchAssumption DEF DispatchInv, DispatchTypes, Serving
<1>6. QED BY <1>2, <1>3, <1>4, <1>5, TurnStep DEF RefreshStatus, Runner

LEMMA ParkSpentStep ==
    ASSUME DispatchInv, NEW t \in Tasks, ParkSpent(t)
    PROVE  DispatchInv'
<1>1. DispatchTypes /\ Tied(t) /\ rows[t].owner = None /\ rows[t].st # "none"
  BY DEF DispatchInv, ParkSpent, Orphan
<1>2. rows[t] \in QueueRow
  BY <1>1 DEF DispatchTypes
<1>3. [rows[t] EXCEPT !.st = "parked", !.worker = None] \in QueueRow
  BY <1>2 DEF QueueRow
<1>4. rows' \in [Tasks -> QueueRow] /\ \A x \in Tasks \ {t} : rows'[x] = rows[x]
  BY <1>1, <1>3, RowReplaced DEF ParkSpent, DispatchTypes
<1>5. DispatchTypes'
  BY <1>1, <1>4 DEF ParkSpent, DispatchTypes, Runner
<1>6. \A x \in Tasks \ {t} : SameTurn(x)
  BY <1>4 DEF ParkSpent, SameTurn
<1>7. rows'[t].st = "parked" /\ rows'[t].owner = None
  BY <1>1, <1>2 DEF ParkSpent, DispatchTypes, QueueRow
<1>8. Tied(t)'
  BY <1>1, <1>7 DEF ParkSpent, Runner, Tied, Accepted
<1>9. \A q \in Slots : serves[q] # t
  BY <1>1, DispatchAssumption DEF DispatchInv, DispatchTypes, Serving
<1>10. QED BY <1>5, <1>6, <1>8, <1>9, TurnStep DEF ParkSpent, Runner

LEMMA CancelStep ==
    ASSUME DispatchInv, NEW t \in Tasks, Cancel(t)
    PROVE  DispatchInv'
<1>1. DispatchTypes /\ Tied(t)
  BY DEF DispatchInv
<1>2. /\ rows' \in [Tasks -> QueueRow] /\ \A x \in Tasks \ {t} : rows'[x] = rows[x]
      /\ rows'[t].st = rows[t].st /\ rows'[t].owner = rows[t].owner
  BY <1>1 DEF Cancel, DispatchTypes, QueueRow
<1>3. DispatchTypes'
  BY <1>1, <1>2 DEF Cancel, DispatchTypes, Runner, Local
<1>4. \A x \in Tasks \ {t} : SameTurn(x)
  BY <1>2 DEF Cancel, SameTurn, Local
<1>5. Tied(t)'
  BY <1>1, <1>2 DEF Cancel, Runner, Local, Tied, Accepted
<1>6. ASSUME NEW q \in Slots, serves[q] = t PROVE Serving(q)'
  BY <1>1, <1>2, <1>6 DEF DispatchInv, Serving, Cancel, Runner, Local, Waiting, Dispatched, Accepted
<1>7. QED BY <1>3, <1>4, <1>5, <1>6, TurnStep DEF Cancel, Runner

LEMMA CancelUnownedStep ==
    ASSUME DispatchInv, NEW t \in Tasks, CancelUnowned(t)
    PROVE  DispatchInv'
<1>1. DispatchTypes /\ Tied(t) /\ rows[t].owner = None /\ ~Accepted(t)
  BY DEF DispatchInv, CancelUnowned, Tied, Parked
<1>2. rows' \in [Tasks -> QueueRow] /\ \A x \in Tasks \ {t} : rows'[x] = rows[x]
  BY <1>1, DispatchAssumption DEF CancelUnowned, DispatchTypes, RowOut, Rest, QueueRow
<1>3. DispatchTypes'
  BY <1>1, <1>2 DEF CancelUnowned, DispatchTypes, Runner
<1>4. \A x \in Tasks \ {t} : SameTurn(x)
  BY <1>1, <1>2 DEF CancelUnowned, DispatchTypes, SameTurn
<1>5. Tied(t)'
  BY <1>1 DEF CancelUnowned, DispatchTypes, RowOut, Rest, Tied, Accepted
<1>6. \A q \in Slots : serves[q] # t
  BY <1>1, DispatchAssumption DEF DispatchInv, DispatchTypes, Serving
<1>7. QED BY <1>3, <1>4, <1>5, <1>6, TurnStep DEF CancelUnowned, Runner

LEMMA QueueStill ==
    ASSUME DispatchInv, UNCHANGED <<rows, status, home, host, over, step, serves, idle, donor>>
    PROVE  DispatchInv'
BY DEF DispatchInv, DispatchTypes, Serving, Tied, Waiting, Dispatched, Accepted

LEMMA QueueStep ==
    ASSUME DispatchInv, [QueueNext]_queueVars PROVE DispatchInv'
<1>1. ASSUME NEW s \in Slots, Waiter(s) PROVE DispatchInv'
  BY <1>1, ResumeAcceptedStep, CancelWaitingStep, ObserveStep, ClaimWorkerStep, ClaimFailsStep,
     ReassignStep, KeepWaitingStep, LaunchPermitStep, LaunchRefusedStep DEF Waiter
<1>2. ASSUME NEW s \in Slots, Executor(s) PROVE DispatchInv'
  BY <1>2, CancelDispatchedStep, HostAcceptsStep, HostRefusesStep, SaveStatusStep, RetireStep,
     NextParkedStep, NoneParkedStep DEF Executor
<1>3. ASSUME NEW w \in Workers, ForeignArrives(w) \/ ForeignLeaves(w) PROVE DispatchInv'
  BY <1>3, QueueStill DEF ForeignArrives, ForeignLeaves, Local, Runner
<1>4. CASE ResetBudget
  BY <1>4, QueueStill DEF ResetBudget, Runner
<1>5. CASE UNCHANGED queueVars
  BY <1>5, QueueStill DEF queueVars
<1>6. QED
  BY <1>1, <1>2, <1>3, <1>4, <1>5, SubmitTaskStep, EnqueueFollowupStep, SayStep, HostEndsStep,
     RefreshStatusStep, ParkSpentStep, CancelStep, CancelUnownedStep, RunnerDiesStep, ReplaceStep
     DEF QueueNext

LEMMA QueueHolds == QueueSpec => []DispatchInv
BY QueueStarts, QueueStep, PTL DEF QueueSpec

-----------------------------------------------------------------------------
(* How turns are dispatched. *)

(* A turn that counts against the cap of its run. *)
Running(x) == (Dispatched(x) /\ x \notin over) \/ host[x] # None

(* A step does not dispatch x anew. *)
Steady(x) ==
    /\ Running(x)' => Running(x)
    /\ Dispatched(x)' => Dispatched(x) \/ Accepted(x)

(* A step dispatches t: its run has room, and no older row blocks the worker. *)
Admits(t) ==
    /\ RunHasCapacity(t)
    /\ \A u \in Older(t) : ~Blocks(u, rows'[t].worker)
    /\ \A x \in Tasks \ {t} : Steady(x)

LEMMA SameSteady ==
    ASSUME NEW x \in Tasks, SameTurn(x) PROVE Steady(x)
BY DEF SameTurn, Steady, Running, Dispatched, Accepted

LEMMA StillSteady ==
    ASSUME UNCHANGED <<rows, host, over>> PROVE \A x \in Tasks : Steady(x)
BY DEF Steady, Running, Dispatched, Accepted

LEMMA ResumeAcceptedSteady ==
    ASSUME DispatchInv, NEW s \in Slots, ResumeAccepted(s) PROVE \A x \in Tasks : Steady(x)
<1>1. PICK t \in Tasks : t = serves[s] /\ rows[t].owner = s /\ Serving(s) /\ Tied(t)
  BY Served DEF ResumeAccepted
<1>2. DispatchTypes
  BY DEF DispatchInv
<1>3. \A x \in Tasks \ {t} : Steady(x)
  BY <1>1, <1>2 DEF ResumeAccepted, DispatchTypes, RowOut, Local, Steady, Running, Dispatched, Accepted
<1>4. Steady(t)
  BY <1>1, <1>2
     DEF ResumeAccepted, DispatchTypes, RowOut, Rest, Local, Serving, Tied, Steady, Running, Dispatched, Accepted
<1>5. QED BY <1>3, <1>4

LEMMA CancelWaitingSteady ==
    ASSUME DispatchInv, NEW s \in Slots, CancelWaiting(s) PROVE \A x \in Tasks : Steady(x)
<1>1. PICK t \in Tasks : t = serves[s] /\ rows[t].owner = s /\ Serving(s) /\ Tied(t)
  BY Served DEF CancelWaiting
<1>2. DispatchTypes
  BY DEF DispatchInv
<1>3. \A x \in Tasks \ {t} : Steady(x)
  BY <1>1, <1>2 DEF CancelWaiting, DispatchTypes, RowOut, Local, Steady, Running, Dispatched, Accepted
<1>4. Steady(t)
  BY <1>1, <1>2
     DEF CancelWaiting, DispatchTypes, RowOut, Rest, Local, Serving, Tied, Steady, Running, Dispatched, Accepted
<1>5. QED BY <1>3, <1>4

LEMMA CancelDispatchedSteady ==
    ASSUME DispatchInv, NEW s \in Slots, CancelDispatched(s) PROVE \A x \in Tasks : Steady(x)
<1>1. PICK t \in Tasks : t = serves[s] /\ rows[t].owner = s /\ Serving(s) /\ Tied(t)
  BY Served DEF CancelDispatched
<1>2. DispatchTypes
  BY DEF DispatchInv
<1>3. \A x \in Tasks \ {t} : Steady(x)
  BY <1>1, <1>2 DEF CancelDispatched, DispatchTypes, RowOut, Local, Steady, Running, Dispatched, Accepted
<1>4. Steady(t)
  BY <1>1, <1>2
     DEF CancelDispatched, DispatchTypes, RowOut, Rest, Local, Serving, Tied, Steady, Running, Dispatched, Accepted
<1>5. QED BY <1>3, <1>4

LEMMA HostAcceptsSteady ==
    ASSUME DispatchInv, NEW s \in Slots, HostAccepts(s) PROVE \A x \in Tasks : Steady(x)
<1>1. PICK t \in Tasks : t = serves[s] /\ rows[t].owner = s /\ Serving(s) /\ Tied(t)
  BY Served DEF HostAccepts
<1>2. DispatchTypes
  BY DEF DispatchInv
<1>3. \A x \in Tasks \ {t} : Steady(x)
  BY <1>1, <1>2 DEF HostAccepts, DispatchTypes, RowOut, Local, Steady, Running, Dispatched, Accepted
<1>4. Steady(t)
  BY <1>1, <1>2
     DEF HostAccepts, DispatchTypes, RowOut, Rest, Local, Serving, Tied, Steady, Running, Dispatched, Accepted
<1>5. QED BY <1>3, <1>4

LEMMA HostRefusesSteady ==
    ASSUME DispatchInv, NEW s \in Slots, HostRefuses(s) PROVE \A x \in Tasks : Steady(x)
<1>1. PICK t \in Tasks : t = serves[s] /\ rows[t].owner = s /\ Serving(s) /\ Tied(t)
  BY Served DEF HostRefuses
<1>2. DispatchTypes
  BY DEF DispatchInv
<1>3. \A x \in Tasks \ {t} : Steady(x)
  BY <1>1, <1>2 DEF HostRefuses, DispatchTypes, RowOut, Local, Steady, Running, Dispatched, Accepted
<1>4. Steady(t)
  BY <1>1, <1>2
     DEF HostRefuses, DispatchTypes, RowOut, Rest, Local, Serving, Tied, Steady, Running, Dispatched, Accepted
<1>5. QED BY <1>3, <1>4

LEMMA SaveStatusSteady ==
    ASSUME DispatchInv, NEW s \in Slots, SaveStatus(s) PROVE \A x \in Tasks : Steady(x)
<1>1. PICK t \in Tasks : t = serves[s] /\ rows[t].owner = s /\ Serving(s) /\ Tied(t)
  BY Served DEF SaveStatus
<1>2. DispatchTypes
  BY DEF DispatchInv
<1>3. \A x \in Tasks \ {t} : Steady(x)
  BY <1>1, <1>2 DEF SaveStatus, DispatchTypes, RowOut, Local, Steady, Running, Dispatched, Accepted
<1>4. Steady(t)
  BY <1>1, <1>2
     DEF SaveStatus, DispatchTypes, RowOut, Rest, Local, Serving, Tied, Steady, Running, Dispatched, Accepted
<1>5. QED BY <1>3, <1>4

LEMMA RetireSteady ==
    ASSUME DispatchInv, NEW s \in Slots, Retire(s) PROVE \A x \in Tasks : Steady(x)
<1>1. PICK t \in Tasks : t = serves[s] /\ rows[t].owner = s /\ Serving(s) /\ Tied(t)
  BY Served DEF Retire
<1>2. DispatchTypes
  BY DEF DispatchInv
<1>3. \A x \in Tasks \ {t} : Steady(x)
  BY <1>1, <1>2 DEF Retire, DispatchTypes, RowOut, Local, Steady, Running, Dispatched, Accepted
<1>4. Steady(t)
  BY <1>1, <1>2
     DEF Retire, DispatchTypes, RowOut, Rest, Local, Serving, Tied, Steady, Running, Dispatched, Accepted
<1>5. QED BY <1>3, <1>4

LEMMA ClaimAdmits ==
    ASSUME DispatchInv, NEW s \in Slots, ClaimWorker(s) PROVE \E t \in Tasks : Admits(t)
<1>1. PICK t \in Tasks : t = serves[s]
  BY Served DEF ClaimWorker
<1>2. DispatchTypes
  BY DEF DispatchInv
<1>3. PICK w \in Claimable(t, idle[s]) :
        rows' = [rows EXCEPT ![t].st = "dispatching", ![t].worker = w]
  BY <1>1 DEF ClaimWorker
<1>4. rows'[t].worker = w /\ \A x \in Tasks \ {t} : rows'[x] = rows[x]
  BY <1>2, <1>3 DEF DispatchTypes, QueueRow
<1>5. RunHasCapacity(t) /\ \A u \in Older(t) : ~Blocks(u, w)
  BY <1>3 DEF Claimable
<1>6. \A x \in Tasks \ {t} : Steady(x)
  BY <1>4 DEF ClaimWorker, Local, Steady, Running, Dispatched, Accepted
<1>7. QED BY <1>4, <1>5, <1>6 DEF Admits

LEMMA ReassignAdmits ==
    ASSUME DispatchInv, NEW s \in Slots, Reassign(s) PROVE \E t \in Tasks : Admits(t)
<1>1. PICK t \in Tasks : t = serves[s] /\ Serving(s)
  BY Served DEF Reassign
<1>2. DispatchTypes
  BY DEF DispatchInv
<1>3. PICK u \in Reassignable(t, idle[s]) : \E w \in Assignable(u, idle[s]) :
        rows' = [rows EXCEPT ![t] = Yielded(@),
                             ![u] = [@ EXCEPT !.st = "dispatching", !.owner = s, !.worker = w]]
  BY <1>1 DEF Reassign
<1>4. PICK w \in Assignable(u, idle[s]) :
        rows' = [rows EXCEPT ![t] = Yielded(@),
                             ![u] = [@ EXCEPT !.st = "dispatching", !.owner = s, !.worker = w]]
  BY <1>3
<1>5. u \in Tasks /\ u # t
  BY <1>1, <1>3 DEF Reassignable, Recipients, Parked, Reassign, Serving, Waiting
<1>6. rows[t] \in QueueRow /\ rows[u] \in QueueRow
  BY <1>2, <1>5 DEF DispatchTypes
<1>7. /\ rows'[t] = [rows[t] EXCEPT !.st = "parked", !.owner = None]
      /\ rows'[u] = [rows[u] EXCEPT !.st = "dispatching", !.owner = s, !.worker = w]
      /\ \A x \in Tasks \ {t, u} : rows'[x] = rows[x]
  BY <1>2, <1>4, <1>5 DEF DispatchTypes, Yielded
<1>8. rows'[t].st = "parked" /\ rows'[u].worker = w
  BY <1>6, <1>7 DEF QueueRow
<1>9. RunHasCapacity(u) /\ \A v \in Older(u) : ~Blocks(v, w)
  BY <1>4 DEF Assignable
<1>10. \A x \in Tasks \ {u} : Steady(x)
  BY <1>7, <1>8 DEF Reassign, Local, Steady, Running, Dispatched, Accepted
<1>11. QED BY <1>5, <1>8, <1>9, <1>10 DEF Admits

LEMMA LaunchRefusedSteady ==
    ASSUME DispatchInv, NEW s \in Slots, LaunchRefused(s) PROVE \A x \in Tasks : Steady(x)
<1>1. PICK u \in Tasks : u = serves[s] /\ Serving(s)
  BY Served DEF LaunchRefused
<1>2. DispatchTypes /\ Dispatched(u)
  BY <1>1 DEF DispatchInv, LaunchRefused, Serving
<1>3. PICK t \in Tasks : t = donor[s]
  BY <1>1 DEF LaunchRefused, Serving
<1>4. CASE Parked(t)
  <2>1. rows' = [rows EXCEPT
                   ![u] = [@ EXCEPT !.st = "parked", !.owner = None, !.worker = None],
                   ![t] = [@ EXCEPT !.st = "waiting", !.owner = s]]
    BY <1>1, <1>3, <1>4 DEF LaunchRefused
  <2>2. u # t /\ rows[t] \in QueueRow /\ rows[u] \in QueueRow
    BY <1>2, <1>4 DEF DispatchTypes, Parked, Dispatched
  <2>3. /\ rows'[u] = [rows[u] EXCEPT !.st = "parked", !.owner = None, !.worker = None]
        /\ rows'[t] = [rows[t] EXCEPT !.st = "waiting", !.owner = s]
        /\ \A x \in Tasks \ {t, u} : rows'[x] = rows[x]
    BY <1>2, <2>1, <2>2 DEF DispatchTypes
  <2>4. rows'[u].st = "parked" /\ rows'[t].st = "waiting"
    BY <2>2, <2>3 DEF QueueRow
  <2>5. QED BY <2>3, <2>4 DEF LaunchRefused, Local, Steady, Running, Dispatched, Accepted
<1>5. CASE ~Parked(t)
  <2>1. rows' = [rows EXCEPT ![u].owner = None]
    BY <1>1, <1>3, <1>5 DEF LaunchRefused
  <2>2. \A x \in Tasks : rows'[x].st = rows[x].st
    BY <1>2, <2>1 DEF DispatchTypes, QueueRow
  <2>3. QED BY <2>2 DEF LaunchRefused, Local, Steady, Running, Dispatched, Accepted
<1>6. QED BY <1>4, <1>5

LEMMA EnqueuedSteady ==
    ASSUME DispatchInv, NEW t \in Tasks, NEW s \in Slots \cup {None}, Enqueued(t, s),
           UNCHANGED <<host, over>>
    PROVE  \A x \in Tasks : Steady(x)
<1>1. DispatchTypes
  BY DEF DispatchInv
<1>2. /\ rows'[t].st \in {"parked", "waiting"}
      /\ \A x \in Tasks \ {t} : rows'[x] = rows[x]
  <2>1. CASE s = None
    BY <1>1, <2>1 DEF Enqueued, DispatchTypes, Rest
  <2>2. CASE s # None
    BY <1>1, <2>2 DEF Enqueued, DispatchTypes, Rest
  <2>3. QED BY <2>1, <2>2
<1>3. QED BY <1>2 DEF Steady, Running, Dispatched, Accepted

LEMMA TurnSteady ==
    ASSUME DispatchInv, NEW t \in Tasks,
           Say(t) \/ HostEnds(t) \/ RefreshStatus(t) \/ ParkSpent(t) \/ Cancel(t) \/ CancelUnowned(t)
    PROVE  \A x \in Tasks : Steady(x)
<1>1. DispatchTypes /\ rows[t] \in QueueRow
  BY DEF DispatchInv, DispatchTypes
<1>2. CASE Say(t) \/ RefreshStatus(t)
  BY <1>2, StillSteady DEF Say, RefreshStatus
<1>3. CASE HostEnds(t)
  BY <1>1, <1>3 DEF HostEnds, DispatchTypes, Steady, Running, Dispatched, Accepted
<1>4. CASE ParkSpent(t)
  <2>1. rows'[t].st = "parked" /\ \A x \in Tasks \ {t} : rows'[x] = rows[x]
    BY <1>1, <1>4 DEF ParkSpent, DispatchTypes, QueueRow
  <2>2. QED BY <1>4, <2>1 DEF ParkSpent, Steady, Running, Dispatched, Accepted
<1>5. CASE Cancel(t)
  <2>1. \A x \in Tasks : rows'[x].st = rows[x].st
    BY <1>1, <1>5 DEF Cancel, DispatchTypes, QueueRow
  <2>2. QED BY <1>5, <2>1 DEF Cancel, Local, Steady, Running, Dispatched, Accepted
<1>6. CASE CancelUnowned(t)
  <2>1. rows'[t].st = "none" /\ \A x \in Tasks \ {t} : rows'[x] = rows[x]
    BY <1>1, <1>6 DEF CancelUnowned, RowOut, Rest, DispatchTypes
  <2>2. QED BY <1>6, <2>1 DEF CancelUnowned, Steady, Running, Dispatched, Accepted
<1>7. QED BY <1>2, <1>3, <1>4, <1>5, <1>6

LEMMA RunnerSteady ==
    ASSUME DispatchInv, NEW s \in Slots,
           NextParked(s) \/ NoneParked(s) \/ RunnerDies(s) \/ \E t \in Tasks : Replace(t, s)
    PROVE  \A x \in Tasks : Steady(x)
<1>1. DispatchTypes
  BY DEF DispatchInv
<1>2. CASE NextParked(s)
  <2>1. PICK t \in Tasks : rows' = [rows EXCEPT ![t] = [@ EXCEPT !.st = "waiting", !.owner = s]]
    BY <1>2 DEF NextParked
  <2>2. rows[t] \in QueueRow
    BY <1>1 DEF DispatchTypes
  <2>3. rows'[t].st = "waiting" /\ \A x \in Tasks \ {t} : rows'[x] = rows[x]
    BY <1>1, <2>1, <2>2 DEF DispatchTypes, QueueRow
  <2>4. QED BY <1>2, <2>3 DEF NextParked, Local, Steady, Running, Dispatched, Accepted
<1>3. CASE NoneParked(s)
  BY <1>3, StillSteady DEF NoneParked, Local
<1>4. CASE RunnerDies(s)
  <2>1. \A x \in Tasks : rows'[x].st = rows[x].st
    BY <1>1, <1>4 DEF RunnerDies, DispatchTypes, QueueRow
  <2>2. QED BY <1>4, <2>1 DEF RunnerDies, Local, Steady, Running, Dispatched, Accepted
<1>5. ASSUME NEW t \in Tasks, Replace(t, s) PROVE \A x \in Tasks : Steady(x)
  <2>1. \A x \in Tasks : rows'[x].st = rows[x].st
    BY <1>1, <1>5 DEF Replace, DispatchTypes, QueueRow
  <2>2. QED BY <1>5, <2>1 DEF Replace, Local, Steady, Running, Dispatched, Accepted
<1>6. QED BY <1>2, <1>3, <1>4, <1>5

(* A turn is dispatched anew only by a claim or a reassignment. *)
LEMMA Admission ==
    ASSUME DispatchInv, [QueueNext]_queueVars
    PROVE  (\A x \in Tasks : Steady(x)) \/ (\E t \in Tasks : Admits(t))
<1>1. ASSUME NEW s \in Slots, Observe(s) \/ ClaimFails(s) \/ KeepWaiting(s) \/ LaunchPermit(s)
      PROVE  \A x \in Tasks : Steady(x)
  BY <1>1, StillSteady DEF Observe, ClaimFails, KeepWaiting, LaunchPermit, Local
<1>2. ASSUME NEW s \in Slots, Waiter(s)
      PROVE  (\A x \in Tasks : Steady(x)) \/ (\E t \in Tasks : Admits(t))
  BY <1>1, <1>2, ResumeAcceptedSteady, CancelWaitingSteady, ClaimAdmits, ReassignAdmits,
     LaunchRefusedSteady DEF Waiter
<1>3. ASSUME NEW s \in Slots, Executor(s) PROVE \A x \in Tasks : Steady(x)
  BY <1>3, CancelDispatchedSteady, HostAcceptsSteady, HostRefusesSteady, SaveStatusSteady,
     RetireSteady, RunnerSteady DEF Executor
<1>4. ASSUME NEW t \in Tasks, NEW s \in Slots \cup {None}, SubmitTask(t, s) \/ EnqueueFollowup(t, s)
      PROVE  \A x \in Tasks : Steady(x)
  BY <1>4, EnqueuedSteady DEF SubmitTask, EnqueueFollowup, Local
<1>5. ASSUME NEW w \in Workers, ForeignArrives(w) \/ ForeignLeaves(w)
      PROVE  \A x \in Tasks : Steady(x)
  BY <1>5, StillSteady DEF ForeignArrives, ForeignLeaves, Local
<1>6. CASE ResetBudget
  BY <1>6, StillSteady DEF ResetBudget
<1>7. CASE UNCHANGED queueVars
  BY <1>7, StillSteady DEF queueVars
<1>8. QED
  BY <1>2, <1>3, <1>4, <1>5, <1>6, <1>7, TurnSteady, RunnerSteady DEF QueueNext

Runs == {t \in Members : Running(t)}

LEMMA CapStarts == QueueInit => RunCapKept
<1> SUFFICES ASSUME QueueInit PROVE RunCapKept
  OBVIOUS
<1>1. {t \in Members : (Dispatched(t) /\ t \notin over) \/ host[t] # None} = {}
  BY DispatchAssumption DEF QueueInit, Dispatched, Rest
<1>2. Cardinality({}) = 0 /\ Cap \in Nat
  BY FS_EmptySet, DispatchAssumption
<1>3. QED BY <1>1, <1>2 DEF RunCapKept

LEMMA CapStep ==
    ASSUME DispatchInv, RunCapKept, [QueueNext]_queueVars PROVE RunCapKept'
<1>1. IsFiniteSet(Runs) /\ Cardinality(Runs) <= Cap
  <2>1. IsFiniteSet(Runs)
    BY FS_Subset, DispatchAssumption DEF Runs
  <2>2. QED BY <2>1 DEF RunCapKept, Runs, Running
<1>2. SUFFICES Cardinality(Runs') <= Cap
  BY DEF RunCapKept, Runs, Running
<1>3. ASSUME Runs' \subseteq Runs PROVE Cardinality(Runs') <= Cap
  <2>1. IsFiniteSet(Runs') /\ Cardinality(Runs') <= Cardinality(Runs)
    BY <1>1, <1>3, FS_Subset
  <2>2. Cardinality(Runs) \in Nat /\ Cardinality(Runs') \in Nat /\ Cap \in Nat
    BY <1>1, <2>1, FS_CardinalityType, DispatchAssumption
  <2>3. QED BY <1>1, <2>1, <2>2
<1>4. CASE \A x \in Tasks : Steady(x)
  <2>1. Runs' \subseteq Runs
    BY <1>4, DispatchAssumption DEF Runs, Steady
  <2>2. QED BY <1>3, <2>1
<1>5. ASSUME NEW t \in Tasks, Admits(t) PROVE Cardinality(Runs') <= Cap
  <2>1. \A x \in Tasks \ {t} : Running(x)' => Running(x)
    BY <1>5 DEF Admits, Steady
  <2>2. CASE t \notin Members
    <3>1. Runs' \subseteq Runs
      BY <2>1, <2>2, DispatchAssumption DEF Runs
    <3>2. QED BY <1>3, <3>1
  <2>3. CASE t \in Members
    <3> DEFINE S == {u \in Members : Sibling(t, u)}
    <3>1. IsFiniteSet(S) /\ Cardinality(S) \in Nat
      BY FS_Subset, FS_CardinalityType, DispatchAssumption
    <3>2. Cardinality(S) < Cap
      BY <1>5, <2>3 DEF Admits, RunHasCapacity
    <3>3. Runs' \subseteq S \cup {t}
      <4>1. ASSUME NEW x \in Members, Running(x), x # t PROVE Sibling(t, x)
        BY <4>1, DispatchAssumption DEF Running, Sibling, DispatchInv, Tied
      <4>2. QED BY <2>1, <4>1, DispatchAssumption DEF Runs
    <3>4. t \notin S
      BY DEF Sibling
    <3>5. IsFiniteSet(S \cup {t}) /\ Cardinality(S \cup {t}) = Cardinality(S) + 1
      BY <3>1, <3>4, FS_AddElement
    <3>6. IsFiniteSet(Runs') /\ Cardinality(Runs') <= Cardinality(S \cup {t})
      BY <3>3, <3>5, FS_Subset
    <3>7. Cardinality(Runs') \in Nat /\ Cap \in Nat
      BY <3>6, FS_CardinalityType, DispatchAssumption
    <3> HIDE DEF S
    <3>8. QED BY <3>1, <3>2, <3>5, <3>6, <3>7
  <2>4. QED BY <2>2, <2>3
<1>6. QED BY <1>4, <1>5, Admission

(* No more members of a run are dispatched than its max_parallel, for any
   number of runners, tasks and workers and any number of deaths:
   run_has_capacity counts every sibling that is running or about to under the
   queue lock, and claim_next_matching and dispatch_eligible ask it before they
   let one more go.  The count is the Sibling set of the one turn that a step
   admits (Admission); Tied shows that every running member is in it. *)
THEOREM RunCapHolds == QueueSpec => []RunCapKept
BY CapStarts, CapStep, QueueHolds, PTL DEF QueueSpec

LEMMA OverlookedBlocks ==
    ASSUME DispatchInv, NEW u \in Tasks, NEW w, Overtaken(u, w) PROVE Blocks(u, w)
BY DEF DispatchInv, Tied, Overtaken, Blocks, Runnable, Parked, Waiting, Accepted

(* A turn is never dispatched to a worker over an older turn that could have
   gone there: claim_next_matching stops at the first older row that
   blocks_queue_claim names, and the runner of a waiting row looks at the older
   rows before it goes.  Whatever is overtaken would have blocked the claim
   (OverlookedBlocks). *)
THEOREM OldestIsFirst == QueueSpec => OlderFirst
<1>1. ASSUME DispatchInv, [QueueNext]_queueVars
      PROVE  [\A t \in Tasks :
                ~Dispatched(t) /\ Dispatched(t)' /\ ~Accepted(t)
                   => \A u \in Older(t) : ~Overtaken(u, rows'[t].worker)]_queueVars
  <2>1. ASSUME NEW t \in Tasks, ~Dispatched(t), Dispatched(t)', ~Accepted(t), NEW u \in Older(t)
        PROVE  ~Overtaken(u, rows'[t].worker)
    <3>1. Admits(t)
      BY <1>1, <2>1, Admission DEF Admits, Steady
    <3>2. u \in Tasks /\ ~Blocks(u, rows'[t].worker)
      BY <2>1, <3>1 DEF Admits, Older
    <3>3. QED BY <1>1, <3>2, OverlookedBlocks
  <2>2. QED BY <2>1
<1>2. QED BY <1>1, QueueHolds, PTL DEF QueueSpec, OlderFirst
=============================================================================
