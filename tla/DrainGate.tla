------------------------------ MODULE DrainGate ------------------------------
(***************************************************************************)
(* The controller's admission valve (controller/drain.rs): the stable lock *)
(* file drain.lock, the operator's flag drain.json, and the pause history  *)
(* integration-gate.json.  Callers take the lock shared and keep it        *)
(* through the handoff; operators and every store open take it exclusive.  *)
(***************************************************************************)
EXTENDS Naturals, FiniteSets

CONSTANTS
    Callers,     \* threads that hand a turn to a runner or begin a phase
    Operators,   \* processes that drain, undrain, disable or open the store
    MaxCrashes,  \* bound on crashes and failed writes
    MaxLosses    \* bound on files lost or damaged from outside

ASSUME GateConstants ==
    /\ MaxCrashes \in Nat
    /\ MaxLosses \in Nat

VARIABLES
    fresh,       \* TRUE: no controller store had been opened when this began
    lockFile,    \* drain.lock: "none", "empty" or "marked" (holds the byte 1)
    flag,        \* drain.json: "none", "on" or "off"
    gate,        \* integration-gate.json: "none", "open", "closed" or "bad"
    launcher,    \* launcher -> [at, kind]
    operator,    \* operator -> [at, op]
    drained,     \* ghost: a drain was acknowledged and not lifted since
    paused,      \* ghost: an integration pause was acknowledged, not lifted
    crashes,
    losses

files == <<fresh, lockFile, flag, gate>>
ghosts == <<drained, paused>>
budgets == <<crashes, losses>>
gateVars == <<fresh, lockFile, flag, gate, launcher, operator, drained, paused, crashes, losses>>

Kinds == {"turn", "phase"}
Ops == {"on", "off", "disable", "open"}

NoPermit == [at |-> "idle", kind |-> "turn"]
Resting == [at |-> "idle", op |-> "on"]

GateTypeOK ==
    /\ fresh \in BOOLEAN
    /\ lockFile \in {"none", "empty", "marked"}
    /\ flag \in {"none", "on", "off"}
    /\ gate \in {"none", "open", "closed", "bad"}
    /\ launcher \in [Callers ->
           [at : {"idle", "missing", "asking", "permit", "bare"}, kind : Kinds]]
    /\ operator \in [Operators ->
           [at : {"idle", "asking", "locked", "flagged", "marked"}, op : Ops]]
    /\ drained \in BOOLEAN
    /\ paused \in BOOLEAN
    /\ crashes \in 0 .. MaxCrashes
    /\ losses \in 0 .. MaxLosses

(* A store opened before has its lock marked and a flag beside it. *)
GateInit ==
    /\ fresh \in BOOLEAN
    /\ IF fresh THEN lockFile = "none" /\ flag = "none"
                ELSE lockFile = "marked" /\ flag = "off"
    /\ gate = "none"
    /\ launcher = [l \in Callers |-> NoPermit]
    /\ operator = [o \in Operators |-> Resting]
    /\ drained = FALSE
    /\ paused = FALSE
    /\ crashes = 0
    /\ losses = 0

-----------------------------------------------------------------------------
(* flock on drain.lock: shared by permits, exclusive for writers. *)
Exclusive(o) == operator[o].at \in {"locked", "flagged", "marked"}
Shared(l) == launcher[l].at = "permit"

Admitted(l) == launcher[l].at \in {"permit", "bare"}

NoWriter == \A o \in Operators : ~Exclusive(o)
NoReader == \A l \in Callers : ~Shared(l)

(* read_drain_flag: "error" when an initialized store has lost its flag. *)
ReadDrainFlag ==
    CASE flag # "none" -> flag
      [] flag = "none" /\ lockFile # "marked" -> "off"
      [] OTHER -> "error"

LetsDamaged(kind) ==
    /\ ReadDrainFlag = "off"
    /\ kind = "phase" => gate # "open"

(* Whether the files seen under the shared lock let this kind of work start:
   an integration phase also needs a readable history with no open window. *)
Lets(kind) ==
    /\ ReadDrainFlag = "off"
    /\ kind = "phase" => gate \in {"none", "closed"}

-----------------------------------------------------------------------------
(* launch_permit / integration_admission. *)

(* existing_lock: open the lock if it is there. *)
Look(l, kind) ==
    /\ launcher[l].at = "idle"
    /\ launcher' = [launcher EXCEPT ![l] =
           [at |-> IF lockFile = "none" THEN "missing" ELSE "asking", kind |-> kind]]
    /\ UNCHANGED <<files, operator, ghosts, budgets>>

(* No lock was found.  A flag without its lock is an error; with neither the
   permit is given without any lock. *)
LookFlag(l) ==
    /\ launcher[l].at = "missing"
    /\ launcher' = [launcher EXCEPT ![l].at = IF flag = "none" THEN "bare" ELSE "idle"]
    /\ UNCHANGED <<files, operator, ghosts, budgets>>

(* The shared lock is granted and the files are read under it. *)
LockShared(l) ==
    /\ launcher[l].at = "asking"
    /\ NoWriter
    /\ launcher' = [launcher EXCEPT ![l].at =
           IF Lets(launcher[l].kind) THEN "permit" ELSE "idle"]
    /\ UNCHANGED <<files, operator, ghosts, budgets>>

(* deadline.lock gives up. *)
TimeOut(l) ==
    /\ launcher[l].at = "asking"
    /\ ~NoWriter
    /\ launcher' = [launcher EXCEPT ![l] = NoPermit]
    /\ UNCHANGED <<files, operator, ghosts, budgets>>

(* The runner is spawned and owns its row, or the phase is recorded, or the
   launcher dies: the permit is dropped. *)
Handoff(l) ==
    /\ Admitted(l)
    /\ launcher' = [launcher EXCEPT ![l] = NoPermit]
    /\ UNCHANGED <<files, operator, ghosts, budgets>>

-----------------------------------------------------------------------------
(* set_gate_at and initialize. *)

(* open_private_lock creates the lock file when it is missing. *)
OpenLock(o, op) ==
    /\ operator[o].at = "idle"
    /\ lockFile' = IF lockFile = "none" THEN "empty" ELSE lockFile
    /\ operator' = [operator EXCEPT ![o] = [at |-> "asking", op |-> op]]
    /\ UNCHANGED <<fresh, flag, gate, launcher, ghosts, budgets>>

LockExclusive(o) ==
    /\ operator[o].at = "asking"
    /\ NoWriter
    /\ NoReader
    /\ operator' = [operator EXCEPT ![o].at = "locked"]
    /\ UNCHANGED <<files, launcher, ghosts, budgets>>

(* The operator's flag; disable leaves it alone. *)
WriteFlag(o) ==
    /\ operator[o].at = "locked"
    /\ operator[o].op \in {"on", "off"}
    /\ flag' = operator[o].op
    /\ operator' = [operator EXCEPT ![o].at = "flagged"]
    /\ IF operator[o].op = "off"
       THEN drained' = FALSE /\ paused' = FALSE
       ELSE UNCHANGED ghosts
    /\ UNCHANGED <<fresh, lockFile, gate, launcher, budgets>>

OpenStoreAlways(o) ==
    /\ operator[o].at = "locked"
    /\ operator[o].op = "open"
    /\ operator' = [operator EXCEPT ![o].at = "flagged"]
    /\ flag' = IF flag = "none" THEN "off" ELSE flag
    /\ UNCHANGED <<fresh, lockFile, gate, launcher, ghosts, budgets>>

(* initialize: keep a flag that is there, write the first one, and refuse to
   replace one that an initialized store has lost. *)
OpenStore(o) ==
    /\ operator[o].at = "locked"
    /\ operator[o].op = "open"
    /\ IF flag = "none" /\ lockFile = "marked"
       THEN /\ operator' = [operator EXCEPT ![o] = Resting]
            /\ UNCHANGED flag
       ELSE /\ operator' = [operator EXCEPT ![o].at = "flagged"]
            /\ flag' = IF flag = "none" THEN "off" ELSE flag
    /\ UNCHANGED <<fresh, lockFile, gate, launcher, ghosts, budgets>>

(* mark_initialized; a store open ends here. *)
Mark(o) ==
    /\ operator[o].at = "flagged"
    /\ lockFile' = "marked"
    /\ operator' = [operator EXCEPT ![o] =
           IF operator[o].op = "open" THEN Resting ELSE [operator[o] EXCEPT !.at = "marked"]]
    /\ UNCHANGED <<fresh, flag, gate, launcher, ghosts, budgets>>

(* update_integration_gate: what the history becomes.  A damaged one is set
   aside and started anew; --off without a history writes none. *)
UpdateIntegrationGate(op) ==
    CASE op \in {"on", "disable"} -> "open"
      [] op = "off" /\ gate = "none" -> "none"
      [] OTHER -> "closed"

(* The last write of set_gate_at, the release of the lock and the answer.  A
   history that cannot be written only warns; ok says that it was written. *)
Answer(o, ok) ==
    /\ operator[o].at = IF operator[o].op = "disable" THEN "locked" ELSE "marked"
    /\ IF ok THEN gate' = UpdateIntegrationGate(operator[o].op) /\ UNCHANGED crashes
             ELSE crashes < MaxCrashes /\ crashes' = crashes + 1 /\ UNCHANGED gate
    /\ drained' = (drained \/ operator[o].op = "on")
    /\ paused' = (paused \/ (ok /\ operator[o].op \in {"on", "disable"}))
    /\ operator' = [operator EXCEPT ![o] = Resting]
    /\ UNCHANGED <<fresh, lockFile, flag, launcher, losses>>

-----------------------------------------------------------------------------
(* A writer dies between two of its writes and its lock is released. *)
Die(o) ==
    /\ operator[o].at # "idle"
    /\ crashes < MaxCrashes
    /\ crashes' = crashes + 1
    /\ operator' = [operator EXCEPT ![o] = Resting]
    /\ UNCHANGED <<files, launcher, ghosts, losses>>

(* drain.json is lost, or the pause history is damaged, from outside. *)
LoseFlag ==
    /\ losses < MaxLosses
    /\ flag # "none"
    /\ losses' = losses + 1
    /\ flag' = "none"
    /\ UNCHANGED <<fresh, lockFile, gate, launcher, operator, ghosts, crashes>>

DamageGate ==
    /\ losses < MaxLosses
    /\ gate \in {"open", "closed"}
    /\ losses' = losses + 1
    /\ gate' = "bad"
    /\ UNCHANGED <<fresh, lockFile, flag, launcher, operator, ghosts, crashes>>

Launching(l) ==
    \/ \E kind \in Kinds : Look(l, kind)
    \/ LookFlag(l)
    \/ LockShared(l)
    \/ TimeOut(l)
    \/ Handoff(l)

Writing(o) ==
    \/ LockExclusive(o)
    \/ WriteFlag(o)
    \/ OpenStore(o)
    \/ Mark(o)
    \/ Answer(o, TRUE)
    \/ Answer(o, FALSE)

GateNext ==
    \/ \E l \in Callers : Launching(l)
    \/ \E o \in Operators, op \in Ops : OpenLock(o, op)
    \/ \E o \in Operators : Writing(o)
    \/ \E o \in Operators : Die(o)
    \/ LoseFlag
    \/ DamageGate

GateSpec == GateInit /\ [][GateNext]_gateVars

-----------------------------------------------------------------------------
\* Once `worker controller drain` has been acknowledged nobody holds a launch
\* permit, neither for a turn nor for an integration phase, until an operator
\* lifts it: not across store opens, crashes, or the loss of drain.json.  It needs
\* a store: a permit given before there was a lock file is not waited for.
DrainFence == ~fresh /\ drained => \A l \in Callers : ~Admitted(l)

\* Once a drain or a disable has been acknowledged with its pause persisted,
\* no integration phase is admitted until `drain --off`.
PauseFence ==
    ~fresh /\ paused => \A l \in Callers : ~(Admitted(l) /\ launcher[l].kind = "phase")

==============================================================================
