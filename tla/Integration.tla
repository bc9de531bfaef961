---------------------------- MODULE Integration ----------------------------
(***************************************************************************)
(* Auto-integration of one task (integration/coordinator.rs, host.rs,      *)
(* git.rs): the owner's record with its revision, the driver that works on *)
(* it, an operator who stops, follows up or re-drives meanwhile, the       *)
(* host's own record of the cycle, and the target branch at origin, where  *)
(* others push too.  A request may be lost or late, and processes die.     *)
(* Merges are clean: no resolving or verifying turn; no pause and no       *)
(* close: see the README.                                                  *)
(***************************************************************************)
EXTENDS Naturals, FiniteSets, Sequences

CONSTANTS
    MaxCandidates,  \* MAX_CANDIDATES, merges tried in one cycle
    MaxRetries,     \* retries of a phase: TRANSPORT_RETRY_DELAYS_MILLIS
    MaxTurns,       \* bound on ordinary turns
    MaxEpoch,       \* bound on re-drives of a cycle
    MaxMoves,       \* bound on pushes of others to the target branch
    MaxStops,       \* bound on cancels
    MaxUpsets,      \* bound on lost answers, network failures and deaths
    Starts          \* how much of the last three a behaviour begins with

ASSUME IntegrationConstants ==
    /\ {MaxRetries, MaxTurns, MaxEpoch, MaxMoves, MaxStops, MaxUpsets} \subseteq Nat
    /\ MaxCandidates \in Nat \ {0}
    /\ Starts \subseteq [moves : 0..MaxMoves, stops : 0..MaxStops, upsets : 0..MaxUpsets]

VARIABLES
    rec,        \* the owner's IntegrationRecord
    hostRec,    \* the host's copy of the cycle, or NoCycle
    proof,      \* the host's revoke.json, or NoProof
    own,        \* the owner's task: its latest turn, and is it running
    remote,     \* the host's task: the same, and what its branch points at
    origin,     \* the target branch: what was pushed to it, in order
    proc,       \* process -> where it is
    late,       \* requests on their way to the host that nobody waits for
    bound,      \* the epoch a saved re-drive request is bound to, or Unbound
    stopped,    \* ghost: cycles whose stop was confirmed without a receipt
    spent       \* [moves, stops, upsets]: how much of each bound is used up

integrationVars ==
    <<rec, hostRec, proof, own, remote, origin, proc, late, bound, stopped, spent>>

Driver == "driver"
Operator == "operator"
Processes == {Driver, Operator}
Unbound == MaxEpoch + 1
NoCycle == [src |-> 0, ep |-> 0, rev |-> 0, tomb |-> "none", intent |-> "none",
            receipt |-> "none", n |-> 0, tip |-> 0]
NoProof == [src |-> 0, ep |-> 0, rev |-> 0]
NoTries == [phase \in {"fetch", "push", "repair"} |-> 0]
ProcRest == [at |-> "idle", goal |-> "drive", aim |-> <<0, 0>>, rev |-> 0, req |-> <<>>,
             answer |-> "none", n |-> 0]

Cycle(s, e, r) ==
    [src |-> s, ep |-> e, rev |-> r, st |-> "pending", back |-> "none", tomb |-> "none",
     tombRev |-> 0, receipt |-> "none", attempts |-> 0, tries |-> NoTries, given |-> FALSE]

IntegrationInit ==
    /\ rec = Cycle(1, 0, 1)
    /\ hostRec = NoCycle /\ proof = NoProof
    /\ own = [turn |-> 1, running |-> FALSE]
    /\ remote = [turn |-> 1, running |-> FALSE, head |-> "source"]
    /\ origin = <<>>
    /\ proc = [p \in Processes |-> ProcRest]
    /\ late = {} /\ bound = Unbound /\ stopped = {}
    /\ spent \in Starts

Upset ==
    /\ spent.upsets < MaxUpsets
    /\ spent' = [spent EXCEPT !.upsets = @ + 1]

-----------------------------------------------------------------------------
(* The record of the owner: replace is a compare-and-swap on the revision. *)

Save(r) == rec' = [r EXCEPT !.rev = rec.rev + 1]
Current(p) == rec.rev = proc[p].rev

(* covers_latest_ordinary_work and owner_source_is_current. *)
Covers == own.turn = rec.src
SourceCurrent == Covers /\ ~own.running
Settled == {"integrated", "revoked"}

IsAt(p, place) == proc[p].at = place
Go(p, place) == proc' = [proc EXCEPT ![p].at = place, ![p].rev = rec'.rev]
Leave(p) == proc' = [proc EXCEPT ![p] = ProcRest]

(* revoke_for_stop is for the cycle its caller saw. *)
Aim == <<rec.src, rec.ep>>
StopIt(p, goal) ==
    proc' = [proc EXCEPT ![p] = [ProcRest EXCEPT !.at = "stop", !.goal = goal, !.aim = Aim]]

(* An operator's command ends or goes on with what its stop was for. *)
AfterStop(p) == IF p = Operator /\ proc[p].goal # "drive" THEN proc[p].goal ELSE "idle"
Return(p) ==
    proc' = [proc EXCEPT ![p] = IF AfterStop(p) = "idle" THEN ProcRest
                                ELSE [ProcRest EXCEPT !.at = AfterStop(p), !.goal = AfterStop(p)]]

Request(step, imported) ==
    [step |-> step, src |-> rec'.src, ep |-> rec'.ep,
     rev |-> IF step = "revoke" THEN rec'.tombRev ELSE rec'.rev, imported |-> imported]

Send(p, place, imported) ==
    proc' = [proc EXCEPT ![p].at = place, ![p].rev = rec'.rev, ![p].answer = "none",
                         ![p].req = Request(place, imported)]

-----------------------------------------------------------------------------
(* The driver: run repeats drive_once. *)

(* A stop that is not confirmed, or a newer turn, comes first. *)
MustRevoke ==
    /\ rec.st # "integrated"
    /\ rec.tomb = "asked" \/ (rec.st # "revoked" /\ ~SourceCurrent)

ScheduledUnlessBlocked == rec.st \notin Settled \cup {"blocked"}

(* schedule: a blocked cycle has no driver, unless its stop is open. *)
Scheduled == rec.st \notin Settled \cup {"blocked"} \/ rec.tomb = "asked"

Drives(p) == p = Driver /\ IsAt(p, "idle") /\ Scheduled

DriveStop(p) ==
    /\ Drives(p) /\ MustRevoke
    /\ StopIt(p, "drive")
    /\ UNCHANGED <<rec, hostRec, proof, own, remote, origin, late, bound, stopped, spent>>

DriveResume(p) ==
    /\ Drives(p) /\ ~MustRevoke /\ rec.st = "retry_wait"
    /\ Save([rec EXCEPT !.st = rec.back, !.back = "none"])
    /\ UNCHANGED <<hostRec, proof, own, remote, origin, proc, late, bound, stopped, spent>>

NextPhase(r) ==
    CASE r.st \in {"pending", "fetching", "pushing"} -> "fetch"
      [] r.st = "ready" -> "push"
      [] r.st = "published" -> "repair"

(* host_phase: the intent is saved, then the request goes out, unless the
   record or the task moved in between. *)
BeginPhase(p) ==
    /\ \/ Drives(p) /\ ~MustRevoke /\ rec.st \notin Settled \cup {"blocked", "retry_wait"}
       \/ IsAt(p, "finish") /\ Current(p) /\ rec.st = "published" /\ SourceCurrent
    /\ LET phase == NextPhase(rec) IN
       /\ Save([rec EXCEPT
              !.st = CASE phase = "fetch" -> "fetching" [] phase = "push" -> "pushing"
                       [] OTHER -> @,
              !.attempts = IF phase = "fetch" /\ @ = 0 THEN 1 ELSE @])
       /\ Go(p, "begun")
    /\ UNCHANGED <<hostRec, proof, own, remote, origin, late, bound, stopped, spent>>

BegunPhase == IF rec.st = "fetching" THEN "fetch" ELSE IF rec.st = "pushing" THEN "push"
              ELSE "repair"

SendPhase(p) ==
    /\ IsAt(p, "begun")
    /\ UNCHANGED <<rec, hostRec, proof, own, remote, origin, late, bound, stopped, spent>>
    /\ IF Current(p) /\ SourceCurrent
       THEN Send(p, BegunPhase, FALSE)
       ELSE IF Current(p) THEN StopIt(p, "drive") ELSE Leave(p)

(* retry and block. *)
Retried(r, phase, answer) ==
    IF answer = "network" /\ r.tries[phase] < MaxRetries
    THEN [r EXCEPT !.tries[phase] = @ + 1, !.back = IF phase = "push" THEN "fetching" ELSE r.st,
                   !.st = "retry_wait"]
    ELSE [r EXCEPT !.st = "blocked", !.back = "none"]

(* apply_response; invalidate_candidate when the target moved. *)
Applied(r, phase, answer, n) ==
    CASE answer = "ready" ->
            [r EXCEPT !.st = "ready", !.attempts = n,
                      !.tries = IF n > r.attempts THEN NoTries ELSE @]
      [] answer = "integrated" ->
            [r EXCEPT !.st = "published", !.receipt = IF @ = "none" THEN "got" ELSE @]
      [] answer = "moved" ->
            IF r.attempts >= MaxCandidates THEN [r EXCEPT !.st = "blocked"]
            ELSE [r EXCEPT !.st = "fetching", !.attempts = @ + 1, !.tries = NoTries]
      [] OTHER -> Retried(r, phase, answer)

ApplyStale(p) ==
    /\ proc[p].at \in {"fetch", "push", "repair"} /\ proc[p].answer # "none"
    /\ LET r == Applied(rec, proc[p].at, proc[p].answer, proc[p].n) IN
       /\ Save(r)
       /\ IF proc[p].at = "repair" /\ r.st = "published" THEN Go(p, "import") ELSE Leave(p)
    /\ UNCHANGED <<hostRec, proof, own, remote, origin, late, bound, stopped, spent>>

(* The answer is applied to the record it was asked for, or not at all. *)
ApplyAnswer(p) ==
    /\ proc[p].at \in {"fetch", "push", "repair"} /\ proc[p].answer # "none"
    /\ IF Current(p)
       THEN LET r == Applied(rec, proc[p].at, proc[p].answer, proc[p].n) IN
            /\ Save(r)
            /\ IF proc[p].at = "repair" /\ r.st = "published" THEN Go(p, "import") ELSE Leave(p)
       ELSE Leave(p) /\ UNCHANGED rec
    /\ UNCHANGED <<hostRec, proof, own, remote, origin, late, bound, stopped, spent>>

(* finish_receipt and import_receipt: the result is fetched, the task's record
   takes it, and the host hears that it was imported. *)
ImportReceipt(p) ==
    /\ IsAt(p, "import")
    /\ IF Current(p) /\ SourceCurrent /\ remote = [turn |-> rec.src, running |-> FALSE,
                                                   head |-> "result"]
       THEN Save(rec) /\ Send(p, "ack", TRUE)
       ELSE Leave(p) /\ UNCHANGED rec
    /\ UNCHANGED <<hostRec, proof, own, remote, origin, late, bound, stopped, spent>>

SaveImport(p) ==
    /\ IsAt(p, "ack") /\ proc[p].answer # "none"
    /\ IF proc[p].answer = "integrated" /\ Current(p)
       THEN /\ Save([rec EXCEPT !.receipt = "imported"])
            /\ Go(p, "conclude")
       ELSE Leave(p) /\ UNCHANGED rec
    /\ UNCHANGED <<hostRec, proof, own, remote, origin, late, bound, stopped, spent>>

Conclude(p) ==
    /\ IsAt(p, "conclude")
    /\ IF Current(p) THEN Save([rec EXCEPT !.st = "integrated", !.back = "none"]) ELSE UNCHANGED rec
    /\ Leave(p)
    /\ UNCHANGED <<hostRec, proof, own, remote, origin, late, bound, stopped, spent>>

-----------------------------------------------------------------------------
(* revoke_for_stop, by the driver or for an operator's command.  The request
   to stop is durable first; an unconfirmed one is taken up by the driver. *)

RevokeAsk(p) ==
    /\ IsAt(p, "stop")
    /\ UNCHANGED <<hostRec, proof, own, remote, origin, late, bound, stopped, spent>>
    /\ \/ /\ Aim # proc[p].aim \/ rec.st = "integrated"
          /\ Leave(p) /\ UNCHANGED rec
       \/ /\ Aim = proc[p].aim /\ rec.tomb = "acked" /\ rec.st # "integrated"
          /\ UNCHANGED rec
          /\ IF rec.st = "published" /\ SourceCurrent THEN Go(p, "finish") ELSE Return(p)
       \/ /\ Aim = proc[p].aim /\ rec.st # "integrated" /\ rec.tomb # "acked"
          /\ IF rec.tomb = "none"
             THEN Save([rec EXCEPT !.tomb = "asked", !.tombRev = rec.rev + 1])
             ELSE UNCHANGED rec
          /\ Send(p, "revoke", FALSE)

SameStop(p) ==
    /\ <<rec.src, rec.ep, rec.tombRev>> = <<proc[p].req.src, proc[p].req.ep, proc[p].req.rev>>
    /\ rec.tomb # "none"

ConfirmedByTimeout(p) == proc[p].answer \in {"revoked", "network"}
Confirmed(p) == proc[p].answer = "revoked"

Revoked(r) == [r EXCEPT !.st = "revoked", !.back = "none"]

(* save_stop_update rebases the confirmation onto the same stop; everything
   else needs the record as it was. *)
RevokeDone(p) ==
    /\ IsAt(p, "revoke") /\ proc[p].answer # "none"
    /\ UNCHANGED <<hostRec, proof, own, remote, origin, late, bound, spent>>
    /\ \/ /\ Confirmed(p) /\ SameStop(p) /\ rec.st # "integrated"
          /\ IF rec.tomb = "acked" /\ rec.st = "revoked" THEN UNCHANGED rec
             ELSE Save([Revoked(rec) EXCEPT !.tomb = "acked"])
          /\ stopped' = stopped \cup {<<rec.src, rec.ep>>}
          /\ Return(p)
       \/ /\ proc[p].answer = "integrated" /\ Current(p)
          /\ LET r == [rec EXCEPT !.tomb = "acked", !.receipt = "got", !.st = "published"] IN
             IF SourceCurrent THEN Save(r) /\ Go(p, "finish")
                              ELSE Save(Revoked(r)) /\ Return(p)
          /\ UNCHANGED stopped
       \/ /\ proc[p].answer = "invalid" /\ Current(p) /\ ~Covers
          /\ Save([Revoked(rec) EXCEPT !.tomb = "none"])
          /\ UNCHANGED stopped
          /\ Return(p)
       \/ /\ ~Current(p)
          /\ proc[p].answer = "integrated" \/ (proc[p].answer = "invalid" /\ ~Covers)
          /\ proc' = [proc EXCEPT ![p].at = "stop"]
          /\ UNCHANGED <<rec, stopped>>
       \/ /\ \/ Confirmed(p) /\ (~SameStop(p) \/ rec.st = "integrated")
             \/ proc[p].answer = "invalid" /\ Covers
             \/ ~Confirmed(p) /\ proc[p].answer \notin {"integrated", "invalid"}
          /\ Leave(p) /\ UNCHANGED <<rec, stopped>>

FinishMoved(p) ==
    /\ IsAt(p, "finish") /\ ~(Current(p) /\ rec.st = "published" /\ SourceCurrent)
    /\ Leave(p)
    /\ UNCHANGED <<rec, hostRec, proof, own, remote, origin, late, bound, stopped, spent>>

-----------------------------------------------------------------------------
(* The operator.  before_integration_mutation stops the cycle of the latest
   turn before a cancel or a follow-up. *)

Cancel ==
    /\ IsAt(Operator, "idle") /\ ~own.running
    /\ Covers /\ rec.st # "integrated" /\ spent.stops < MaxStops
    /\ spent' = [spent EXCEPT !.stops = @ + 1]
    /\ StopIt(Operator, "given")
    /\ UNCHANGED <<rec, hostRec, proof, own, remote, origin, late, bound, stopped>>

(* mark_given_up *)
MarkGivenUp ==
    /\ IsAt(Operator, "given")
    /\ IF rec.st = "revoked" /\ rec.tomb = "acked" THEN Save([rec EXCEPT !.given = TRUE])
                                                  ELSE UNCHANGED rec
    /\ Leave(Operator)
    /\ UNCHANGED <<hostRec, proof, own, remote, origin, late, bound, stopped, spent>>

Say ==
    /\ IsAt(Operator, "idle") /\ ~own.running /\ own.turn < MaxTurns
    /\ Covers
    /\ \/ rec.st = "integrated"
          /\ proc' = [proc EXCEPT ![Operator].at = "say"]
       \/ rec.st \in {"blocked", "revoked"}
          /\ StopIt(Operator, "say")
    /\ UNCHANGED <<rec, hostRec, proof, own, remote, origin, late, bound, stopped, spent>>

(* The turn is appended by a compare-and-swap on the task's record, not on the
   integration record looked at before. *)
AppendTurn ==
    /\ IsAt(Operator, "say")
    /\ own' = IF own.running THEN own ELSE [turn |-> own.turn + 1, running |-> TRUE]
    /\ Leave(Operator)
    /\ UNCHANGED <<rec, hostRec, proof, remote, origin, late, bound, stopped, spent>>

(* redrive: the binding is saved, the blocked cycle is stopped, the next epoch
   begins; a saved binding is taken up again after a crash. *)
Redrive ==
    /\ IsAt(Operator, "idle") /\ ~own.running
    /\ \/ bound = Unbound /\ rec.st = "blocked" /\ rec.ep < MaxEpoch /\ bound' = rec.ep
       \/ bound # Unbound /\ UNCHANGED bound
    /\ proc' = [proc EXCEPT ![Operator].at = "redrive", ![Operator].goal = "redrive"]
    /\ UNCHANGED <<rec, hostRec, proof, own, remote, origin, late, stopped, spent>>

NextEpoch ==
    /\ IsAt(Operator, "redrive")
    /\ UNCHANGED <<hostRec, proof, own, remote, origin, late, stopped, spent>>
    /\ \/ /\ rec.ep = bound /\ rec.st = "blocked" /\ ~own.running /\ ~rec.given
          /\ StopIt(Operator, "redrive")
          /\ UNCHANGED <<rec, bound>>
       \/ /\ rec.ep = bound /\ rec.st = "revoked" /\ rec.tomb = "acked"
          /\ ~own.running /\ ~rec.given
          /\ Save(Cycle(rec.src, rec.ep + 1, rec.rev))
          /\ bound' = Unbound /\ Leave(Operator)
       \/ /\ \/ rec.ep # bound \/ own.running \/ rec.given
             \/ rec.st \notin {"blocked", "revoked"} \/ (rec.st = "revoked" /\ rec.tomb # "acked")
          /\ bound' = IF rec.ep # bound THEN Unbound ELSE bound
          /\ Leave(Operator) /\ UNCHANGED rec

(* on_terminal: a finished turn begins its cycle once the last one is over. *)
Stage ==
    /\ ~own.running /\ own.turn > rec.src /\ rec.st \in Settled
    /\ Save(Cycle(own.turn, 0, rec.rev))
    /\ UNCHANGED <<hostRec, proof, own, remote, origin, proc, late, bound, stopped, spent>>

(* The turn on the host, and its result back at the owner. *)
TurnBegins ==
    /\ own.running /\ remote.turn < own.turn
    /\ remote' = [turn |-> own.turn, running |-> TRUE, head |-> "source"]
    /\ UNCHANGED <<rec, hostRec, proof, own, origin, proc, late, bound, stopped, spent>>

TurnFinishes ==
    /\ remote.running
    /\ remote' = [remote EXCEPT !.running = FALSE]
    /\ UNCHANGED <<rec, hostRec, proof, own, origin, proc, late, bound, stopped, spent>>

TurnImported ==
    /\ own.running /\ remote.turn = own.turn /\ ~remote.running
    /\ own' = [own EXCEPT !.running = FALSE]
    /\ UNCHANGED <<rec, hostRec, proof, remote, origin, proc, late, bound, stopped, spent>>

-----------------------------------------------------------------------------
(* The host (host.rs execute): one request at a time under the task's fence.
   A request comes from a process that waits, or is late. *)

Asking == {"fetch", "push", "repair", "ack", "revoke"}
Nobody == "nobody"

Asked(w, m) ==
    \/ w \in Processes /\ proc[w].at \in Asking /\ proc[w].answer = "none" /\ m = proc[w].req
    \/ w = Nobody /\ m \in late

Reply(w, m, answer, n) ==
    IF w = Nobody
    THEN late' = late \ {m} /\ UNCHANGED proc
    ELSE proc' = [proc EXCEPT ![w].answer = answer, ![w].n = n] /\ UNCHANGED late

Repairs(m) == m.step \in {"repair", "ack"}
SameCycle(m) == hostRec.src = m.src /\ hostRec.ep = m.ep
Proved(m) == proof.src = m.src

LandedAtTip(s) == Len(origin) > 0 /\ origin[Len(origin)][1] >= s

(* A commit of turn s is on the target branch; turns build on one another. *)
Landed(s) == \E i \in DOMAIN origin : origin[i][1] >= s

(* The cycle the host keeps is over, and another may take its place. *)
OverOnHost ==
    \/ hostRec.tomb = "acked" /\ hostRec.intent # "uncertain"
    \/ hostRec.receipt = "imported"

(* A request of an epoch that follows the stopped one, or of a newer turn. *)
Follows(m) ==
    /\ OverOnHost /\ m.step = "fetch"
    /\ hostRec.src = m.src => m.ep = hostRec.ep + 1

Fenced(m) == Proved(m) /\ m.ep <= proof.ep
FencedLater(m) == Proved(m) /\ m.ep < proof.ep

Elsewhere(m) == remote.turn # m.src \/ remote.head # "source"

(* The checks of a step before it may touch anything. *)
Refused(m) ==
    \/ Fenced(m)
    \/ remote.running \/ (~Repairs(m) /\ Elsewhere(m))
    \/ SameCycle(m) /\ (hostRec.rev > m.rev \/ (hostRec.tomb # "none" /\ ~Repairs(m)))
    \/ hostRec # NoCycle /\ ~SameCycle(m) /\ ~Follows(m)

HostRefuse(w, m) ==
    /\ Asked(w, m) /\ m.step # "revoke" /\ Refused(m)
    /\ Reply(w, m, "refused", 0)
    /\ UNCHANGED <<rec, hostRec, proof, own, remote, origin, bound, stopped, spent>>

(* The host's record as the step saves it first. *)
Kept(m) ==
    IF SameCycle(m)
    THEN [hostRec EXCEPT !.rev = m.rev,
                         !.receipt = IF m.imported /\ @ = "got" THEN "imported" ELSE @]
    ELSE [NoCycle EXCEPT !.src = m.src, !.ep = m.ep, !.rev = m.rev]

Receipted(k) ==
    [k EXCEPT !.receipt = IF @ = "none" THEN "got" ELSE @,
              !.intent = IF @ = "none" THEN @ ELSE "settled"]

MovedSince(k) == k.n > 0 /\ k.tip # Len(origin)

(* Fetch: the target is looked at, and a merge with it prepared. *)
HostFetch(w, m) ==
    /\ Asked(w, m) /\ m.step = "fetch" /\ ~Refused(m)
    /\ LET k == Kept(m) IN
       \/ /\ k.receipt # "none" \/ Landed(m.src)
          /\ hostRec' = Receipted(k) /\ Reply(w, m, "integrated", k.n)
       \/ /\ k.receipt = "none" /\ ~Landed(m.src) /\ MovedSince(k) /\ k.n >= MaxCandidates
          /\ hostRec' = k /\ Reply(w, m, "exhausted", k.n)
       \/ /\ k.receipt = "none" /\ ~Landed(m.src) /\ ~(MovedSince(k) /\ k.n >= MaxCandidates)
          /\ hostRec' = IF k.n = 0 \/ MovedSince(k)
                        THEN [k EXCEPT !.n = @ + 1, !.tip = Len(origin), !.intent = "none"]
                        ELSE k
          /\ Reply(w, m, "ready", hostRec'.n)
    /\ UNCHANGED <<rec, proof, own, remote, origin, bound, stopped, spent>>

Merge(k) == <<k.src, k.ep, k.n>>

(* Push: the intent is durable, the target is observed, and the merge lands
   only on the head it was made for (--force-with-lease). *)
HostPush(w, m) ==
    /\ Asked(w, m) /\ m.step = "push" /\ ~Refused(m)
    /\ LET k == Kept(m)
           intended == [k EXCEPT !.intent = "uncertain"] IN
       \/ /\ k.receipt # "none" \/ (k.n > 0 /\ Landed(m.src))
          /\ hostRec' = Receipted(k) /\ Reply(w, m, "integrated", k.n)
          /\ UNCHANGED <<origin, spent>>
       \/ /\ k.receipt = "none" /\ k.n = 0
          /\ hostRec' = k /\ Reply(w, m, "refused", 0)
          /\ UNCHANGED <<origin, spent>>
       \/ /\ k.receipt = "none" /\ k.n > 0 /\ ~Landed(m.src) /\ MovedSince(k)
          /\ hostRec' = intended /\ Reply(w, m, "moved", k.n)
          /\ UNCHANGED <<origin, spent>>
       \/ /\ k.receipt = "none" /\ k.n > 0 /\ ~Landed(m.src) /\ ~MovedSince(k)
          /\ origin' = Append(origin, Merge(k))
          /\ \/ hostRec' = Receipted(intended) /\ Reply(w, m, "integrated", k.n) /\ UNCHANGED spent
             \/ Upset /\ hostRec' = intended /\ Reply(w, m, "network", 0)
    /\ UNCHANGED <<rec, proof, own, remote, bound, stopped>>

(* Repair: the branch of the task takes the result. *)
HostRepair(w, m) ==
    /\ Asked(w, m) /\ Repairs(m) /\ ~Refused(m)
    /\ LET k == Kept(m) IN
       IF k.receipt = "none" /\ ~Landed(m.src)
       THEN hostRec' = k /\ Reply(w, m, "refused", 0) /\ UNCHANGED remote
       ELSE /\ hostRec' = Receipted(k)
            /\ IF remote.turn = m.src
               THEN remote' = [remote EXCEPT !.head = "result"] /\ Reply(w, m, "integrated", k.n)
               ELSE Reply(w, m, "refused", 0) /\ UNCHANGED remote
    /\ UNCHANGED <<rec, proof, own, origin, bound, stopped, spent>>

(* A step that reaches the host but not origin, or whose helper dies. *)
HostFails(w, m) ==
    /\ Upset
    /\ Asked(w, m) /\ m.step # "revoke" /\ ~Refused(m)
    /\ hostRec' = IF m.step = "push" /\ Kept(m).n > 0 /\ Kept(m).receipt = "none"
                  THEN [Kept(m) EXCEPT !.intent = "uncertain"] ELSE Kept(m)
    /\ Reply(w, m, "network", 0)
    /\ UNCHANGED <<rec, proof, own, remote, origin, bound, stopped>>

(* Revoke.  A stop of another cycle, or one a newer turn retired, is refused;
   one without a cycle at the host leaves a proof that fences its epoch. *)
StopRefused(m) ==
    \/ IF hostRec.src = m.src THEN remote.turn # m.src \/ m.ep < hostRec.ep ELSE Elsewhere(m)
    \/ FencedLater(m)
    \/ IF SameCycle(m) THEN hostRec.rev > m.rev
       ELSE /\ hostRec = NoCycle \/ OverOnHost
            /\ Proved(m) /\ proof.ep = m.ep /\ proof.rev # m.rev

HostRefuseStop(w, m) ==
    /\ Asked(w, m) /\ m.step = "revoke" /\ StopRefused(m)
    /\ Reply(w, m, "invalid", 0)
    /\ UNCHANGED <<rec, hostRec, proof, own, remote, origin, bound, stopped, spent>>

HostProve(w, m) ==
    /\ Asked(w, m) /\ m.step = "revoke" /\ ~StopRefused(m) /\ ~SameCycle(m)
    /\ IF hostRec = NoCycle \/ OverOnHost
       THEN /\ proof' = [src |-> m.src, ep |-> m.ep, rev |-> m.rev]
            /\ Reply(w, m, IF remote.running THEN "unconfirmed" ELSE "revoked", 0)
       ELSE Reply(w, m, "unconfirmed", 0) /\ UNCHANGED proof
    /\ UNCHANGED <<rec, hostRec, own, remote, origin, bound, stopped, spent>>

HostStop(w, m) ==
    /\ Asked(w, m) /\ m.step = "revoke" /\ ~StopRefused(m) /\ SameCycle(m)
    /\ LET asked == [hostRec EXCEPT !.rev = m.rev, !.tomb = "asked"] IN
       \/ /\ ~remote.running /\ UNCHANGED spent
          /\ IF asked.receipt # "none" \/ (asked.intent # "none" /\ Landed(m.src))
             THEN hostRec' = Receipted(asked) /\ Reply(w, m, "integrated", 0)
             ELSE /\ hostRec' = [asked EXCEPT !.tomb = "acked",
                                              !.intent = IF @ = "none" THEN @ ELSE "settled"]
                  /\ Reply(w, m, "revoked", 0)
       \/ /\ remote.running /\ UNCHANGED spent
          /\ hostRec' = asked /\ Reply(w, m, "unconfirmed", 0)
       \/ /\ Upset
          /\ hostRec' = asked /\ Reply(w, m, "unconfirmed", 0)
    /\ UNCHANGED <<rec, proof, own, remote, origin, bound, stopped>>

(* A process gives up on its request, or dies: the request may still arrive. *)
Lost(p) ==
    /\ Upset
    /\ proc[p].at \in Asking
    /\ \/ proc[p].answer = "none"
          /\ late' = late \cup {proc[p].req}
       \/ proc[p].answer # "none" /\ UNCHANGED late
    /\ \/ proc' = [proc EXCEPT ![p].answer = "network"]
       \/ Leave(p)
    /\ UNCHANGED <<rec, hostRec, proof, own, remote, origin, bound, stopped>>

(* A process dies between two saves. *)
Dies(p) ==
    /\ Upset
    /\ proc[p].at \notin Asking \cup {"idle"}
    /\ Leave(p)
    /\ UNCHANGED <<rec, hostRec, proof, own, remote, origin, late, bound, stopped>>

OthersPush ==
    /\ spent.moves < MaxMoves
    /\ spent' = [spent EXCEPT !.moves = @ + 1]
    /\ origin' = Append(origin, <<0, 0, 0>>)
    /\ UNCHANGED <<rec, hostRec, proof, own, remote, proc, late, bound, stopped>>

-----------------------------------------------------------------------------
Drive(p) ==
    \/ DriveStop(p) \/ DriveResume(p) \/ BeginPhase(p) \/ SendPhase(p) \/ ApplyAnswer(p)
    \/ ImportReceipt(p) \/ SaveImport(p) \/ Conclude(p)
    \/ RevokeAsk(p) \/ RevokeDone(p) \/ FinishMoved(p)

HostAnswers(w, m) ==
    \/ HostRefuse(w, m) \/ HostFetch(w, m) \/ HostPush(w, m) \/ HostRepair(w, m)
    \/ HostRefuseStop(w, m) \/ HostProve(w, m) \/ HostStop(w, m)

(* Nothing is left to do until somebody asks for something. *)
Rest ==
    /\ \A p \in Processes : IsAt(p, "idle")
    /\ ~Scheduled /\ ~own.running /\ ~(own.turn > rec.src /\ rec.st \in Settled) /\ late = {}
    /\ UNCHANGED integrationVars

Outstanding == late \cup {proc[p].req : p \in {q \in Processes : proc[q].at \in Asking}}

IntegrationNext ==
    \/ \E p \in Processes : Drive(p) \/ Lost(p) \/ Dies(p)
    \/ \E w \in Processes \cup {Nobody}, m \in Outstanding : HostAnswers(w, m) \/ HostFails(w, m)
    \/ Cancel \/ MarkGivenUp \/ Say \/ AppendTurn \/ Redrive \/ NextEpoch
    \/ Stage \/ TurnBegins \/ TurnFinishes \/ TurnImported
    \/ OthersPush
    \/ Rest

(* Every process that is somewhere goes on; nobody has to stop, follow up or
   re-drive, and a request nobody waits for may never arrive. *)
IntegrationFairness ==
    /\ \A p \in Processes : WF_integrationVars(Drive(p))
    /\ \A w \in Processes : WF_integrationVars(\E m \in Outstanding : HostAnswers(w, m))
    /\ WF_integrationVars(MarkGivenUp) /\ WF_integrationVars(AppendTurn)
    /\ WF_integrationVars(NextEpoch)
    /\ WF_integrationVars(Stage) /\ WF_integrationVars(TurnBegins)
    /\ WF_integrationVars(TurnFinishes) /\ WF_integrationVars(TurnImported)

IntegrationSpec == IntegrationInit /\ [][IntegrationNext]_integrationVars
IntegrationFair == IntegrationSpec /\ IntegrationFairness

-----------------------------------------------------------------------------
(* Properties.                                                             *)

States == {"pending", "fetching", "pushing", "ready", "published", "retry_wait", "blocked",
           "integrated", "revoked"}
Stopping == {"none", "asked", "acked"}
Receipt == {"none", "got", "imported"}
Places == Asking \cup {"idle", "begun", "import", "conclude", "stop", "finish", "say", "given",
                       "redrive"}
Answers == {"none", "ready", "integrated", "moved", "network", "refused", "exhausted", "revoked",
            "unconfirmed", "invalid"}
Requests == [step : Asking, src : Nat, ep : Nat, rev : Nat, imported : BOOLEAN]
Records ==
    [src : Nat, ep : Nat, rev : Nat, st : States, back : (States \ {"retry_wait"}) \cup {"none"},
     tomb : Stopping, tombRev : Nat, receipt : Receipt, attempts : Nat,
     tries : [{"fetch", "push", "repair"} -> Nat], given : BOOLEAN]
HostRecords ==
    [src : Nat, ep : Nat, rev : Nat, tomb : Stopping, intent : {"none", "uncertain", "settled"},
     receipt : Receipt, n : Nat, tip : Nat]
ProcStates ==
    [at : Places, goal : {"drive", "given", "say", "redrive"}, aim : Nat \X Nat, rev : Nat,
     req : Requests \cup {<<>>}, answer : Answers, n : Nat]

\* The records, the requests and the branch keep their types, a cycle that waits
\* for a retry knows its phase, and a process that waits for an answer waits for
\* the answer to the step it is at.
IntegrationTypeOK ==
    /\ rec \in Records /\ (rec.st = "retry_wait" => rec.back # "none")
    /\ hostRec \in HostRecords
    /\ proof \in [src : Nat, ep : Nat, rev : Nat]
    /\ own \in [turn : Nat, running : BOOLEAN]
    /\ remote \in [turn : Nat, running : BOOLEAN, head : {"source", "result"}]
    /\ origin \in Seq(Nat \X Nat \X Nat)
    /\ proc \in [Processes -> ProcStates]
    /\ \A p \in Processes :
          proc[p].at \in Asking => proc[p].req \in Requests /\ proc[p].req.step = proc[p].at
    /\ late \subseteq Requests /\ bound \in Nat /\ stopped \subseteq Nat \X Nat
    /\ spent \in [moves : 0..MaxMoves, stops : 0..MaxStops, upsets : 0..MaxUpsets]

\* A stop that was confirmed holds: whatever was late, lost or tried again, no
\* merge of the stopped cycle is on the target branch, before or after
\* (revoke_for_stop, and the host's checks of a step).
StopHolds ==
    \A c \in stopped : \A i \in DOMAIN origin : <<origin[i][1], origin[i][2]>> # c

\* The result of a turn is merged into the target branch once at most, however
\* often its push is repeated, re-driven or overtaken by the pushes of others
\* (observed_outcome, settle_target).
OneMergePerSource ==
    \A s \in 1..MaxTurns : Cardinality({i \in DOMAIN origin : origin[i][1] = s}) <= 1

\* The owner believes in a receipt only if the result of that very turn is on
\* the target branch, and calls a cycle integrated only when the task's branch
\* on the host carries the merge or a newer turn does (apply_response, finish_receipt).
IntegratedIsTrue ==
    /\ rec.receipt # "none" => Landed(rec.src)
    /\ rec.st = "integrated" => remote.turn > rec.src \/ remote.head = "result"

(* The host keeps another cycle that is not over there: see the README. *)
HostJammed == hostRec # NoCycle /\ ~OverOnHost /\ <<hostRec.src, hostRec.ep>> # Aim

\* A cycle comes to rest: integrated, revoked with its stop confirmed, or blocked
\* with no stop open, again and again, unless the host is left with a stop that
\* it acknowledged, took back and never heard of again (run, drive_once).
CycleSettles ==
    []<>(HostJammed \/ (rec.st \in Settled \cup {"blocked"} /\ rec.tomb # "asked"))
=============================================================================
