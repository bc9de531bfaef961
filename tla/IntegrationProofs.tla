------------------------- MODULE IntegrationProofs -------------------------
(***************************************************************************)
(* Proofs about Integration for every number of turns, epochs, candidates, *)
(* pushes of others, stops, lost answers and deaths.                       *)
(*                                                                         *)
(* The invariant says where the turns stand to one another (Turns), what a *)
(* process may conclude from its revision (Knows), what owner, processes   *)
(* and the confirmed stops believe of host and branch (Believes), and how  *)
(* the host's record bounds what is on the branch (Merges).  What is       *)
(* believed only ever becomes more true: the branch grows, turns go on, a  *)
(* stopped cycle stays over (Grows).  Every step is a move of the owner's  *)
(* side, of the host, or of the world around them.                         *)
(***************************************************************************)
EXTENDS Integration, FiniteSetTheorems, TLAPS

Phases == {"fetch", "push", "repair"}

\* No request is for a turn the host has not begun, nor is any record.
Turns ==
    /\ 1 <= rec.src /\ rec.src <= remote.turn /\ remote.turn <= own.turn
    /\ ~own.running => remote.turn = own.turn
    /\ hostRec.src <= remote.turn /\ proof.src <= remote.turn
    /\ \A m \in Outstanding : 1 <= m.src /\ m.src <= remote.turn

\* The task's branch on the host has the merge of turn s, or a newer turn's work.
Carries(s) == remote.turn > s \/ (remote.turn = s /\ remote.head = "result")

\* A merge of the cycle is on the target branch.
Merged(s, e) == \E i \in DOMAIN origin : origin[i][1] = s /\ origin[i][2] = e

\* The host will not push for the cycle any more.
Over(s, e) ==
    \/ remote.turn > s
    \/ proof.src = s /\ proof.ep >= e
    \/ hostRec.src = s /\ (hostRec.ep > e \/ (hostRec.ep = e /\ hostRec.tomb # "none"))

\* What an answer to a request promises.
Told(m, a) ==
    /\ a = "integrated" => Landed(m.src) /\ (m.step = "ack" => Carries(m.src))
    /\ a = "revoked" => Over(m.src, m.ep) /\ ~Merged(m.src, m.ep)

\* A process whose revision is current waits for an answer about the current cycle.
Knows ==
    \A p \in Processes :
        /\ proc[p].rev <= rec.rev
        /\ proc[p].at \in Asking /\ Current(p) =>
              proc[p].req.src = rec.src /\ proc[p].req.ep = rec.ep
        /\ proc[p].at \in Phases \cup {"begun"} /\ Current(p) => rec.st # "retry_wait"

Believes ==
    /\ rec.receipt # "none" => Landed(rec.src)
    /\ "integrated" \in {rec.st, rec.back} => Carries(rec.src)
    /\ \A p \in Processes : proc[p].at \in Asking => Told(proc[p].req, proc[p].answer)
    /\ \A p \in Processes : proc[p].at = "conclude" /\ Current(p) => Carries(rec.src)
    /\ \A c \in stopped : c[1] # 0 /\ Over(c[1], c[2]) /\ ~Merged(c[1], c[2])

Merges ==
    /\ \A i \in DOMAIN origin :
          \/ origin[i][1] = 0
          \/ origin[i][1] < hostRec.src
          \/ origin[i][1] = hostRec.src /\ origin[i][2] <= hostRec.ep
    /\ hostRec.src # 0 /\ Merged(hostRec.src, hostRec.ep) => hostRec.intent # "none"
    /\ hostRec.receipt # "none" => Landed(hostRec.src)
    /\ \A i, j \in DOMAIN origin : i # j /\ origin[i][1] # 0 => origin[i][1] # origin[j][1]

IntegrationInv == IntegrationTypeOK /\ Turns /\ Knows /\ Believes /\ Merges

-----------------------------------------------------------------------------
(* The parts a step is made of. *)

LEMMA RestTypes == ProcRest \in ProcStates
<1>1. /\ "idle" \in Places /\ "drive" \in {"drive", "given", "say", "redrive"}
      /\ <<0, 0>> \in Nat \X Nat /\ 0 \in Nat /\ <<>> \in Requests \cup {<<>>}
      /\ "none" \in Answers
  BY DEF Places, Answers
<1> HIDE DEF Places, Answers
<1> QED BY <1>1 DEF ProcRest, ProcStates

LEMMA CycleTypes ==
    ASSUME NEW s \in Nat, NEW e \in Nat, NEW r \in Nat
    PROVE  /\ Cycle(s, e, r) \in Records
           /\ Cycle(s, e, r).src = s /\ Cycle(s, e, r).ep = e
           /\ Cycle(s, e, r).receipt = "none" /\ Cycle(s, e, r).st = "pending"
           /\ Cycle(s, e, r).back = "none"
<1>1. NoTries \in [{"fetch", "push", "repair"} -> Nat]
  BY DEF NoTries
<1>2. "pending" \in States /\ "none" \in Stopping
      /\ "none" \in Receipt
  BY DEF States, Stopping, Receipt
<1> QED BY <1>1, <1>2 DEF Cycle, Records

\* The fields of a record that the argument is about.
LEMMA SaveFacts ==
    ASSUME rec \in Records, NEW r \in Records, Save(r)
    PROVE  /\ rec' \in Records /\ rec'.rev = rec.rev + 1
           /\ rec'.src = r.src /\ rec'.ep = r.ep /\ rec'.receipt = r.receipt
           /\ rec'.st = r.st /\ rec'.back = r.back
<1>1. rec.rev + 1 \in Nat
  BY DEF Records
<1> QED BY <1>1 DEF Save, Records

LEMMA GoFacts ==
    ASSUME proc \in [Processes -> ProcStates], rec'.rev \in Nat,
           NEW p \in Processes, NEW place \in Places, Go(p, place)
    PROVE  /\ proc' \in [Processes -> ProcStates]
           /\ \A q \in Processes : q # p => proc'[q] = proc[q]
           /\ proc'[p].at = place /\ proc'[p].rev = rec'.rev
  BY DEF Go, ProcStates

LEMMA LeaveFacts ==
    ASSUME proc \in [Processes -> ProcStates], NEW p \in Processes, Leave(p)
    PROVE  /\ proc' \in [Processes -> ProcStates]
           /\ \A q \in Processes : q # p => proc'[q] = proc[q]
           /\ proc'[p].at = "idle" /\ proc'[p].rev = 0
<1>1. ProcRest \in ProcStates
  BY RestTypes
<1>2. ProcRest.at = "idle" /\ ProcRest.rev = 0
  BY DEF ProcRest
<1> QED BY <1>1, <1>2 DEF Leave

LEMMA StopFacts ==
    ASSUME proc \in [Processes -> ProcStates], rec \in Records,
           NEW p \in Processes, NEW goal \in {"drive", "given", "say", "redrive"},
           StopIt(p, goal)
    PROVE  /\ proc' \in [Processes -> ProcStates]
           /\ \A q \in Processes : q # p => proc'[q] = proc[q]
           /\ proc'[p].at = "stop" /\ proc'[p].rev = 0
<1> DEFINE s == [ProcRest EXCEPT !.at = "stop", !.goal = goal, !.aim = Aim]
<1>1. Aim \in Nat \X Nat
  BY DEF Aim, Records
<1>2. "stop" \in Places
  BY DEF Places
<1>3. s \in ProcStates
  BY <1>1, <1>2, RestTypes DEF ProcStates
<1>4. s.at = "stop" /\ s.rev = 0
  BY DEF ProcRest
<1> HIDE DEF s
<1>5. proc' = [proc EXCEPT ![p] = s]
  BY DEF StopIt, s
<1> QED BY <1>3, <1>4, <1>5

LEMMA ReturnFacts ==
    ASSUME proc \in [Processes -> ProcStates], NEW p \in Processes, Return(p)
    PROVE  /\ proc' \in [Processes -> ProcStates]
           /\ \A q \in Processes : q # p => proc'[q] = proc[q]
           /\ proc'[p].at \in {"idle", "given", "say", "redrive"} /\ proc'[p].rev = 0
<1> DEFINE g == AfterStop(p)
<1> DEFINE s == IF g = "idle" THEN ProcRest ELSE [ProcRest EXCEPT !.at = g, !.goal = g]
<1>1. g \in {"idle", "given", "say", "redrive"}
  BY DEF AfterStop, ProcStates
<1>2. proc' = [proc EXCEPT ![p] = s]
  BY DEF Return
<1> HIDE DEF g
<1>3. g \in Places
  BY <1>1 DEF Places
<1>4. s \in ProcStates
  BY <1>1, <1>3, RestTypes DEF ProcStates
<1>5. s.at \in {"idle", "given", "say", "redrive"} /\ s.rev = 0
  BY <1>1 DEF ProcRest
<1> HIDE DEF s
<1> QED BY <1>2, <1>4, <1>5

LEMMA SendFacts ==
    ASSUME proc \in [Processes -> ProcStates], rec' \in Records,
           NEW p \in Processes, NEW step \in Asking, NEW imported \in BOOLEAN,
           Send(p, step, imported)
    PROVE  /\ proc' \in [Processes -> ProcStates]
           /\ \A q \in Processes : q # p => proc'[q] = proc[q]
           /\ proc'[p].at = step /\ proc'[p].rev = rec'.rev /\ proc'[p].answer = "none"
           /\ proc'[p].req \in Requests /\ proc'[p].req.step = step
           /\ proc'[p].req.src = rec'.src /\ proc'[p].req.ep = rec'.ep
<1> DEFINE r == Request(step, imported)
<1>1. r \in Requests /\ r.step = step /\ r.src = rec'.src /\ r.ep = rec'.ep
  BY DEF Request, Requests, Records
<1>2. proc' = [proc EXCEPT ![p].at = step, ![p].rev = rec'.rev, ![p].answer = "none",
                           ![p].req = r]
  BY DEF Send
<1> HIDE DEF r
<1>3. step \in Places /\ rec'.rev \in Nat /\ "none" \in Answers
  BY DEF Places, Records, Answers
<1> DEFINE s == [proc[p] EXCEPT !.at = step, !.rev = rec'.rev, !.answer = "none", !.req = r]
<1>4. s \in ProcStates
  BY <1>1, <1>3 DEF ProcStates
<1>5. s.at = step /\ s.rev = rec'.rev /\ s.answer = "none" /\ s.req = r
  BY DEF ProcStates
<1>6. proc' = [proc EXCEPT ![p] = s]
  BY <1>2
<1> HIDE DEF s
<1>7. proc' \in [Processes -> ProcStates] /\ proc'[p] = s
      /\ \A q \in Processes : q # p => proc'[q] = proc[q]
  BY <1>4, <1>6
<1> QED BY <1>1, <1>5, <1>7

LEMMA AppliedFacts ==
    ASSUME NEW r \in Records, r.st # "retry_wait", NEW phase \in Phases, NEW answer,
           NEW n \in Nat
    PROVE  LET a == Applied(r, phase, answer, n) IN
           /\ a \in Records /\ a.src = r.src /\ a.ep = r.ep
           /\ a.st # "integrated" /\ a.back \in {r.back, r.st, "none", "fetching"}
           /\ a.st = "retry_wait" => a.back # "none"
           /\ a.receipt = r.receipt \/ answer = "integrated"
<1>0. /\ {"ready", "published", "blocked", "fetching", "retry_wait"} \subseteq States
      /\ "fetching" \in States \ {"retry_wait"} /\ "none" \notin States /\ "got" \in Receipt
  BY DEF States, Receipt
<1> HIDE DEF States, Receipt
<1>1. NoTries \in [Phases -> Nat]
  BY DEF NoTries, Phases
<1>2. CASE answer = "ready"
  <2> DEFINE a == [r EXCEPT !.st = "ready", !.attempts = n,
                            !.tries = IF n > r.attempts THEN NoTries ELSE @]
  <2>1. Applied(r, phase, answer, n) = a
    BY <1>2 DEF Applied
  <2>2. (IF n > r.attempts THEN NoTries ELSE r.tries) \in [Phases -> Nat]
    BY <1>1 DEF Records, Phases
  <2>3. a \in Records /\ a.src = r.src /\ a.ep = r.ep /\ a.st = "ready" /\ a.back = r.back
        /\ a.receipt = r.receipt
    BY <1>0, <2>2 DEF Records, Phases
  <2> QED BY <2>1, <2>3
<1>3. CASE answer = "integrated"
  <2> DEFINE a == [r EXCEPT !.st = "published", !.receipt = IF @ = "none" THEN "got" ELSE @]
  <2>1. Applied(r, phase, answer, n) = a
    BY <1>3 DEF Applied
  <2>2. a \in Records /\ a.src = r.src /\ a.ep = r.ep /\ a.st = "published" /\ a.back = r.back
    BY <1>0 DEF Records
  <2> QED BY <1>3, <2>1, <2>2
<1>4. CASE answer = "moved"
  <2> DEFINE a == [r EXCEPT !.st = "fetching", !.attempts = @ + 1, !.tries = NoTries]
  <2> DEFINE b == [r EXCEPT !.st = "blocked"]
  <2>1. Applied(r, phase, answer, n) = a \/ Applied(r, phase, answer, n) = b
    BY <1>4 DEF Applied
  <2>2. r.attempts + 1 \in Nat
    BY DEF Records
  <2>3. a \in Records /\ a.src = r.src /\ a.ep = r.ep /\ a.st = "fetching" /\ a.back = r.back
        /\ a.receipt = r.receipt
    BY <1>0, <1>1, <2>2 DEF Records, Phases
  <2>4. b \in Records /\ b.src = r.src /\ b.ep = r.ep /\ b.st = "blocked" /\ b.back = r.back
        /\ b.receipt = r.receipt
    BY <1>0 DEF Records
  <2> QED BY <2>1, <2>3, <2>4
<1>5. CASE answer \notin {"ready", "integrated", "moved"}
  <2> DEFINE a == [r EXCEPT !.tries[phase] = @ + 1,
                            !.back = IF phase = "push" THEN "fetching" ELSE r.st,
                            !.st = "retry_wait"]
  <2> DEFINE b == [r EXCEPT !.st = "blocked", !.back = "none"]
  <2>1. Applied(r, phase, answer, n) = Retried(r, phase, answer)
    BY <1>5 DEF Applied
  <2>2. Retried(r, phase, answer) = a \/ Retried(r, phase, answer) = b
    BY DEF Retried
  <2>3. r.tries \in [Phases -> Nat] /\ r.tries[phase] + 1 \in Nat
    BY DEF Records, Phases
  <2>4. [r.tries EXCEPT ![phase] = @ + 1] \in [Phases -> Nat]
    BY <2>3
  <2>5. (IF phase = "push" THEN "fetching" ELSE r.st) \in States \ {"retry_wait"}
    BY <1>0 DEF Records
  <2>6. a \in Records /\ a.src = r.src /\ a.ep = r.ep /\ a.st = "retry_wait"
        /\ a.back = (IF phase = "push" THEN "fetching" ELSE r.st) /\ a.receipt = r.receipt
    BY <1>0, <2>4, <2>5 DEF Records, Phases
  <2>7. b \in Records /\ b.src = r.src /\ b.ep = r.ep /\ b.st = "blocked" /\ b.back = "none"
        /\ b.receipt = r.receipt
    BY <1>0 DEF Records
  <2>8. a.back # "none" /\ a.back \in {r.st, "fetching"}
    BY <1>0, <2>5, <2>6
  <2> HIDE DEF a, b
  <2> QED BY <2>1, <2>2, <2>6, <2>7, <2>8
<1> QED BY <1>2, <1>3, <1>4, <1>5

-----------------------------------------------------------------------------
(* A move of the owner's side: nothing on the host or at origin changes, the
   record is kept or takes its next revision, and one process moves. *)

\* The record moves, and believes what it may.
OwnerRec ==
    /\ rec' \in Records /\ (rec' = rec \/ rec'.rev = rec.rev + 1)
    /\ rec'.st = "retry_wait" => rec'.back # "none"
    /\ rec'.src = rec.src \/ (rec'.src = own.turn /\ ~own.running)
    /\ rec'.receipt # "none" => Landed(rec'.src)
    /\ "integrated" \in {rec'.st, rec'.back} => Carries(rec'.src)

\* The process stays, goes where nobody is asked, asks about the record as it
\* is now, or gives up waiting.
OwnerProc(p) ==
    /\ proc' \in [Processes -> ProcStates]
    /\ \A q \in Processes : q # p => proc'[q] = proc[q]
    /\ \/ proc'[p] = proc[p]
       \/ /\ proc'[p].at \notin Asking /\ proc'[p].rev <= rec'.rev
          /\ proc'[p].at = "conclude" => Carries(rec'.src)
          /\ proc'[p].at = "begun" => rec'.st # "retry_wait"
       \/ /\ proc'[p].at \in Asking /\ proc'[p].rev = rec'.rev /\ proc'[p].answer = "none"
          /\ proc'[p].req \in Requests /\ proc'[p].req.step = proc'[p].at
          /\ proc'[p].req.src = rec'.src /\ proc'[p].req.ep = rec'.ep
          /\ proc'[p].at \in Phases => rec'.st # "retry_wait"
       \/ /\ rec' = rec /\ proc[p].at \in Asking
          /\ proc'[p] = [proc[p] EXCEPT !.answer = "network"]

\* A stop is confirmed only of a cycle that is over and was never merged.
OwnerRest ==
    /\ own' \in [turn : Nat, running : BOOLEAN]
    /\ own' = own \/ (own'.running /\ own'.turn >= own.turn)
    /\ late' \subseteq Outstanding
    /\ bound' \in Nat
    /\ spent' \in [moves : 0..MaxMoves, stops : 0..MaxStops, upsets : 0..MaxUpsets]
    /\ stopped' \subseteq Nat \X Nat
    /\ \A c \in stopped' : c \in stopped \/ (c[1] # 0 /\ Over(c[1], c[2]) /\ ~Merged(c[1], c[2]))

OwnerMove(p) ==
    /\ UNCHANGED <<hostRec, proof, remote, origin>>
    /\ OwnerRec /\ OwnerProc(p) /\ OwnerRest

LEMMA RecKept ==
    ASSUME IntegrationInv, rec' = rec
    PROVE  OwnerRec
<1>1. rec \in Records /\ Believes /\ (rec.st = "retry_wait" => rec.back # "none")
  BY DEF IntegrationInv, IntegrationTypeOK
<1> QED BY <1>1 DEF OwnerRec, Believes

LEMMA RecSaved ==
    ASSUME IntegrationInv, NEW r \in Records, Save(r),
           r.st = "retry_wait" => r.back # "none",
           r.src = rec.src \/ (r.src = own.turn /\ ~own.running),
           r.receipt # "none" => Landed(r.src),
           "integrated" \in {r.st, r.back} => Carries(r.src)
    PROVE  /\ OwnerRec /\ rec'.rev = rec.rev + 1 /\ rec'.src = r.src /\ rec'.ep = r.ep
           /\ rec'.st = r.st
<1>1. rec \in Records
  BY DEF IntegrationInv, IntegrationTypeOK
<1>2. /\ rec' \in Records /\ rec'.rev = rec.rev + 1
      /\ rec'.src = r.src /\ rec'.ep = r.ep /\ rec'.receipt = r.receipt
      /\ rec'.st = r.st /\ rec'.back = r.back
  BY <1>1, SaveFacts
<1> QED BY <1>2 DEF OwnerRec

LEMMA ProcKept ==
    ASSUME IntegrationInv, NEW p \in Processes, proc' = proc
    PROVE  OwnerProc(p)
  BY DEF OwnerProc, IntegrationInv, IntegrationTypeOK

LEMMA ProcLeft ==
    ASSUME IntegrationInv, OwnerRec, NEW p \in Processes, Leave(p)
    PROVE  OwnerProc(p)
<1>1. proc \in [Processes -> ProcStates] /\ rec'.rev \in Nat
  BY DEF IntegrationInv, IntegrationTypeOK, OwnerRec, Records
<1>2. /\ proc' \in [Processes -> ProcStates]
      /\ \A q \in Processes : q # p => proc'[q] = proc[q]
      /\ proc'[p].at = "idle" /\ proc'[p].rev = 0
  BY <1>1, LeaveFacts
<1> QED BY <1>1, <1>2 DEF OwnerProc, Asking

LEMMA ProcStops ==
    ASSUME IntegrationInv, OwnerRec, NEW p \in Processes,
           NEW goal \in {"drive", "given", "say", "redrive"}, StopIt(p, goal)
    PROVE  OwnerProc(p)
<1>1. proc \in [Processes -> ProcStates] /\ rec \in Records /\ rec'.rev \in Nat
  BY DEF IntegrationInv, IntegrationTypeOK, OwnerRec, Records
<1>2. /\ proc' \in [Processes -> ProcStates]
      /\ \A q \in Processes : q # p => proc'[q] = proc[q]
      /\ proc'[p].at = "stop" /\ proc'[p].rev = 0
  BY <1>1, StopFacts
<1> QED BY <1>1, <1>2 DEF OwnerProc, Asking

LEMMA ProcReturns ==
    ASSUME IntegrationInv, OwnerRec, NEW p \in Processes, Return(p)
    PROVE  OwnerProc(p)
<1>1. proc \in [Processes -> ProcStates] /\ rec'.rev \in Nat
  BY DEF IntegrationInv, IntegrationTypeOK, OwnerRec, Records
<1>2. /\ proc' \in [Processes -> ProcStates]
      /\ \A q \in Processes : q # p => proc'[q] = proc[q]
      /\ proc'[p].at \in {"idle", "given", "say", "redrive"} /\ proc'[p].rev = 0
  BY <1>1, ReturnFacts
<1> QED BY <1>1, <1>2 DEF OwnerProc, Asking

LEMMA ProcGoes ==
    ASSUME IntegrationInv, OwnerRec, NEW p \in Processes, NEW place \in Places \ Asking,
           Go(p, place), place = "conclude" => Carries(rec'.src),
           place = "begun" => rec'.st # "retry_wait"
    PROVE  OwnerProc(p)
<1>1. proc \in [Processes -> ProcStates] /\ rec'.rev \in Nat
  BY DEF IntegrationInv, IntegrationTypeOK, OwnerRec, Records
<1>2. /\ proc' \in [Processes -> ProcStates]
      /\ \A q \in Processes : q # p => proc'[q] = proc[q]
      /\ proc'[p].at = place /\ proc'[p].rev = rec'.rev
  BY <1>1, GoFacts
<1> QED BY <1>1, <1>2 DEF OwnerProc

LEMMA ProcSends ==
    ASSUME IntegrationInv, OwnerRec, NEW p \in Processes, NEW step \in Asking,
           NEW imported \in BOOLEAN, Send(p, step, imported),
           step \in Phases => rec'.st # "retry_wait"
    PROVE  OwnerProc(p)
<1>1. proc \in [Processes -> ProcStates] /\ rec' \in Records
  BY DEF IntegrationInv, IntegrationTypeOK, OwnerRec
<1>2. /\ proc' \in [Processes -> ProcStates]
      /\ \A q \in Processes : q # p => proc'[q] = proc[q]
      /\ proc'[p].at = step /\ proc'[p].rev = rec'.rev /\ proc'[p].answer = "none"
      /\ proc'[p].req \in Requests /\ proc'[p].req.step = step
      /\ proc'[p].req.src = rec'.src /\ proc'[p].req.ep = rec'.ep
  BY <1>1, SendFacts
<1> QED BY <1>2 DEF OwnerProc

LEMMA RestKept ==
    ASSUME IntegrationInv, UNCHANGED <<own, late, bound, stopped, spent>>
    PROVE  OwnerRest
<1>1. late \subseteq Outstanding
  BY DEF Outstanding
<1> QED BY <1>1 DEF OwnerRest, IntegrationInv, IntegrationTypeOK

\* Steps of the driver that ask for nothing.
LEMMA DriverSteps ==
    ASSUME IntegrationInv, NEW p \in Processes,
           DriveStop(p) \/ DriveResume(p) \/ BeginPhase(p) \/ SendPhase(p) \/ FinishMoved(p)
    PROVE  OwnerMove(p)
<1>0. rec \in Records /\ Believes /\ (rec.st = "retry_wait" => rec.back # "none")
  BY DEF IntegrationInv, IntegrationTypeOK
<1>1. CASE DriveStop(p)
  <2>1. OwnerRec
    BY <1>1, RecKept DEF DriveStop
  <2>2. OwnerProc(p)
    BY <1>1, <2>1, ProcStops DEF DriveStop
  <2> QED BY <1>1, <2>1, <2>2, RestKept DEF DriveStop, OwnerMove
<1>2. CASE DriveResume(p)
  <2> DEFINE r == [rec EXCEPT !.st = rec.back, !.back = "none"]
  <2>1. Save(r) /\ proc' = proc /\ rec.back \in States
        /\ UNCHANGED <<hostRec, proof, own, remote, origin, late, bound, stopped, spent>>
    BY <1>0, <1>2 DEF DriveResume, Records
  <2>2. /\ r \in Records /\ r.src = rec.src /\ r.receipt = rec.receipt /\ r.back = "none"
        /\ r.st = rec.back
    BY <1>0, <2>1 DEF Records
  <2>3. r.st # "retry_wait"
    BY <1>0, <2>2 DEF Records
  <2> HIDE DEF r
  <2>4. OwnerRec
    BY <1>0, <2>1, <2>2, <2>3, RecSaved DEF Believes
  <2>5. OwnerProc(p)
    BY <2>1, ProcKept
  <2> QED BY <2>1, <2>4, <2>5, RestKept DEF OwnerMove
<1>3. CASE BeginPhase(p)
  <2> DEFINE r == [rec EXCEPT
              !.st = CASE NextPhase(rec) = "fetch" -> "fetching" [] NextPhase(rec) = "push" -> "pushing"
                       [] OTHER -> @,
              !.attempts = IF NextPhase(rec) = "fetch" /\ @ = 0 THEN 1 ELSE @]
  <2>1. Save(r) /\ Go(p, "begun") /\ UNCHANGED <<hostRec, proof, own, remote, origin, late, bound, stopped, spent>>
    BY <1>3 DEF BeginPhase
  <2>2. rec.st \notin {"integrated", "revoked", "blocked", "retry_wait"}
    BY <1>3 DEF BeginPhase, Settled
  <2>3. /\ r \in Records /\ r.src = rec.src /\ r.receipt = rec.receipt /\ r.back = rec.back
        /\ r.st \notin {"integrated", "retry_wait"}
    BY <1>0, <2>2 DEF Records, States
  <2> HIDE DEF r
  <2>4. OwnerRec /\ rec'.st = r.st
    BY <1>0, <2>1, <2>3, RecSaved DEF Believes
  <2>5. OwnerProc(p)
    BY <2>1, <2>3, <2>4, ProcGoes DEF Places, Asking
  <2> QED BY <2>1, <2>4, <2>5, RestKept DEF OwnerMove
<1>4. CASE SendPhase(p)
  <2>1. OwnerRec
    BY <1>4, RecKept DEF SendPhase
  <2>2. BegunPhase \in Asking
    BY DEF BegunPhase, Asking
  <2>3. CASE Current(p) /\ SourceCurrent
    <3>1. Send(p, BegunPhase, FALSE) /\ proc[p].at = "begun" /\ rec' = rec
      BY <1>4, <2>3 DEF SendPhase, IsAt
    <3>2. rec.st # "retry_wait"
      BY <2>3, <3>1 DEF IntegrationInv, Knows
    <3> QED BY <1>4, <2>1, <2>2, <3>1, <3>2, ProcSends, RestKept DEF SendPhase, OwnerMove
  <2>4. CASE ~(Current(p) /\ SourceCurrent)
    <3>1. OwnerProc(p)
      BY <1>4, <2>1, <2>4, ProcStops, ProcLeft DEF SendPhase
    <3> QED BY <1>4, <2>1, <3>1, RestKept DEF SendPhase, OwnerMove
  <2> QED BY <2>3, <2>4
<1>5. CASE FinishMoved(p)
  <2>1. OwnerRec
    BY <1>5, RecKept DEF FinishMoved
  <2>2. OwnerProc(p)
    BY <1>5, <2>1, ProcLeft DEF FinishMoved
  <2> QED BY <1>5, <2>1, <2>2, RestKept DEF FinishMoved, OwnerMove
<1> QED BY <1>1, <1>2, <1>3, <1>4, <1>5

\* The answer to a phase is applied to the record it was asked for.
LEMMA AnswerSteps ==
    ASSUME IntegrationInv, NEW p \in Processes,
           ApplyAnswer(p) \/ ImportReceipt(p) \/ SaveImport(p) \/ Conclude(p)
    PROVE  OwnerMove(p)
<1>0. rec \in Records /\ Believes /\ Knows /\ (rec.st = "retry_wait" => rec.back # "none")
      /\ proc \in [Processes -> ProcStates]
  BY DEF IntegrationInv, IntegrationTypeOK
<1>1. CASE ApplyAnswer(p)
  <2>1. proc[p].at \in Phases /\ proc[p].at \in Asking /\ proc[p].n \in Nat
        /\ UNCHANGED <<hostRec, proof, own, remote, origin, late, bound, stopped, spent>>
    BY <1>0, <1>1 DEF ApplyAnswer, Phases, Asking, ProcStates
  <2>2. CASE ~Current(p)
    <3>1. OwnerRec /\ Leave(p)
      BY <1>1, <2>2, RecKept DEF ApplyAnswer
    <3> QED BY <2>1, <3>1, ProcLeft, RestKept DEF OwnerMove
  <2>3. CASE Current(p)
    <3>1. rec.st # "retry_wait" /\ proc[p].req.src = rec.src
          /\ Told(proc[p].req, proc[p].answer)
      BY <1>0, <2>1, <2>3 DEF Knows, Believes
    <3> DEFINE r == Applied(rec, proc[p].at, proc[p].answer, proc[p].n)
    <3>2. /\ Save(r)
          /\ IF proc[p].at = "repair" /\ r.st = "published" THEN Go(p, "import") ELSE Leave(p)
      BY <1>1, <2>3 DEF ApplyAnswer
    <3>3. /\ r \in Records /\ r.src = rec.src
          /\ r.st # "integrated" /\ r.back \in {rec.back, rec.st, "none", "fetching"}
          /\ r.st = "retry_wait" => r.back # "none"
          /\ r.receipt = rec.receipt \/ proc[p].answer = "integrated"
      BY <1>0, <2>1, <3>1, AppliedFacts
    <3> HIDE DEF r
    <3>4. r.receipt # "none" => Landed(r.src)
      BY <1>0, <3>1, <3>3 DEF Believes, Told
    <3>5. "integrated" \in {r.st, r.back} => Carries(r.src)
      BY <1>0, <3>3 DEF Believes
    <3>6. OwnerRec
      BY <3>2, <3>3, <3>4, <3>5, RecSaved
    <3>7. "import" \in Places \ Asking
      BY DEF Places, Asking
    <3>8. OwnerProc(p)
      BY <3>2, <3>6, <3>7, ProcGoes, ProcLeft
    <3> QED BY <2>1, <3>6, <3>8, RestKept DEF OwnerMove
  <2> QED BY <2>2, <2>3
<1>2. CASE ImportReceipt(p)
  <2>1. UNCHANGED <<hostRec, proof, own, remote, origin, late, bound, stopped, spent>>
    BY <1>2 DEF ImportReceipt
  <2>2. CASE Leave(p) /\ rec' = rec
    BY <2>1, <2>2, RecKept, ProcLeft, RestKept DEF OwnerMove
  <2>3. CASE Save(rec) /\ Send(p, "ack", TRUE)
    <3>1. OwnerRec
      BY <1>0, <2>3, RecSaved DEF Believes
    <3>2. OwnerProc(p)
      BY <2>3, <3>1, ProcSends DEF Asking, Phases
    <3> QED BY <2>1, <3>1, <3>2, RestKept DEF OwnerMove
  <2> QED BY <1>2, <2>2, <2>3 DEF ImportReceipt
<1>3. CASE SaveImport(p)
  <2>1. UNCHANGED <<hostRec, proof, own, remote, origin, late, bound, stopped, spent>>
    BY <1>3 DEF SaveImport
  <2>2. CASE Leave(p) /\ rec' = rec
    BY <2>1, <2>2, RecKept, ProcLeft, RestKept DEF OwnerMove
  <2>3. CASE ~(Leave(p) /\ rec' = rec)
    <3> DEFINE r == [rec EXCEPT !.receipt = "imported"]
    <3>1. /\ proc[p].at = "ack" /\ proc[p].answer = "integrated" /\ Current(p)
          /\ Save(r) /\ Go(p, "conclude")
      BY <1>3, <2>3 DEF SaveImport, IsAt
    <3>2. proc[p].at \in Asking
      BY <3>1 DEF Asking
    <3>3. Told(proc[p].req, proc[p].answer) /\ proc[p].req.src = rec.src
          /\ proc[p].req.step = "ack"
      BY <1>0, <3>1, <3>2 DEF Knows, Believes, IntegrationInv, IntegrationTypeOK
    <3>4. Landed(rec.src) /\ Carries(rec.src)
      BY <3>1, <3>3 DEF Told
    <3>5. "imported" \in Receipt
      BY DEF Receipt
    <3>6. r \in Records /\ r.src = rec.src /\ r.st = rec.st /\ r.back = rec.back
      BY <1>0, <3>5 DEF Records
    <3> HIDE DEF r
    <3>7. OwnerRec /\ rec'.src = rec.src
      BY <1>0, <3>1, <3>4, <3>6, RecSaved
    <3>8. "conclude" \in Places \ Asking
      BY DEF Places, Asking
    <3>9. OwnerProc(p)
      BY <3>1, <3>4, <3>7, <3>8, ProcGoes
    <3> QED BY <2>1, <3>7, <3>9, RestKept DEF OwnerMove
  <2> QED BY <2>2, <2>3
<1>4. CASE Conclude(p)
  <2>1. Leave(p) /\ proc[p].at = "conclude"
        /\ UNCHANGED <<hostRec, proof, own, remote, origin, late, bound, stopped, spent>>
    BY <1>4 DEF Conclude, IsAt
  <2>2. OwnerRec
    <3>1. CASE rec' = rec
      BY <3>1, RecKept
    <3>2. CASE rec' # rec
      <4> DEFINE r == [rec EXCEPT !.st = "integrated", !.back = "none"]
      <4>1. Save(r) /\ Current(p)
        BY <1>4, <3>2 DEF Conclude
      <4>2. Carries(rec.src)
        BY <1>0, <2>1, <4>1 DEF Believes
      <4>3. "integrated" \in States
        BY DEF States
      <4>4. r \in Records /\ r.src = rec.src /\ r.receipt = rec.receipt /\ r.st = "integrated"
        BY <1>0, <4>3 DEF Records
      <4> HIDE DEF r
      <4> QED BY <1>0, <4>1, <4>2, <4>4, RecSaved DEF Believes
    <3> QED BY <3>1, <3>2
  <2> QED BY <2>1, <2>2, ProcLeft, RestKept DEF OwnerMove
<1> QED BY <1>1, <1>2, <1>3, <1>4

\* The stop: asked for, answered, confirmed.
LEMMA StopSteps ==
    ASSUME IntegrationInv, NEW p \in Processes, RevokeAsk(p) \/ RevokeDone(p)
    PROVE  OwnerMove(p)
<1>0. rec \in Records /\ Believes /\ Knows /\ (rec.st = "retry_wait" => rec.back # "none")
      /\ proc \in [Processes -> ProcStates] /\ Turns
  BY DEF IntegrationInv, IntegrationTypeOK
<1>a. "finish" \in Places \ Asking /\ "stop" \in Places \ Asking /\ "revoke" \in Asking \ Phases
  BY DEF Places, Asking, Phases
<1>b. {"asked", "acked", "none"} \subseteq Stopping /\ {"published", "revoked"} \subseteq States
      /\ "got" \in Receipt
  BY DEF Stopping, States, Receipt
<1>1. CASE RevokeAsk(p)
  <2>1. UNCHANGED <<hostRec, proof, own, remote, origin, late, bound, stopped, spent>>
    BY <1>1 DEF RevokeAsk
  <2>2. OwnerRec
    <3>1. CASE rec' = rec
      BY <3>1, RecKept
    <3>2. CASE rec' # rec
      <4> DEFINE r == [rec EXCEPT !.tomb = "asked", !.tombRev = rec.rev + 1]
      <4>1. Save(r)
        BY <1>1, <3>2 DEF RevokeAsk
      <4>2. rec.rev + 1 \in Nat
        BY <1>0 DEF Records
      <4>3. r \in Records /\ r.src = rec.src /\ r.receipt = rec.receipt /\ r.st = rec.st
            /\ r.back = rec.back
        BY <1>0, <1>b, <4>2 DEF Records
      <4> HIDE DEF r
      <4> QED BY <1>0, <4>1, <4>3, RecSaved DEF Believes
    <3> QED BY <3>1, <3>2
  <2>3. Leave(p) \/ Go(p, "finish") \/ Return(p) \/ Send(p, "revoke", FALSE)
    BY <1>1 DEF RevokeAsk
  <2>4. OwnerProc(p)
    BY <1>a, <2>2, <2>3, ProcLeft, ProcGoes, ProcReturns, ProcSends
  <2> QED BY <2>1, <2>2, <2>4, RestKept DEF OwnerMove
<1>2. CASE RevokeDone(p)
  <2>1. UNCHANGED <<hostRec, proof, own, remote, origin, late, bound, spent>>
        /\ proc[p].at = "revoke"
    BY <1>2 DEF RevokeDone, IsAt
  <2>2. proc[p].req \in Requests /\ Told(proc[p].req, proc[p].answer)
        /\ (Current(p) => proc[p].req.src = rec.src)
    BY <1>0, <1>a, <2>1 DEF Knows, Believes, IntegrationInv, IntegrationTypeOK
  <2> DEFINE confirmed == [Revoked(rec) EXCEPT !.tomb = "acked"]
  <2> DEFINE got == [rec EXCEPT !.tomb = "acked", !.receipt = "got", !.st = "published"]
  <2> DEFINE retired == [Revoked(rec) EXCEPT !.tomb = "none"]
  <2>3. /\ confirmed \in Records /\ confirmed.src = rec.src /\ confirmed.receipt = rec.receipt
        /\ confirmed.st = "revoked" /\ confirmed.back = "none"
    BY <1>0, <1>b DEF Revoked, Records
  <2>4. /\ got \in Records /\ got.src = rec.src /\ got.st = "published"
        /\ got.back = rec.back
    BY <1>0, <1>b DEF Records
  <2>5. /\ Revoked(got) \in Records /\ Revoked(got).src = rec.src
        /\ Revoked(got).st = "revoked" /\ Revoked(got).back = "none"
    BY <1>0, <1>b DEF Revoked, Records
  <2>6. /\ retired \in Records /\ retired.src = rec.src /\ retired.receipt = rec.receipt
        /\ retired.st = "revoked" /\ retired.back = "none"
    BY <1>0, <1>b DEF Revoked, Records
  <2> HIDE DEF confirmed, got, retired
  <2>7. CASE /\ Confirmed(p) /\ SameStop(p) /\ Return(p)
             /\ rec' = rec \/ Save(confirmed)
             /\ stopped' = stopped \cup {<<rec.src, rec.ep>>}
    <3>1. OwnerRec
      BY <1>0, <2>3, <2>7, RecKept, RecSaved DEF Believes
    <3>2. proc[p].req.src = rec.src /\ proc[p].req.ep = rec.ep
      BY <2>7 DEF SameStop
    <3>3. Over(rec.src, rec.ep) /\ ~Merged(rec.src, rec.ep) /\ rec.src # 0
      BY <1>0, <2>2, <2>7, <3>2 DEF Confirmed, Told, Turns
    <3>4. rec.src \in Nat /\ rec.ep \in Nat
      BY <1>0 DEF Records
    <3>5. late \subseteq Outstanding
      BY DEF Outstanding
    <3>6. OwnerRest
      BY <2>1, <2>7, <3>3, <3>4, <3>5 DEF OwnerRest, IntegrationInv, IntegrationTypeOK
    <3> QED BY <2>1, <2>7, <3>1, <3>6, ProcReturns DEF OwnerMove
  <2>8. CASE /\ proc[p].answer = "integrated" /\ Current(p) /\ UNCHANGED stopped
             /\ (Save(got) /\ Go(p, "finish")) \/ (Save(Revoked(got)) /\ Return(p))
    <3>1. Landed(rec.src)
      BY <2>2, <2>8 DEF Told
    <3>2. OwnerRec
      BY <1>0, <2>4, <2>5, <2>8, <3>1, RecSaved DEF Believes
    <3>3. OwnerProc(p)
      BY <1>a, <2>8, <3>2, ProcGoes, ProcReturns
    <3> QED BY <2>1, <2>8, <3>2, <3>3, RestKept DEF OwnerMove
  <2>9. CASE Save(retired) /\ UNCHANGED stopped /\ Return(p)
    <3>1. OwnerRec
      BY <1>0, <2>6, <2>9, RecSaved DEF Believes
    <3> QED BY <2>1, <2>9, <3>1, ProcReturns, RestKept DEF OwnerMove
  <2>10. CASE proc' = [proc EXCEPT ![p].at = "stop"] /\ UNCHANGED <<rec, stopped>>
    <3>1. OwnerRec
      BY <2>10, RecKept
    <3>2. proc' = [proc EXCEPT ![p] = [proc[p] EXCEPT !.at = "stop"]]
      BY <2>10
    <3>3. /\ [proc[p] EXCEPT !.at = "stop"] \in ProcStates
          /\ [proc[p] EXCEPT !.at = "stop"].at = "stop"
          /\ [proc[p] EXCEPT !.at = "stop"].rev = proc[p].rev
      BY <1>0, <1>a DEF ProcStates
    <3>4. /\ proc' \in [Processes -> ProcStates]
          /\ \A q \in Processes : q # p => proc'[q] = proc[q]
          /\ proc'[p].at = "stop" /\ proc'[p].rev = proc[p].rev
      BY <1>0, <3>2, <3>3
    <3>5. proc[p].rev <= rec'.rev
      BY <1>0, <2>10 DEF Knows
    <3>6. OwnerProc(p)
      BY <1>a, <3>4, <3>5 DEF OwnerProc
    <3> QED BY <2>1, <2>10, <3>1, <3>6, RestKept DEF OwnerMove
  <2>11. CASE Leave(p) /\ UNCHANGED <<rec, stopped>>
    <3>1. OwnerRec
      BY <2>11, RecKept
    <3> QED BY <2>1, <2>11, <3>1, ProcLeft, RestKept DEF OwnerMove
  <2>12. QED
    BY <1>2, <2>7, <2>8, <2>9, <2>10, <2>11 DEF RevokeDone, confirmed, got, retired
<1> QED BY <1>1, <1>2

\* The operator's commands, and the cycle that a finished turn begins.
LEMMA OperatorSteps ==
    ASSUME IntegrationInv,
           Cancel \/ MarkGivenUp \/ Say \/ AppendTurn \/ Redrive \/ NextEpoch \/ Stage
    PROVE  OwnerMove(Operator)
<1> DEFINE p == Operator
<1>0. rec \in Records /\ Believes /\ Knows /\ (rec.st = "retry_wait" => rec.back # "none")
      /\ proc \in [Processes -> ProcStates] /\ Turns /\ p \in Processes
      /\ own \in [turn : Nat, running : BOOLEAN]
  BY DEF IntegrationInv, IntegrationTypeOK, Processes
<1>a. rec.rev \in Nat /\ rec.src \in Nat /\ rec.ep \in Nat /\ rec.ep + 1 \in Nat
  BY <1>0 DEF Records
<1>b. late \subseteq Outstanding
  BY DEF Outstanding
<1>c. spent \in [moves : 0..MaxMoves, stops : 0..MaxStops, upsets : 0..MaxUpsets]
      /\ bound \in Nat /\ stopped \subseteq Nat \X Nat
  BY DEF IntegrationInv, IntegrationTypeOK
<1>d. \A place \in {"say", "redrive"} :
         proc' \in {[proc EXCEPT ![p].at = place], [proc EXCEPT ![p].at = place, ![p].goal = place]}
         /\ rec' = rec => OwnerProc(p)
  <2> SUFFICES ASSUME NEW place \in {"say", "redrive"}, rec' = rec,
                      proc' \in {[proc EXCEPT ![p].at = place],
                                 [proc EXCEPT ![p].at = place, ![p].goal = place]}
               PROVE  OwnerProc(p)
    OBVIOUS
  <2>1. place \in Places \ Asking /\ place \in {"drive", "given", "say", "redrive"}
    BY DEF Places, Asking
  <2>a. proc[p] \in ProcStates
    BY <1>0
  <2> HIDE DEF p
  <2> DEFINE s == [proc[p] EXCEPT !.at = place]
  <2> DEFINE t == [proc[p] EXCEPT !.at = place, !.goal = place]
  <2>2. proc' = [proc EXCEPT ![p] = s] \/ proc' = [proc EXCEPT ![p] = t]
    OBVIOUS
  <2>3. s \in ProcStates /\ s.at = place /\ s.rev = proc[p].rev
    BY <2>1, <2>a DEF ProcStates
  <2>4. t \in ProcStates /\ t.at = place /\ t.rev = proc[p].rev
    BY <2>1, <2>a DEF ProcStates
  <2> HIDE DEF s, t
  <2>5. /\ proc' \in [Processes -> ProcStates]
        /\ \A q \in Processes : q # p => proc'[q] = proc[q]
        /\ proc'[p].at = place /\ proc'[p].rev = proc[p].rev
    BY <1>0, <2>2, <2>3, <2>4
  <2>6. proc[p].rev <= rec'.rev
    BY <1>0 DEF Knows
  <2> HIDE DEF p
  <2> QED BY <2>1, <2>5, <2>6 DEF OwnerProc
<1> HIDE DEF p
<1>1. CASE Cancel
  <2>1. UNCHANGED <<rec, hostRec, proof, own, remote, origin, late, bound, stopped>>
        /\ StopIt(p, "given")
    BY <1>1 DEF Cancel, p
  <2>2. spent' \in [moves : 0..MaxMoves, stops : 0..MaxStops, upsets : 0..MaxUpsets]
    BY <1>1, <1>c, IntegrationConstants DEF Cancel, IntegrationConstants
  <2>3. OwnerRest
    BY <1>0, <1>b, <1>c, <2>1, <2>2 DEF OwnerRest
  <2>4. OwnerRec
    BY <2>1, RecKept
  <2>5. OwnerProc(p)
    BY <1>0, <2>1, <2>4, ProcStops
  <2> QED BY <2>1, <2>3, <2>4, <2>5 DEF OwnerMove, p
<1>2. CASE MarkGivenUp
  <2>1. UNCHANGED <<hostRec, proof, own, remote, origin, late, bound, stopped, spent>>
        /\ Leave(p)
    BY <1>2 DEF MarkGivenUp, p
  <2> DEFINE r == [rec EXCEPT !.given = TRUE]
  <2>2. rec' = rec \/ Save(r)
    BY <1>2 DEF MarkGivenUp
  <2>3. r \in Records /\ r.src = rec.src /\ r.receipt = rec.receipt /\ r.st = rec.st
        /\ r.back = rec.back
    BY <1>0 DEF Records
  <2> HIDE DEF r
  <2>4. OwnerRec
    BY <1>0, <2>2, <2>3, RecKept, RecSaved DEF Believes
  <2> QED BY <1>0, <2>1, <2>4, ProcLeft, RestKept DEF OwnerMove, p
<1>3. CASE Say
  <2>1. UNCHANGED <<rec, hostRec, proof, own, remote, origin, late, bound, stopped, spent>>
    BY <1>3 DEF Say
  <2>2. OwnerRec
    BY <2>1, RecKept
  <2>3. proc' = [proc EXCEPT ![p].at = "say"] \/ StopIt(p, "say")
    BY <1>3 DEF Say, p
  <2>4. OwnerProc(p)
    BY <1>0, <1>d, <2>1, <2>2, <2>3, ProcStops
  <2> QED BY <2>1, <2>2, <2>4, RestKept DEF OwnerMove, p
<1>4. CASE AppendTurn
  <2>1. UNCHANGED <<rec, hostRec, proof, remote, origin, late, bound, stopped, spent>>
        /\ Leave(p)
        /\ own' = IF own.running THEN own ELSE [turn |-> own.turn + 1, running |-> TRUE]
    BY <1>4 DEF AppendTurn, p
  <2>2. /\ own' \in [turn : Nat, running : BOOLEAN]
        /\ own' = own \/ (own'.running /\ own'.turn >= own.turn)
    BY <1>0, <2>1
  <2>3. OwnerRest
    BY <1>b, <1>c, <2>1, <2>2 DEF OwnerRest
  <2>4. OwnerRec
    BY <2>1, RecKept
  <2> QED BY <1>0, <2>1, <2>3, <2>4, ProcLeft DEF OwnerMove, p
<1>5. CASE Redrive
  <2>1. UNCHANGED <<rec, hostRec, proof, own, remote, origin, late, stopped, spent>>
        /\ (bound' = rec.ep \/ bound' = bound)
        /\ proc' = [proc EXCEPT ![p].at = "redrive", ![p].goal = "redrive"]
    BY <1>5 DEF Redrive, p
  <2>2. OwnerRest
    BY <1>0, <1>a, <1>b, <1>c, <2>1 DEF OwnerRest
  <2>3. OwnerRec
    BY <2>1, RecKept
  <2>4. OwnerProc(p)
    BY <1>d, <2>1
  <2> QED BY <2>1, <2>2, <2>3, <2>4 DEF OwnerMove, p
<1>6. CASE NextEpoch
  <2> DEFINE r == Cycle(rec.src, rec.ep + 1, rec.rev)
  <2>1. UNCHANGED <<hostRec, proof, own, remote, origin, late, stopped, spent>>
        /\ (rec' = rec \/ Save(r)) /\ bound' \in {bound, Unbound}
        /\ (StopIt(p, "redrive") \/ Leave(p))
    BY <1>6 DEF NextEpoch, p
  <2>2. Unbound \in Nat
    BY IntegrationConstants DEF IntegrationConstants, Unbound
  <2>3. OwnerRest
    BY <1>0, <1>b, <1>c, <2>1, <2>2 DEF OwnerRest
  <2>4. /\ r \in Records /\ r.src = rec.src /\ r.receipt = "none" /\ r.st = "pending"
        /\ r.back = "none"
    <3> DEFINE next == rec.ep + 1
    <3>1. rec.src \in Nat /\ next \in Nat /\ rec.rev \in Nat
      BY <1>a
    <3> HIDE DEF next
    <3> DEFINE c == Cycle(rec.src, next, rec.rev)
    <3>2. /\ c \in Records /\ c.src = rec.src /\ c.receipt = "none" /\ c.st = "pending"
          /\ c.back = "none"
      BY <3>1, CycleTypes
    <3>3. r = c
      BY DEF next
    <3> HIDE DEF c, r
    <3> QED BY <3>2, <3>3
  <2> HIDE DEF r
  <2>5. OwnerRec
    BY <2>1, <2>4, RecKept, RecSaved
  <2>6. OwnerProc(p)
    BY <1>0, <2>1, <2>5, ProcStops, ProcLeft
  <2> QED BY <2>1, <2>3, <2>5, <2>6 DEF OwnerMove, p
<1>7. CASE Stage
  <2> DEFINE r == Cycle(own.turn, 0, rec.rev)
  <2>1. UNCHANGED <<hostRec, proof, own, remote, origin, proc, late, bound, stopped, spent>>
        /\ Save(r) /\ ~own.running
    BY <1>7 DEF Stage
  <2>2. /\ r \in Records /\ r.src = own.turn /\ r.receipt = "none" /\ r.st = "pending"
        /\ r.back = "none"
    BY <1>0, <1>a, CycleTypes
  <2> HIDE DEF r
  <2>3. OwnerRec
    BY <2>1, <2>2, RecSaved
  <2> QED BY <1>0, <2>1, <2>3, ProcKept, RestKept DEF OwnerMove, p
<1> QED BY <1>1, <1>2, <1>3, <1>4, <1>5, <1>6, <1>7 DEF p

LEMMA UpsetTypes ==
    ASSUME IntegrationInv, Upset
    PROVE  spent' \in [moves : 0..MaxMoves, stops : 0..MaxStops, upsets : 0..MaxUpsets]
<1>1. spent \in [moves : 0..MaxMoves, stops : 0..MaxStops, upsets : 0..MaxUpsets]
  BY DEF IntegrationInv, IntegrationTypeOK
<1> QED BY <1>1, IntegrationConstants DEF Upset, IntegrationConstants

\* A process gives up or dies.
LEMMA FaultSteps ==
    ASSUME IntegrationInv, NEW p \in Processes, Lost(p) \/ Dies(p)
    PROVE  OwnerMove(p)
<1>0. /\ proc \in [Processes -> ProcStates] /\ own \in [turn : Nat, running : BOOLEAN]
      /\ bound \in Nat /\ stopped \subseteq Nat \X Nat /\ late \subseteq Outstanding
  BY DEF IntegrationInv, IntegrationTypeOK, Outstanding
<1>1. UNCHANGED <<rec, hostRec, proof, own, remote, origin, bound, stopped>> /\ Upset
  BY DEF Lost, Dies
<1>2. late' \subseteq Outstanding
  <2>1. CASE late' = late
    BY <1>0, <2>1
  <2>2. CASE late' # late
    <3>1. proc[p].at \in Asking /\ late' = late \cup {proc[p].req}
      BY <2>2 DEF Lost, Dies
    <3>2. proc[p].req \in Outstanding
      BY <3>1 DEF Outstanding
    <3> QED BY <1>0, <3>1, <3>2
  <2> QED BY <2>1, <2>2
<1>3. OwnerRest
  BY <1>0, <1>1, <1>2, UpsetTypes DEF OwnerRest
<1>4. OwnerRec
  BY <1>1, RecKept
<1>5. OwnerProc(p)
  <2>1. CASE Leave(p)
    BY <1>4, <2>1, ProcLeft
  <2>2. CASE ~Leave(p)
    <3>1. proc' = [proc EXCEPT ![p].answer = "network"] /\ proc[p].at \in Asking
      BY <2>2 DEF Lost, Dies
    <3>a. proc[p] \in ProcStates /\ "network" \in Answers
      BY <1>0 DEF Answers
    <3>2. [proc[p] EXCEPT !.answer = "network"] \in ProcStates
      BY <3>a DEF ProcStates
    <3>3. /\ proc' \in [Processes -> ProcStates]
          /\ \A q \in Processes : q # p => proc'[q] = proc[q]
          /\ proc'[p] = [proc[p] EXCEPT !.answer = "network"]
      BY <1>0, <3>1, <3>2
    <3> QED BY <1>1, <3>1, <3>3 DEF OwnerProc
  <2> QED BY <2>1, <2>2
<1> QED BY <1>1, <1>3, <1>4, <1>5 DEF OwnerMove

\* A move of the owner's side keeps the invariant.
LEMMA OwnerKeeps ==
    ASSUME IntegrationInv, NEW p \in Processes, OwnerMove(p)
    PROVE  IntegrationInv'
<1>0. IntegrationTypeOK /\ Turns /\ Knows /\ Believes /\ Merges
  BY DEF IntegrationInv
<1>a. UNCHANGED <<hostRec, proof, remote, origin>> /\ OwnerRec /\ OwnerProc(p) /\ OwnerRest
  BY DEF OwnerMove
<1>b. \A q \in Processes : proc[q] \in ProcStates /\ proc'[q] \in ProcStates
  BY <1>0, <1>a DEF IntegrationTypeOK, OwnerProc
<1>c. /\ rec \in Records /\ rec' \in Records /\ rec.rev \in Nat /\ rec'.rev \in Nat
      /\ rec.src \in Nat /\ rec'.src \in Nat
  BY <1>0, <1>a DEF IntegrationTypeOK, OwnerRec, Records
\* What a process asks for, and what it has heard.
<1>1. /\ \A s, e \in Nat : (Over(s, e)' <=> Over(s, e)) /\ (Merged(s, e)' <=> Merged(s, e))
      /\ \A s \in Nat : (Landed(s)' <=> Landed(s)) /\ (Carries(s)' <=> Carries(s))
  BY <1>a DEF Over, Merged, Landed, Carries
<1>2. ASSUME NEW q \in Processes, proc'[q].at \in Asking
      PROVE  /\ proc'[q].req \in Requests /\ proc'[q].req.step = proc'[q].at
             /\ \/ /\ proc[q].at = proc'[q].at /\ proc'[q].req = proc[q].req
                   /\ proc'[q].rev = proc[q].rev /\ proc'[q].answer \in {proc[q].answer, "network"}
                \/ /\ proc'[q].req.src = rec'.src /\ proc'[q].req.ep = rec'.ep
                   /\ proc'[q].answer = "none" /\ (proc'[q].at \in Phases => rec'.st # "retry_wait")
  <2>1. CASE proc'[q] = proc[q]
    BY <1>0, <1>2, <2>1 DEF IntegrationTypeOK
  <2>2. CASE q = p /\ proc[p].at \in Asking /\ proc'[p] = [proc[p] EXCEPT !.answer = "network"]
    <3>1. /\ proc'[p].at = proc[p].at /\ proc'[p].rev = proc[p].rev /\ proc'[p].req = proc[p].req
          /\ proc'[p].answer = "network"
      BY <1>b, <2>2 DEF ProcStates
    <3> QED BY <1>0, <2>2, <3>1 DEF IntegrationTypeOK
  <2> QED BY <1>2, <1>a, <2>1, <2>2 DEF OwnerProc
<1>3. ASSUME NEW m \in Outstanding'
      PROVE  m \in Requests /\ (m \in Outstanding \/ m.src = rec'.src)
  <2>1. CASE m \in late'
    <3>1. m \in Outstanding
      BY <1>a, <2>1 DEF OwnerRest
    <3> QED BY <1>0, <3>1 DEF Outstanding, IntegrationTypeOK
  <2>2. CASE m \notin late'
    <3>1. PICK q \in Processes : proc'[q].at \in Asking /\ m = proc'[q].req
      BY <2>2 DEF Outstanding
    <3>2. proc[q].at \in Asking => proc[q].req \in Outstanding
      BY DEF Outstanding
    <3> QED BY <1>2, <3>1, <3>2
  <2> QED BY <2>1, <2>2
<1>4. IntegrationTypeOK'
  <2>1. late' \subseteq Requests
    BY <1>3 DEF Outstanding
  <2>2. \A q \in Processes :
           proc'[q].at \in Asking => proc'[q].req \in Requests /\ proc'[q].req.step = proc'[q].at
    BY <1>2
  <2> QED BY <1>0, <1>a, <2>1, <2>2 DEF IntegrationTypeOK, OwnerRec, OwnerProc, OwnerRest
<1>5. Turns'
  <2>1. /\ own.turn \in Nat /\ own'.turn \in Nat /\ remote.turn \in Nat
    BY <1>0, <1>4 DEF IntegrationTypeOK
  <2>2. 1 <= rec'.src /\ rec'.src <= remote.turn
    BY <1>0, <1>a, <1>c, <2>1 DEF Turns, OwnerRec
  <2>3. remote.turn <= own'.turn /\ (~own'.running => remote.turn = own'.turn)
    BY <1>0, <1>a, <2>1 DEF Turns, OwnerRest
  <2>4. \A m \in Outstanding' : 1 <= m.src /\ m.src <= remote.turn
    BY <1>0, <1>3, <2>2 DEF Turns
  <2> QED BY <1>0, <1>a, <2>2, <2>3, <2>4 DEF Turns
<1>6. Knows'
  <2> SUFFICES ASSUME NEW q \in Processes
               PROVE  /\ proc'[q].rev <= rec'.rev
                      /\ proc'[q].at \in Asking /\ rec'.rev = proc'[q].rev =>
                            proc'[q].req.src = rec'.src /\ proc'[q].req.ep = rec'.ep
                      /\ proc'[q].at \in Phases \cup {"begun"} /\ rec'.rev = proc'[q].rev =>
                            rec'.st # "retry_wait"
    BY DEF Knows, Current
  <2>1. proc[q].rev \in Nat /\ proc'[q].rev \in Nat /\ proc[q].rev <= rec.rev
    BY <1>0, <1>b DEF ProcStates, Knows
  <2>2. rec' = rec \/ rec'.rev = rec.rev + 1
    BY <1>a DEF OwnerRec
  <2>3. proc'[q].rev <= rec'.rev
    <3>1. CASE proc'[q].rev = proc[q].rev
      BY <1>c, <2>1, <2>2, <3>1
    <3>2. CASE proc'[q].rev # proc[q].rev
      <4>1. proc'[q] # [proc[q] EXCEPT !.answer = "network"]
        BY <1>b, <3>2 DEF ProcStates
      <4> QED BY <1>a, <1>c, <2>1, <3>2, <4>1 DEF OwnerProc
    <3> QED BY <3>1, <3>2
  <2>4. ASSUME proc'[q].at \in Asking, rec'.rev = proc'[q].rev
        PROVE  /\ proc'[q].req.src = rec'.src /\ proc'[q].req.ep = rec'.ep
               /\ proc'[q].at \in Phases => rec'.st # "retry_wait"
    <3>1. CASE /\ proc[q].at = proc'[q].at /\ proc'[q].req = proc[q].req
               /\ proc'[q].rev = proc[q].rev
      <4>1. rec' = rec
        BY <1>c, <2>1, <2>2, <2>4, <3>1
      <4> QED BY <1>0, <2>4, <3>1, <4>1 DEF Knows, Current
    <3> QED BY <1>2, <2>4, <3>1
  <2>5. ASSUME proc'[q].at = "begun", rec'.rev = proc'[q].rev
        PROVE  rec'.st # "retry_wait"
    <3>0. "begun" \notin Asking
      BY DEF Asking
    <3>1. CASE proc'[q] = proc[q]
      <4>1. rec' = rec
        BY <1>c, <2>1, <2>2, <2>5, <3>1
      <4> QED BY <1>0, <2>5, <3>1, <4>1 DEF Knows, Current
    <3>2. CASE proc'[q] # proc[q]
      <4>1. ~(proc[q].at \in Asking /\ proc'[q] = [proc[q] EXCEPT !.answer = "network"])
        BY <1>b, <2>5, <3>0 DEF ProcStates
      <4> QED BY <1>a, <2>5, <3>0, <3>2, <4>1 DEF OwnerProc
    <3> QED BY <3>1, <3>2
  <2>6. Phases \subseteq Asking
    BY DEF Phases, Asking
  <2> QED BY <2>3, <2>4, <2>5, <2>6
<1>7. Believes'
  <2>1. rec'.receipt # "none" => Landed(rec.src)'
    BY <1>1, <1>a, <1>c DEF OwnerRec, Landed
  <2>2. "integrated" \in {rec'.st, rec'.back} => Carries(rec.src)'
    BY <1>a, <1>c DEF OwnerRec, Carries
  <2>3. ASSUME NEW q \in Processes, proc'[q].at \in Asking
        PROVE  Told(proc[q].req, proc[q].answer)'
    <3>1. CASE proc'[q].answer \in {"none", "network"}
      BY <3>1 DEF Told
    <3>2. CASE proc'[q].answer \notin {"none", "network"}
      <4>1. proc[q].at \in Asking /\ proc'[q].req = proc[q].req /\ proc'[q].answer = proc[q].answer
        BY <1>2, <2>3, <3>2
      <4>2. Told(proc[q].req, proc[q].answer)
        BY <1>0, <4>1 DEF Believes
      <4> QED BY <1>a, <4>1, <4>2 DEF Told, Landed, Carries, Over, Merged
    <3> QED BY <3>1, <3>2
  <2>4. ASSUME NEW q \in Processes, proc'[q].at = "conclude", rec'.rev = proc'[q].rev
        PROVE  Carries(rec.src)'
    <3>0. "conclude" \notin Asking
      BY DEF Asking
    <3>1. CASE proc'[q] = proc[q]
      <4>1. proc[q].rev \in Nat /\ proc[q].rev <= rec.rev
        BY <1>0, <1>b DEF ProcStates, Knows
      <4>2. rec' = rec
        BY <1>a, <1>c, <2>4, <3>1, <4>1 DEF OwnerRec
      <4>3. Carries(rec.src)
        BY <1>0, <2>4, <3>1, <4>2 DEF Believes, Current
      <4> QED BY <1>a, <4>2, <4>3 DEF Carries
    <3>2. CASE proc'[q] # proc[q]
      <4>1. ~(proc[q].at \in Asking /\ proc'[q] = [proc[q] EXCEPT !.answer = "network"])
        BY <1>b, <2>4, <3>0 DEF ProcStates
      <4>2. Carries(rec'.src)
        BY <1>a, <2>4, <3>0, <3>2, <4>1 DEF OwnerProc
      <4> QED BY <1>a, <4>2 DEF Carries
    <3> QED BY <3>1, <3>2
  <2>5. ASSUME NEW c \in stopped'
        PROVE  c[1] # 0 /\ Over(c[1], c[2])' /\ ~Merged(c[1], c[2])'
    <3>1. c[1] # 0 /\ Over(c[1], c[2]) /\ ~Merged(c[1], c[2])
      BY <1>0, <1>a DEF OwnerRest, Believes
    <3> QED BY <1>a, <3>1 DEF Over, Merged
  <2> QED BY <2>1, <2>2, <2>3, <2>4, <2>5 DEF Believes, Current
<1>8. Merges'
  BY <1>0, <1>a DEF Merges, Merged, Landed
<1> QED BY <1>4, <1>5, <1>6, <1>7, <1>8 DEF IntegrationInv

-----------------------------------------------------------------------------
(* A move of the host, for one request m. *)

Triples == Nat \X Nat \X Nat

\* What was true of the host and of the branch stays true.
Grows ==
    /\ \A s \in Nat : (Landed(s) => Landed(s)') /\ (Carries(s) => Carries(s)')
    /\ \A s \in Nat \ {0}, e \in Nat :
          Over(s, e) => Over(s, e)' /\ (~Merged(s, e) => ~Merged(s, e)')

\* The host keeps its cycle and any stop of it, or goes on to a later one.
CycleMove(m) ==
    \/ /\ hostRec'.src = hostRec.src /\ hostRec'.ep = hostRec.ep
       /\ hostRec.tomb # "none" => hostRec'.tomb # "none"
    \/ /\ hostRec'.src = m.src /\ (hostRec.src = 0 \/ remote.turn = m.src)
       /\ hostRec.src = m.src => hostRec.ep < hostRec'.ep

ProofMove(m) ==
    \/ proof' = proof
    \/ /\ proof' \in [src : Nat, ep : Nat, rev : Nat]
       /\ proof'.src = m.src /\ remote.turn = m.src
       /\ proof.src = m.src => proof.ep <= proof'.ep

\* A merge lands: its cycle is the host's, of the latest turn, and not stopped.
Lands(m) ==
    /\ hostRec.src = m.src /\ hostRec.ep = m.ep /\ hostRec.tomb = "none"
    /\ hostRec'.src = m.src /\ hostRec'.ep = m.ep /\ hostRec'.intent # "none"
    /\ remote.turn = m.src /\ ~Fenced(m) /\ ~Landed(m.src) /\ proof' = proof
    /\ \E n \in Nat : origin' = Append(origin, <<m.src, m.ep, n>>)

\* Nothing lands, and an intent is forgotten only if nothing has.
NothingLands ==
    /\ origin' = origin
    /\ hostRec'.src = hostRec.src /\ hostRec'.ep = hostRec.ep /\ hostRec'.intent = "none"
          => hostRec.intent = "none" \/ ~Landed(hostRec.src)

HostMove(m) ==
    /\ UNCHANGED <<rec, own, bound, stopped>>
    /\ hostRec' \in HostRecords /\ (hostRec'.receipt # "none" => Landed(hostRec.src)')
    /\ remote' \in [turn : Nat, running : BOOLEAN, head : {"source", "result"}]
    /\ remote'.turn = remote.turn /\ (remote.head = "result" => remote'.head = "result")
    /\ spent' \in [moves : 0..MaxMoves, stops : 0..MaxStops, upsets : 0..MaxUpsets]
    /\ CycleMove(m) /\ ProofMove(m)
    /\ Lands(m) \/ NothingLands

Replies(w, m) == \E a \in Answers, n \in Nat : Reply(w, m, a, n) /\ Told(m, a)'

LEMMA AppendFacts ==
    ASSUME NEW o \in Seq(Triples), NEW x \in Triples
    PROVE  /\ Append(o, x) \in Seq(Triples) /\ Len(o) \in Nat
           /\ DOMAIN o = 1 .. Len(o) /\ DOMAIN Append(o, x) = 1 .. (Len(o) + 1)
           /\ \A i \in DOMAIN o : Append(o, x)[i] = o[i]
           /\ Append(o, x)[Len(o) + 1] = x
           /\ \A i \in DOMAIN o : o[i] \in Triples
<1> HIDE DEF Triples
<1> QED OBVIOUS

\* What the branch has after a push of x.
LEMMA PushFacts ==
    ASSUME origin \in Seq(Triples), NEW x \in Triples, origin' = Append(origin, x)
    PROVE  /\ origin' \in Seq(Triples)
           /\ DOMAIN origin' = DOMAIN origin \cup {Len(origin) + 1}
           /\ Len(origin) + 1 \notin DOMAIN origin
           /\ \A i \in DOMAIN origin : origin'[i] = origin[i] /\ origin[i] \in Triples
           /\ origin'[Len(origin) + 1] = x
<1>1. /\ Append(origin, x) \in Seq(Triples) /\ Len(origin) \in Nat
      /\ DOMAIN origin = 1 .. Len(origin) /\ DOMAIN Append(origin, x) = 1 .. (Len(origin) + 1)
      /\ \A i \in DOMAIN origin : Append(origin, x)[i] = origin[i]
      /\ Append(origin, x)[Len(origin) + 1] = x
      /\ \A i \in DOMAIN origin : origin[i] \in Triples
  BY AppendFacts
<1>2. 1 .. (Len(origin) + 1) = (1 .. Len(origin)) \cup {Len(origin) + 1}
      /\ Len(origin) + 1 \notin 1 .. Len(origin)
  BY <1>1
<1> HIDE DEF Triples
<1> QED BY <1>1, <1>2

\* Everybody's beliefs survive what only grows.
LEMMA BeliefsGrow ==
    ASSUME IntegrationInv, Grows, rec' = rec, stopped' = stopped,
           \A p \in Processes :
              /\ proc'[p].at = proc[p].at /\ proc'[p].rev = proc[p].rev
              /\ proc'[p].req = proc[p].req
              /\ \/ proc'[p].answer = proc[p].answer
                 \/ proc'[p].at \in Asking => Told(proc[p].req, proc[p].answer)'
    PROVE  Knows' /\ Believes'
<1>0. IntegrationTypeOK /\ Turns /\ Knows /\ Believes
  BY DEF IntegrationInv
<1>1. Knows'
  BY <1>0 DEF Knows, Current
<1>2. rec.src \in Nat
  BY <1>0 DEF IntegrationTypeOK, Records
<1>3. (rec'.receipt # "none" => Landed(rec.src)') /\
      ("integrated" \in {rec'.st, rec'.back} => Carries(rec.src)')
  <2>1. (Landed(rec.src) => Landed(rec.src)') /\ (Carries(rec.src) => Carries(rec.src)')
    <3>1. PICK s \in Nat : s = rec.src
      BY <1>2
    <3>2. (Landed(s) => Landed(s)') /\ (Carries(s) => Carries(s)')
      BY DEF Grows
    <3>3. rec'.src = s
      BY <3>1
    <3> QED BY <3>1, <3>2, <3>3 DEF Landed, Carries
  <2> QED BY <1>0, <2>1 DEF Believes
<1>4. ASSUME NEW p \in Processes, proc'[p].at \in Asking
      PROVE  Told(proc[p].req, proc[p].answer)'
  <2>1. CASE proc'[p].answer = proc[p].answer
    <3>0. proc[p].at \in Asking
      BY <1>4
    <3>1. proc[p].req \in Outstanding /\ proc[p].req \in Requests
      BY <1>0, <3>0 DEF Outstanding, IntegrationTypeOK
    <3>2. PICK m \in Requests : m = proc[p].req
      BY <3>1
    <3>3. PICK a : a = proc[p].answer
      OBVIOUS
    <3>4. m.src \in Nat \ {0} /\ m.ep \in Nat
      BY <1>0, <3>1, <3>2 DEF Turns, Requests
    <3>5. Told(m, a)
      BY <1>0, <3>0, <3>2, <3>3 DEF Believes
    <3>6. Told(m, a)'
      BY <3>4, <3>5 DEF Told, Grows
    <3>7. proc'[p].req = m /\ proc'[p].answer = a
      BY <2>1, <3>2, <3>3
    <3> QED BY <3>6, <3>7 DEF Told, Landed, Carries, Over, Merged
  <2> QED BY <1>4, <2>1
<1>5. \A p \in Processes : proc'[p].at = "conclude" /\ rec'.rev = proc'[p].rev => Carries(rec.src)'
  <2> SUFFICES ASSUME NEW p \in Processes, proc'[p].at = "conclude", rec'.rev = proc'[p].rev
               PROVE  Carries(rec.src)'
    OBVIOUS
  <2>1. Carries(rec.src)
    BY <1>0 DEF Believes, Current
  <2>2. PICK s \in Nat : s = rec.src
    BY <1>2
  <2>3. Carries(s)'
    BY <2>1, <2>2 DEF Grows
  <2>4. rec'.src = s
    BY <2>2
  <2> QED BY <2>3, <2>4 DEF Carries
<1>6. ASSUME NEW c \in stopped' PROVE c[1] # 0 /\ Over(c[1], c[2])' /\ ~Merged(c[1], c[2])'
  <2>1. c \in stopped /\ c[1] \in Nat \ {0} /\ c[2] \in Nat
    BY <1>0 DEF IntegrationTypeOK, Believes
  <2> QED BY <1>0, <2>1 DEF Believes, Grows
<1> QED BY <1>1, <1>3, <1>4, <1>5, <1>6 DEF Believes, Current

LEMMA HostTypes ==
    ASSUME IntegrationInv, NEW m \in Outstanding
    PROVE  /\ m \in Requests /\ m.src \in Nat \ {0} /\ m.ep \in Nat /\ m.rev \in Nat
           /\ m.src <= remote.turn /\ remote.turn \in Nat
           /\ hostRec.src \in Nat /\ hostRec.ep \in Nat /\ hostRec.src <= remote.turn
           /\ proof.src \in Nat /\ proof.ep \in Nat /\ proof.src <= remote.turn
           /\ origin \in Seq(Triples)
<1>1. IntegrationTypeOK /\ Turns
  BY DEF IntegrationInv
<1>2. m \in Requests
  BY <1>1 DEF Outstanding, IntegrationTypeOK
<1>3. hostRec \in HostRecords /\ proof \in [src : Nat, ep : Nat, rev : Nat]
      /\ remote.turn \in Nat /\ origin \in Seq(Triples)
  BY <1>1 DEF IntegrationTypeOK, Triples
<1>4. m.src \in Nat /\ m.ep \in Nat /\ m.rev \in Nat
  BY <1>2 DEF Requests
<1>5. 1 <= m.src /\ m.src <= remote.turn /\ hostRec.src <= remote.turn /\ proof.src <= remote.turn
  BY <1>1 DEF Turns
<1> QED BY <1>2, <1>3, <1>4, <1>5 DEF HostRecords

\* A stopped cycle stays over, and nothing of it lands.
LEMMA HostGrows ==
    ASSUME IntegrationInv, NEW m \in Outstanding, HostMove(m)
    PROVE  Grows
<1>0. /\ m.src \in Nat \ {0} /\ m.ep \in Nat /\ remote.turn \in Nat
      /\ hostRec.src \in Nat /\ hostRec.ep \in Nat /\ hostRec.src <= remote.turn
      /\ proof.src \in Nat /\ proof.ep \in Nat /\ proof.src <= remote.turn
      /\ origin \in Seq(Triples)
  BY HostTypes
<1>a. hostRec'.ep \in Nat /\ proof'.ep \in Nat /\ remote'.turn = remote.turn
      /\ (remote.head = "result" => remote'.head = "result")
      /\ CycleMove(m) /\ ProofMove(m) /\ (Lands(m) \/ NothingLands)
  BY <1>0 DEF HostMove, HostRecords, ProofMove
<1>1. \A s \in Nat : Carries(s) => Carries(s)'
  BY <1>a DEF Carries
<1>2. ASSUME NEW s \in Nat \ {0}, NEW e \in Nat, Over(s, e) PROVE Over(s, e)'
  <2>1. CASE remote.turn > s
    BY <1>a, <2>1 DEF Over
  <2>2. CASE proof.src = s /\ proof.ep >= e
    BY <1>0, <1>a, <2>2 DEF Over, ProofMove
  <2>3. CASE hostRec.src = s /\ (hostRec.ep > e \/ (hostRec.ep = e /\ hostRec.tomb # "none"))
    BY <1>0, <1>a, <2>3 DEF Over, CycleMove
  <2> QED BY <1>2, <2>1, <2>2, <2>3 DEF Over
<1>3. CASE NothingLands
  BY <1>1, <1>2, <1>3 DEF Grows, NothingLands, Landed, Merged
<1>4. CASE Lands(m)
  <2>1. PICK n \in Nat : origin' = Append(origin, <<m.src, m.ep, n>>)
    BY <1>4 DEF Lands
  <2> DEFINE x == <<m.src, m.ep, n>>
  <2>2. x \in Triples /\ x[1] = m.src /\ x[2] = m.ep
    BY <1>0 DEF Triples
  <2>3. origin' = Append(origin, x)
    BY <2>1
  <2> HIDE DEF x
  <2>4. /\ DOMAIN origin' = DOMAIN origin \cup {Len(origin) + 1}
        /\ \A i \in DOMAIN origin : origin'[i] = origin[i]
        /\ origin'[Len(origin) + 1] = x
    BY <1>0, <2>2, <2>3, PushFacts
  <2>5. \A s \in Nat : Landed(s) => Landed(s)'
    BY <2>4 DEF Landed
  <2>6. ASSUME NEW s \in Nat \ {0}, NEW e \in Nat, Over(s, e), ~Merged(s, e)
        PROVE  ~Merged(s, e)'
    <3>1. ~(s = m.src /\ e = m.ep)
      BY <1>0, <1>4, <2>6 DEF Lands, Over, Fenced, Proved
    <3> QED BY <2>2, <2>4, <2>6, <3>1 DEF Merged
  <2> QED BY <1>1, <1>2, <2>5, <2>6 DEF Grows
<1> QED BY <1>a, <1>3, <1>4

\* The host's record stays ahead of what is on the branch.
LEMMA HostMerges ==
    ASSUME IntegrationInv, NEW m \in Outstanding, HostMove(m)
    PROVE  Merges' /\ origin' \in Seq(Triples)
<1>0. /\ m.src \in Nat \ {0} /\ m.ep \in Nat /\ remote.turn \in Nat /\ m.src <= remote.turn
      /\ hostRec.src \in Nat /\ hostRec.ep \in Nat /\ hostRec.src <= remote.turn
      /\ origin \in Seq(Triples)
  BY HostTypes
<1>a. /\ hostRec'.src \in Nat /\ hostRec'.ep \in Nat
      /\ hostRec'.receipt # "none" => Landed(hostRec.src)'
      /\ CycleMove(m) /\ (Lands(m) \/ NothingLands)
  BY DEF HostMove, HostRecords
<1>b. Merges
  BY DEF IntegrationInv
<1>c. \A i \in DOMAIN origin : origin[i] \in Triples /\ origin[i][1] \in Nat /\ origin[i][2] \in Nat
  BY <1>0 DEF Triples
<1>1. CASE NothingLands
  <2>1. origin' = origin
    BY <1>1 DEF NothingLands
  <2>2. \A i \in DOMAIN origin :
           \/ origin[i][1] = 0
           \/ origin[i][1] < hostRec'.src
           \/ origin[i][1] = hostRec'.src /\ origin[i][2] <= hostRec'.ep
    <3>1. CASE hostRec'.src = hostRec.src /\ hostRec'.ep = hostRec.ep
      BY <1>b, <3>1 DEF Merges
    <3>2. CASE ~(hostRec'.src = hostRec.src /\ hostRec'.ep = hostRec.ep)
      <4>1. hostRec.src < hostRec'.src \/ (hostRec.src = hostRec'.src /\ hostRec.ep < hostRec'.ep)
        BY <1>0, <1>a, <3>2 DEF CycleMove
      <4> QED BY <1>0, <1>a, <1>b, <1>c, <4>1 DEF Merges
    <3> QED BY <3>1, <3>2
  <2>3. hostRec'.src # 0 /\ Merged(hostRec.src, hostRec.ep)' => hostRec'.intent # "none"
    <3>1. CASE hostRec'.src = hostRec.src /\ hostRec'.ep = hostRec.ep
      <4>1. Merged(hostRec.src, hostRec.ep)' => Merged(hostRec.src, hostRec.ep)
        BY <2>1, <3>1 DEF Merged
      <4>2. Merged(hostRec.src, hostRec.ep) => Landed(hostRec.src)
        BY <1>0, <1>c DEF Merged, Landed
      <4> QED BY <1>1, <1>b, <3>1, <4>1, <4>2 DEF Merges, NothingLands
    <3>2. CASE ~(hostRec'.src = hostRec.src /\ hostRec'.ep = hostRec.ep)
      <4>1. hostRec.src < hostRec'.src \/ (hostRec.src = hostRec'.src /\ hostRec.ep < hostRec'.ep)
        BY <1>0, <1>a, <3>2 DEF CycleMove
      <4>2. hostRec'.src # 0 => ~Merged(hostRec.src, hostRec.ep)'
        BY <1>0, <1>a, <1>b, <1>c, <2>1, <4>1 DEF Merges, Merged
      <4> QED BY <4>2
    <3> QED BY <3>1, <3>2
  <2> QED BY <1>0, <1>a, <1>b, <2>1, <2>2, <2>3 DEF Merges
<1>2. CASE Lands(m)
  <2>1. PICK n \in Nat : origin' = Append(origin, <<m.src, m.ep, n>>)
    BY <1>2 DEF Lands
  <2> DEFINE x == <<m.src, m.ep, n>>
  <2>2. x \in Triples /\ x[1] = m.src /\ x[2] = m.ep
    BY <1>0 DEF Triples
  <2>3. origin' = Append(origin, x)
    BY <2>1
  <2> HIDE DEF x
  <2>4. /\ origin' \in Seq(Triples)
        /\ DOMAIN origin' = DOMAIN origin \cup {Len(origin) + 1}
        /\ \A i \in DOMAIN origin : origin'[i] = origin[i]
        /\ origin'[Len(origin) + 1] = x
    BY <1>0, <2>2, <2>3, PushFacts
  <2>5. /\ hostRec.src = m.src /\ hostRec.ep = m.ep /\ hostRec'.src = m.src /\ hostRec'.ep = m.ep
        /\ hostRec'.intent # "none" /\ ~Landed(m.src)
    BY <1>2 DEF Lands
  <2>6. \A i \in DOMAIN origin : origin[i][1] < m.src
    BY <1>0, <1>c, <2>5 DEF Landed
  <2>7. \A i \in DOMAIN origin' :
           \/ origin'[i][1] = 0
           \/ origin'[i][1] < hostRec'.src
           \/ origin'[i][1] = hostRec'.src /\ origin'[i][2] <= hostRec'.ep
    BY <1>0, <2>2, <2>4, <2>5, <2>6
  <2>8. \A i, j \in DOMAIN origin' : i # j /\ origin'[i][1] # 0 => origin'[i][1] # origin'[j][1]
    <3> SUFFICES ASSUME NEW i \in DOMAIN origin', NEW j \in DOMAIN origin', i # j,
                        origin'[i][1] # 0
                 PROVE  origin'[i][1] # origin'[j][1]
      OBVIOUS
    <3>1. CASE i \in DOMAIN origin /\ j \in DOMAIN origin
      BY <1>b, <2>4, <3>1 DEF Merges
    <3>2. CASE i \in DOMAIN origin /\ j = Len(origin) + 1
      BY <1>0, <1>c, <2>2, <2>4, <2>6, <3>2
    <3>3. CASE i = Len(origin) + 1 /\ j \in DOMAIN origin
      BY <1>0, <1>c, <2>2, <2>4, <2>6, <3>3
    <3> QED BY <2>4, <3>1, <3>2, <3>3
  <2> QED BY <1>a, <2>4, <2>5, <2>7, <2>8 DEF Merges
<1> QED BY <1>a, <1>1, <1>2

\* A move of the host and its answer keep the invariant.
LEMMA HostKeeps ==
    ASSUME IntegrationInv, NEW w \in Processes \cup {Nobody}, NEW m \in Outstanding,
           Asked(w, m), HostMove(m), Replies(w, m)
    PROVE  IntegrationInv'
<1>0. IntegrationTypeOK /\ Turns /\ Knows /\ Believes
  BY DEF IntegrationInv
<1>1. PICK a \in Answers, n \in Nat : Reply(w, m, a, n) /\ Told(m, a)'
  BY DEF Replies
<1>2. Merges' /\ origin' \in Seq(Triples) /\ Grows
  BY HostMerges, HostGrows
<1>3. /\ proc' \in [Processes -> ProcStates] /\ late' \subseteq late
      /\ \A p \in Processes :
            /\ proc'[p].at = proc[p].at /\ proc'[p].rev = proc[p].rev
            /\ proc'[p].req = proc[p].req
            /\ \/ proc'[p].answer = proc[p].answer
               \/ proc'[p].answer = a /\ proc'[p].req = m
  <2>0. proc \in [Processes -> ProcStates]
    BY <1>0 DEF IntegrationTypeOK
  <2>1. CASE w = Nobody
    BY <1>1, <2>0, <2>1 DEF Reply
  <2>2. CASE w # Nobody
    <3>1. w \in Processes /\ proc' = [proc EXCEPT ![w].answer = a, ![w].n = n] /\ late' = late
      BY <1>1, <2>2 DEF Reply
    <3>2. m = proc[w].req
      BY <2>2 DEF Asked
    <3>3. proc[w] \in ProcStates
      BY <2>0, <3>1
    <3> DEFINE s == [proc[w] EXCEPT !.answer = a, !.n = n]
    <3>4. s \in ProcStates /\ s.at = proc[w].at /\ s.rev = proc[w].rev /\ s.req = proc[w].req
          /\ s.answer = a
      BY <1>1, <3>3 DEF ProcStates
    <3>5. proc' = [proc EXCEPT ![w] = s]
      BY <3>1
    <3> HIDE DEF s
    <3> QED BY <2>0, <3>1, <3>2, <3>4, <3>5
  <2> QED BY <2>1, <2>2
<1>4. \A p \in Processes :
         \/ proc'[p].answer = proc[p].answer
         \/ proc'[p].at \in Asking => Told(proc[p].req, proc[p].answer)'
  BY <1>1, <1>3 DEF Told, Landed, Carries, Over, Merged
<1>5. Knows' /\ Believes'
  BY <1>2, <1>3, <1>4, BeliefsGrow DEF HostMove
<1>6. \A k \in Outstanding' : k \in Outstanding
  BY <1>3 DEF Outstanding
<1>7. IntegrationTypeOK'
  <2>1. proof' \in [src : Nat, ep : Nat, rev : Nat]
    BY <1>0 DEF HostMove, ProofMove, IntegrationTypeOK
  <2> QED BY <1>0, <1>2, <1>3, <2>1 DEF HostMove, IntegrationTypeOK, Triples
<1>8. Turns'
  <2>1. hostRec'.src <= remote.turn /\ proof'.src <= remote.turn
    <3>1. m.src <= remote.turn /\ hostRec.src <= remote.turn /\ proof.src <= remote.turn
      BY HostTypes
    <3> QED BY <3>1 DEF HostMove, CycleMove, ProofMove
  <2> QED BY <1>0, <1>6, <2>1 DEF Turns, HostMove
<1> QED BY <1>2, <1>5, <1>7, <1>8 DEF IntegrationInv

\* The record a step saves first: the cycle is the request's, and what it has of a
\* candidate, a receipt, a stop or an intent it has from the host's own cycle.
LEMMA KeptFacts ==
    ASSUME IntegrationInv, NEW m \in Outstanding, ~Refused(m)
    PROVE  /\ Kept(m) \in HostRecords /\ Kept(m).src = m.src /\ Kept(m).ep = m.ep
           /\ ~SameCycle(m) => Kept(m).n = 0 /\ Kept(m).receipt = "none"
           /\ Kept(m).receipt # "none" => Landed(m.src)
           /\ SameCycle(m) => Kept(m).tomb = hostRec.tomb /\ Kept(m).intent = hostRec.intent
           /\ ~SameCycle(m) => /\ hostRec.src = 0 \/ remote.turn = m.src
                               /\ hostRec.src = m.src => hostRec.ep < m.ep
<1>0. hostRec \in HostRecords /\ Merges
  BY DEF IntegrationInv, IntegrationTypeOK
<1>a. m \in Requests /\ m.src \in Nat \ {0} /\ m.ep \in Nat /\ m.rev \in Nat /\ hostRec.ep \in Nat
  BY HostTypes
<1>1. CASE SameCycle(m)
  <2> DEFINE got == IF m.imported /\ hostRec.receipt = "got" THEN "imported" ELSE hostRec.receipt
  <2>1. Kept(m) = [hostRec EXCEPT !.rev = m.rev, !.receipt = got]
    BY <1>1 DEF Kept
  <2>2. got \in Receipt /\ (got # "none" => hostRec.receipt # "none")
    BY <1>0 DEF HostRecords, Receipt
  <2> HIDE DEF got
  <2>3. /\ Kept(m) \in HostRecords /\ Kept(m).src = hostRec.src /\ Kept(m).ep = hostRec.ep
        /\ Kept(m).receipt = got /\ Kept(m).tomb = hostRec.tomb
        /\ Kept(m).intent = hostRec.intent
    BY <1>0, <1>a, <2>1, <2>2 DEF HostRecords
  <2>4. got # "none" => Landed(m.src)
    BY <1>0, <1>1, <2>2 DEF Merges, SameCycle
  <2> QED BY <1>1, <2>3, <2>4 DEF SameCycle
<1>2. CASE ~SameCycle(m)
  <2>1. Kept(m) = [NoCycle EXCEPT !.src = m.src, !.ep = m.ep, !.rev = m.rev]
    BY <1>2 DEF Kept
  <2>2. /\ Kept(m) \in HostRecords /\ Kept(m).src = m.src /\ Kept(m).ep = m.ep
        /\ Kept(m).n = 0 /\ Kept(m).receipt = "none"
    <3>1. NoCycle \in HostRecords /\ NoCycle.n = 0 /\ NoCycle.receipt = "none"
      BY DEF NoCycle, HostRecords, Stopping, Receipt
    <3> QED BY <1>a, <2>1, <3>1 DEF HostRecords
  <2>3. CASE hostRec = NoCycle
    BY <1>2, <1>a, <2>2, <2>3 DEF NoCycle
  <2>4. CASE hostRec # NoCycle
    <3>1. Follows(m) /\ (Repairs(m) \/ ~Elsewhere(m))
      BY <1>2, <2>4 DEF Refused
    <3>2. m.step = "fetch" /\ (hostRec.src = m.src => m.ep = hostRec.ep + 1)
      BY <3>1 DEF Follows
    <3>3. remote.turn = m.src
      BY <3>1, <3>2 DEF Repairs, Elsewhere
    <3> QED BY <1>2, <1>a, <2>2, <3>2, <3>3
  <2> QED BY <2>3, <2>4
<1> QED BY <1>1, <1>2

RemoteMove ==
    /\ remote' \in [turn : Nat, running : BOOLEAN, head : {"source", "result"}]
    /\ remote'.turn = remote.turn /\ (remote.head = "result" => remote'.head = "result")

LEMMA RemoteKept ==
    ASSUME IntegrationInv, remote' = remote
    PROVE  RemoteMove
  BY DEF RemoteMove, IntegrationInv, IntegrationTypeOK

\* A step that saves the record it kept, and pushes nothing.
LEMMA StepMoves ==
    ASSUME IntegrationInv, NEW m \in Outstanding, ~Refused(m),
           UNCHANGED <<rec, proof, own, origin, bound, stopped>>, RemoteMove,
           spent' \in [moves : 0..MaxMoves, stops : 0..MaxStops, upsets : 0..MaxUpsets],
           NEW h \in HostRecords, hostRec' = h, h.src = m.src, h.ep = m.ep,
           h.tomb = Kept(m).tomb, h.receipt # "none" => Landed(m.src),
           h.intent = "none" => Kept(m).intent = "none" \/ ~Landed(m.src)
    PROVE  HostMove(m)
<1>1. /\ SameCycle(m) => Kept(m).tomb = hostRec.tomb /\ Kept(m).intent = hostRec.intent
      /\ ~SameCycle(m) => /\ hostRec.src = 0 \/ remote.turn = m.src
                          /\ hostRec.src = m.src => hostRec.ep < m.ep
  BY KeptFacts
<1>2. CycleMove(m)
  BY <1>1 DEF CycleMove, SameCycle
<1>3. NothingLands
  BY <1>1 DEF NothingLands, SameCycle
<1>4. hostRec'.receipt # "none" => Landed(hostRec.src)'
  BY DEF Landed
<1> QED BY <1>2, <1>3, <1>4 DEF HostMove, RemoteMove, ProofMove

LEMMA SpentKept ==
    ASSUME IntegrationInv, spent' = spent
    PROVE  spent' \in [moves : 0..MaxMoves, stops : 0..MaxStops, upsets : 0..MaxUpsets]
  BY DEF IntegrationInv, IntegrationTypeOK

LEMMA HostStands ==
    ASSUME IntegrationInv, NEW m \in Outstanding,
           UNCHANGED <<rec, hostRec, own, remote, origin, bound, stopped, spent>>, ProofMove(m)
    PROVE  HostMove(m)
<1>1. hostRec \in HostRecords /\ Merges
  BY DEF IntegrationInv, IntegrationTypeOK
<1>2. hostRec'.receipt # "none" => Landed(hostRec.src)'
  BY <1>1 DEF Merges, Landed
<1>3. CycleMove(m) /\ NothingLands
  BY DEF CycleMove, NothingLands
<1> QED BY <1>1, <1>2, <1>3, RemoteKept, SpentKept DEF HostMove, RemoteMove

\* What the receipt of a record changes.
LEMMA ReceiptedFacts ==
    ASSUME NEW k \in HostRecords
    PROVE  /\ Receipted(k) \in HostRecords /\ Receipted(k).src = k.src /\ Receipted(k).ep = k.ep
           /\ Receipted(k).tomb = k.tomb /\ (Receipted(k).intent = "none" <=> k.intent = "none")
  BY DEF Receipted, HostRecords, Receipt

\* An answer that promises nothing.
LEMMA PlainReply ==
    ASSUME NEW w, NEW m, NEW a \in Answers, NEW n \in Nat, Reply(w, m, a, n),
           a \notin {"integrated", "revoked"}
    PROVE  Replies(w, m)
  BY DEF Replies, Told

LEMMA RefusalMoves ==
    ASSUME IntegrationInv, NEW w \in Processes \cup {Nobody}, NEW m \in Outstanding,
           HostRefuse(w, m) \/ HostRefuseStop(w, m)
    PROVE  HostMove(m) /\ Replies(w, m)
<1>1. HostMove(m)
  BY HostStands DEF HostRefuse, HostRefuseStop, ProofMove
<1>2. "refused" \in Answers /\ "invalid" \in Answers
  BY DEF Answers
<1>3. Replies(w, m)
  BY <1>2, PlainReply DEF HostRefuse, HostRefuseStop
<1> QED BY <1>1, <1>3

LEMMA FetchMoves ==
    ASSUME IntegrationInv, NEW w \in Processes \cup {Nobody}, NEW m \in Outstanding,
           HostFetch(w, m)
    PROVE  HostMove(m) /\ Replies(w, m)
<1> DEFINE k == Kept(m)
<1>0. /\ k \in HostRecords /\ k.src = m.src /\ k.ep = m.ep
      /\ k.receipt # "none" => Landed(m.src)
  BY KeptFacts DEF HostFetch
<1>a. /\ UNCHANGED <<rec, proof, own, remote, origin, bound, stopped, spent>>
      /\ ~Refused(m) /\ m.step = "fetch"
  BY DEF HostFetch
<1>b. {"integrated", "exhausted", "ready"} \subseteq Answers
  BY DEF Answers
<1>c. k.n \in Nat /\ k.n + 1 \in Nat /\ Len(origin) \in Nat
  BY <1>0, HostTypes, AppendFacts DEF HostRecords
<1> HIDE DEF k
<1>d. UNCHANGED <<rec, proof, own, origin, bound, stopped>> /\ RemoteMove
      /\ spent' \in [moves : 0..MaxMoves, stops : 0..MaxStops, upsets : 0..MaxUpsets]
  BY <1>a, RemoteKept, SpentKept
<1>1. CASE (k.receipt # "none" \/ Landed(m.src)) /\ hostRec' = Receipted(k)
           /\ Reply(w, m, "integrated", k.n)
  <2>1. Landed(m.src)
    BY <1>0, <1>1
  <2>2. Told(m, "integrated")'
    BY <1>a, <2>1 DEF Told, Landed
  <2>3. Replies(w, m)
    BY <1>1, <1>b, <1>c, <2>2 DEF Replies
  <2>4. HostMove(m)
    BY <1>0, <1>1, <1>a, <1>d, <2>1, ReceiptedFacts, StepMoves DEF k
  <2> QED BY <2>3, <2>4
<1>2. CASE hostRec' = k /\ Reply(w, m, "exhausted", k.n)
  <2>1. HostMove(m)
    BY <1>0, <1>2, <1>a, <1>d, StepMoves DEF k
  <2> QED BY <1>2, <1>b, <1>c, <2>1, PlainReply
<1>3. CASE /\ ~Landed(m.src) /\ k.receipt = "none"
           /\ hostRec' = IF k.n = 0 \/ MovedSince(k)
                         THEN [k EXCEPT !.n = @ + 1, !.tip = Len(origin), !.intent = "none"]
                         ELSE k
           /\ Reply(w, m, "ready", hostRec'.n)
  <2> DEFINE h == [k EXCEPT !.n = @ + 1, !.tip = Len(origin), !.intent = "none"]
  <2>1. /\ h \in HostRecords /\ h.src = k.src /\ h.ep = k.ep /\ h.tomb = k.tomb
        /\ h.receipt = k.receipt
    BY <1>0, <1>c DEF HostRecords
  <2>2. hostRec' = h \/ hostRec' = k
    BY <1>3
  <2> HIDE DEF h
  <2>3. HostMove(m) /\ hostRec' \in HostRecords
    BY <1>0, <1>3, <1>a, <1>d, <2>1, <2>2, StepMoves DEF k
  <2>4. hostRec'.n \in Nat
    BY <2>3 DEF HostRecords
  <2> QED BY <1>3, <1>b, <2>3, <2>4, PlainReply
<1> QED BY <1>1, <1>2, <1>3 DEF HostFetch, k

LEMMA PushMoves ==
    ASSUME IntegrationInv, NEW w \in Processes \cup {Nobody}, NEW m \in Outstanding,
           HostPush(w, m)
    PROVE  HostMove(m) /\ Replies(w, m)
<1> DEFINE k == Kept(m)
<1>0. /\ k \in HostRecords /\ k.src = m.src /\ k.ep = m.ep
      /\ k.receipt # "none" => Landed(m.src)
      /\ ~SameCycle(m) => k.n = 0
      /\ SameCycle(m) => k.tomb = hostRec.tomb
  BY KeptFacts DEF HostPush
<1>a. /\ UNCHANGED <<rec, proof, own, remote, bound, stopped>>
      /\ ~Refused(m) /\ m.step = "push"
  BY DEF HostPush
<1>b. {"integrated", "refused", "moved", "network"} \subseteq Answers
  BY DEF Answers
<1>c. k.n \in Nat /\ m.src \in Nat \ {0} /\ m.ep \in Nat /\ origin \in Seq(Triples)
  BY <1>0, HostTypes DEF HostRecords
<1> DEFINE intended == [k EXCEPT !.intent = "uncertain"]
<1>e. /\ intended \in HostRecords /\ intended.src = m.src /\ intended.ep = m.ep
      /\ intended.tomb = k.tomb /\ intended.receipt = k.receipt /\ intended.intent = "uncertain"
  BY <1>0 DEF HostRecords
<1> HIDE DEF k, intended
<1>d. RemoteMove
  BY <1>a, RemoteKept
<1>1. CASE /\ k.receipt # "none" \/ (k.n > 0 /\ Landed(m.src))
           /\ hostRec' = Receipted(k) /\ Reply(w, m, "integrated", k.n)
           /\ UNCHANGED <<origin, spent>>
  <2>1. Landed(m.src)
    BY <1>0, <1>1
  <2>2. Told(m, "integrated")'
    BY <1>1, <1>a, <2>1 DEF Told, Landed
  <2>3. Replies(w, m)
    BY <1>1, <1>b, <1>c, <2>2 DEF Replies
  <2>4. HostMove(m)
    BY <1>0, <1>1, <1>a, <1>d, <2>1, ReceiptedFacts, SpentKept, StepMoves DEF k
  <2> QED BY <2>3, <2>4
<1>2. CASE hostRec' = k /\ Reply(w, m, "refused", 0) /\ UNCHANGED <<origin, spent>>
  <2>1. HostMove(m)
    BY <1>0, <1>2, <1>a, <1>d, SpentKept, StepMoves DEF k
  <2> QED BY <1>2, <1>b, <2>1, PlainReply
<1>3. CASE hostRec' = intended /\ Reply(w, m, "moved", k.n) /\ UNCHANGED <<origin, spent>>
  <2>1. HostMove(m)
    BY <1>0, <1>3, <1>a, <1>d, <1>e, SpentKept, StepMoves DEF k
  <2> QED BY <1>3, <1>b, <1>c, <2>1, PlainReply
<1>4. CASE /\ k.receipt = "none" /\ k.n > 0 /\ ~Landed(m.src)
           /\ origin' = Append(origin, Merge(k))
           /\ \/ hostRec' = Receipted(intended) /\ Reply(w, m, "integrated", k.n)
                 /\ UNCHANGED spent
              \/ Upset /\ hostRec' = intended /\ Reply(w, m, "network", 0)
  <2>1. SameCycle(m)
    BY <1>0, <1>4
  <2>2. ~Fenced(m) /\ ~Elsewhere(m) /\ hostRec.tomb = "none"
    BY <1>a, <2>1 DEF Refused, Repairs
  <2>3. origin' = Append(origin, <<m.src, m.ep, k.n>>)
    BY <1>0, <1>4 DEF Merge
  <2>4. /\ hostRec' \in HostRecords /\ hostRec'.src = m.src /\ hostRec'.ep = m.ep
        /\ hostRec'.intent # "none"
    BY <1>4, <1>e, ReceiptedFacts
  <2>5. Lands(m)
    BY <1>4, <1>a, <1>c, <2>1, <2>2, <2>3, <2>4 DEF Lands, SameCycle, Elsewhere
  <2>6. Landed(m.src)'
    <3> DEFINE x == <<m.src, m.ep, k.n>>
    <3>1. x \in Triples /\ x[1] = m.src
      BY <1>c DEF Triples
    <3>2. origin' = Append(origin, x)
      BY <2>3
    <3> HIDE DEF x
    <3>3. Len(origin) + 1 \in DOMAIN origin' /\ origin'[Len(origin) + 1] = x
      BY <1>c, <3>1, <3>2, PushFacts
    <3> QED BY <1>c, <3>1, <3>3 DEF Landed
  <2>7. CycleMove(m)
    BY <2>1, <2>2, <2>4 DEF CycleMove, SameCycle
  <2>8. spent' \in [moves : 0..MaxMoves, stops : 0..MaxStops, upsets : 0..MaxUpsets]
    BY <1>4, SpentKept, UpsetTypes
  <2>9. hostRec'.receipt # "none" => Landed(hostRec.src)'
    BY <2>4, <2>6 DEF Landed
  <2>10. HostMove(m)
    BY <1>a, <1>d, <2>4, <2>5, <2>7, <2>8, <2>9 DEF HostMove, RemoteMove, ProofMove
  <2>11. Told(m, "integrated")' /\ Told(m, "network")'
    BY <1>a, <2>6 DEF Told
  <2>12. Replies(w, m)
    BY <1>4, <1>b, <1>c, <2>11 DEF Replies
  <2> QED BY <2>10, <2>12
<1> QED BY <1>1, <1>2, <1>3, <1>4 DEF HostPush, k, intended

LEMMA RepairMoves ==
    ASSUME IntegrationInv, NEW w \in Processes \cup {Nobody}, NEW m \in Outstanding,
           HostRepair(w, m)
    PROVE  HostMove(m) /\ Replies(w, m)
<1> DEFINE k == Kept(m)
<1>0. /\ k \in HostRecords /\ k.src = m.src /\ k.ep = m.ep
      /\ k.receipt # "none" => Landed(m.src)
  BY KeptFacts DEF HostRepair
<1>a. UNCHANGED <<rec, proof, own, origin, bound, stopped, spent>> /\ ~Refused(m)
  BY DEF HostRepair
<1>b. {"integrated", "refused"} \subseteq Answers /\ k.n \in Nat
  BY <1>0 DEF Answers, HostRecords
<1> HIDE DEF k
<1>1. CASE hostRec' = k /\ Reply(w, m, "refused", 0) /\ UNCHANGED remote
  <2>1. HostMove(m)
    BY <1>0, <1>1, <1>a, RemoteKept, SpentKept, StepMoves DEF k
  <2> QED BY <1>1, <1>b, <2>1, PlainReply
<1>2. CASE /\ k.receipt # "none" \/ Landed(m.src)
           /\ hostRec' = Receipted(k) /\ remote.turn = m.src
           /\ remote' = [remote EXCEPT !.head = "result"] /\ Reply(w, m, "integrated", k.n)
  <2>0. remote \in [turn : Nat, running : BOOLEAN, head : {"source", "result"}]
    BY DEF IntegrationInv, IntegrationTypeOK
  <2>1. RemoteMove /\ remote'.turn = m.src /\ remote'.head = "result"
    BY <1>2, <2>0 DEF RemoteMove
  <2>2. Landed(m.src)
    BY <1>0, <1>2
  <2>3. Told(m, "integrated")'
    BY <1>a, <2>1, <2>2 DEF Told, Landed, Carries
  <2>4. Replies(w, m)
    BY <1>2, <1>b, <2>3 DEF Replies
  <2>5. HostMove(m)
    BY <1>0, <1>2, <1>a, <2>1, <2>2, ReceiptedFacts, SpentKept, StepMoves DEF k
  <2> QED BY <2>4, <2>5
<1>3. CASE /\ k.receipt # "none" \/ Landed(m.src)
           /\ hostRec' = Receipted(k) /\ Reply(w, m, "refused", 0) /\ UNCHANGED remote
  <2>1. Landed(m.src)
    BY <1>0, <1>3
  <2>2. HostMove(m)
    BY <1>0, <1>3, <1>a, <2>1, ReceiptedFacts, RemoteKept, SpentKept, StepMoves DEF k
  <2> QED BY <1>3, <1>b, <2>2, PlainReply
<1> QED BY <1>1, <1>2, <1>3 DEF HostRepair, k

LEMMA FailureMoves ==
    ASSUME IntegrationInv, NEW w \in Processes \cup {Nobody}, NEW m \in Outstanding,
           HostFails(w, m)
    PROVE  HostMove(m) /\ Replies(w, m)
<1> DEFINE k == Kept(m)
<1> DEFINE intended == [k EXCEPT !.intent = "uncertain"]
<1>0. /\ k \in HostRecords /\ k.src = m.src /\ k.ep = m.ep
      /\ k.receipt # "none" => Landed(m.src)
  BY KeptFacts DEF HostFails
<1>1. /\ intended \in HostRecords /\ intended.src = m.src /\ intended.ep = m.ep
      /\ intended.tomb = k.tomb /\ intended.receipt = k.receipt /\ intended.intent = "uncertain"
  BY <1>0 DEF HostRecords
<1>2. hostRec' = k \/ hostRec' = intended
  BY DEF HostFails
<1>3. UNCHANGED <<rec, proof, own, remote, origin, bound, stopped>> /\ ~Refused(m) /\ Upset
      /\ Reply(w, m, "network", 0)
  BY DEF HostFails
<1>4. "network" \in Answers
  BY DEF Answers
<1> HIDE DEF k, intended
<1>5. HostMove(m)
  BY <1>0, <1>1, <1>2, <1>3, RemoteKept, UpsetTypes, StepMoves DEF k
<1> QED BY <1>3, <1>4, <1>5, PlainReply

LEMMA ProveMoves ==
    ASSUME IntegrationInv, NEW w \in Processes \cup {Nobody}, NEW m \in Outstanding,
           HostProve(w, m)
    PROVE  HostMove(m) /\ Replies(w, m)
<1>0. /\ m.src \in Nat \ {0} /\ m.ep \in Nat /\ m.rev \in Nat /\ m.src <= remote.turn
      /\ remote.turn \in Nat /\ hostRec.src \in Nat /\ hostRec.ep \in Nat
      /\ hostRec.src <= remote.turn /\ proof.ep \in Nat /\ origin \in Seq(Triples)
  BY HostTypes
<1>a. UNCHANGED <<rec, hostRec, own, remote, origin, bound, stopped, spent>>
      /\ ~StopRefused(m) /\ ~SameCycle(m)
  BY DEF HostProve
<1>b. {"unconfirmed", "revoked"} \subseteq Answers
  BY DEF Answers
<1>1. CASE proof' = proof /\ Reply(w, m, "unconfirmed", 0)
  <2>1. HostMove(m)
    BY <1>1, <1>a, HostStands DEF ProofMove
  <2> QED BY <1>1, <1>b, <2>1, PlainReply
<1>2. CASE /\ proof' = [src |-> m.src, ep |-> m.ep, rev |-> m.rev]
           /\ Reply(w, m, "unconfirmed", 0) \/ Reply(w, m, "revoked", 0)
  <2>1. remote.turn = m.src /\ (hostRec.src = m.src => m.ep >= hostRec.ep)
    BY <1>0, <1>a DEF StopRefused, Elsewhere
  <2>2. proof.src = m.src => proof.ep <= m.ep
    BY <1>0, <1>a DEF StopRefused, FencedLater, Proved
  <2>3. ProofMove(m)
    BY <1>0, <1>2, <2>1, <2>2 DEF ProofMove
  <2>4. HostMove(m)
    BY <1>a, <2>3, HostStands
  <2>5. Over(m.src, m.ep)'
    BY <1>0, <1>2 DEF Over
  <2>6. ~Merged(m.src, m.ep)
    <3>1. m.ep # hostRec.ep \/ m.src # hostRec.src
      BY <1>a DEF SameCycle
    <3>2. hostRec.src < m.src \/ (hostRec.src = m.src /\ hostRec.ep < m.ep)
      BY <1>0, <2>1, <3>1
    <3>3. \A i \in DOMAIN origin : origin[i][1] \in Nat /\ origin[i][2] \in Nat
      <4>1. \A i \in DOMAIN origin : origin[i] \in Triples
        BY <1>0
      <4> QED BY <4>1 DEF Triples
    <3> QED BY <1>0, <3>2, <3>3 DEF IntegrationInv, Merges, Merged
  <2>7. Told(m, "revoked")' /\ Told(m, "unconfirmed")'
    BY <1>a, <2>5, <2>6 DEF Told, Merged
  <2>8. Replies(w, m)
    BY <1>2, <1>b, <2>7 DEF Replies
  <2> QED BY <2>4, <2>8
<1> QED BY <1>1, <1>2 DEF HostProve

LEMMA StopMoves ==
    ASSUME IntegrationInv, NEW w \in Processes \cup {Nobody}, NEW m \in Outstanding,
           HostStop(w, m)
    PROVE  HostMove(m) /\ Replies(w, m)
<1> DEFINE asked == [hostRec EXCEPT !.rev = m.rev, !.tomb = "asked"]
<1> DEFINE acked == [asked EXCEPT !.tomb = "acked", !.intent = IF @ = "none" THEN @ ELSE "settled"]
<1>0. /\ m.src \in Nat \ {0} /\ m.ep \in Nat /\ m.rev \in Nat /\ origin \in Seq(Triples)
      /\ hostRec \in HostRecords /\ Merges
  BY HostTypes DEF IntegrationInv, IntegrationTypeOK
<1>a. /\ UNCHANGED <<rec, proof, own, remote, origin, bound, stopped>>
      /\ hostRec.src = m.src /\ hostRec.ep = m.ep /\ m.step = "revoke"
  BY DEF HostStop, SameCycle
<1>b. {"unconfirmed", "revoked", "integrated"} \subseteq Answers
  BY DEF Answers
<1>c. /\ asked \in HostRecords /\ asked.src = m.src /\ asked.ep = m.ep /\ asked.tomb = "asked"
      /\ asked.receipt = hostRec.receipt /\ asked.intent = hostRec.intent
  BY <1>0, <1>a DEF HostRecords, Stopping
<1> HIDE DEF asked
<1>d. /\ acked \in HostRecords /\ acked.src = m.src /\ acked.ep = m.ep /\ acked.tomb = "acked"
      /\ acked.receipt = asked.receipt /\ (acked.intent = "none" <=> asked.intent = "none")
  BY <1>c DEF HostRecords, Stopping
<1> HIDE DEF acked
<1>e. spent' \in [moves : 0..MaxMoves, stops : 0..MaxStops, upsets : 0..MaxUpsets]
  BY SpentKept, UpsetTypes DEF HostStop
<1>f. hostRec.receipt # "none" => Landed(m.src)
  BY <1>0, <1>a DEF Merges
<1>1. ASSUME NEW h \in HostRecords, hostRec' = h, h.src = m.src, h.ep = m.ep, h.tomb # "none",
             h.intent = "none" => hostRec.intent = "none",
             h.receipt # "none" => Landed(m.src)
      PROVE  HostMove(m)
  <2>1. CycleMove(m) /\ NothingLands /\ ProofMove(m)
    BY <1>1, <1>a DEF CycleMove, NothingLands, ProofMove
  <2>2. hostRec'.receipt # "none" => Landed(hostRec.src)'
    BY <1>1, <1>a DEF Landed
  <2> QED BY <1>1, <1>a, <1>e, <2>1, <2>2, RemoteKept DEF HostMove, RemoteMove
<1>2. CASE /\ asked.receipt # "none" \/ (asked.intent # "none" /\ Landed(m.src))
           /\ hostRec' = Receipted(asked) /\ Reply(w, m, "integrated", 0)
  <2>1. Landed(m.src)
    BY <1>2, <1>c, <1>f
  <2>2. HostMove(m)
    BY <1>1, <1>2, <1>c, <2>1, ReceiptedFacts
  <2>3. Told(m, "integrated")'
    BY <1>a, <2>1 DEF Told, Landed
  <2> QED BY <1>2, <1>b, <2>2, <2>3 DEF Replies
<1>3. CASE /\ ~(asked.receipt # "none" \/ (asked.intent # "none" /\ Landed(m.src)))
           /\ hostRec' = acked /\ Reply(w, m, "revoked", 0)
  <2>1. HostMove(m)
    BY <1>1, <1>3, <1>c, <1>d
  <2>2. Over(m.src, m.ep)'
    BY <1>3, <1>d DEF Over
  <2>3. ~Merged(m.src, m.ep)
    <3>1. Merged(m.src, m.ep) => Landed(m.src)
      BY <1>0 DEF Merged, Landed
    <3>2. Merged(m.src, m.ep) => hostRec.intent # "none"
      BY <1>0, <1>a DEF Merges
    <3> QED BY <1>3, <1>c, <3>1, <3>2
  <2>4. Told(m, "revoked")'
    BY <1>a, <2>2, <2>3 DEF Told, Merged
  <2> QED BY <1>3, <1>b, <2>1, <2>4 DEF Replies
<1>4. CASE hostRec' = asked /\ Reply(w, m, "unconfirmed", 0)
  <2>1. HostMove(m)
    BY <1>1, <1>4, <1>c, <1>f
  <2> QED BY <1>4, <1>b, <2>1, PlainReply
<1> QED BY <1>2, <1>3, <1>4 DEF HostStop, asked, acked

-----------------------------------------------------------------------------
(* The turn goes on, and others push. *)

LEMMA WorldKeeps ==
    ASSUME IntegrationInv, TurnBegins \/ TurnFinishes \/ TurnImported \/ OthersPush
    PROVE  IntegrationInv'
<1>0. IntegrationTypeOK /\ Turns /\ Knows /\ Believes /\ Merges
  BY DEF IntegrationInv
<1>a. UNCHANGED <<rec, hostRec, proof, proc, late, bound, stopped>>
  BY DEF TurnBegins, TurnFinishes, TurnImported, OthersPush
<1>b. /\ own \in [turn : Nat, running : BOOLEAN]
      /\ remote \in [turn : Nat, running : BOOLEAN, head : {"source", "result"}]
      /\ origin \in Seq(Triples)
      /\ spent \in [moves : 0..MaxMoves, stops : 0..MaxStops, upsets : 0..MaxUpsets]
  BY <1>0 DEF IntegrationTypeOK, Triples
<1>c. Outstanding' = Outstanding
  BY <1>a DEF Outstanding
<1>d. hostRec.src \in Nat /\ proof.src \in Nat /\ rec.src \in Nat
      /\ \A m \in Outstanding : m.src \in Nat
  BY <1>0, HostTypes DEF IntegrationTypeOK, HostRecords, Records
<1>1. CASE TurnBegins \/ TurnFinishes \/ TurnImported
  <2>1. UNCHANGED <<origin, spent>>
    BY <1>1 DEF TurnBegins, TurnFinishes, TurnImported
  <2>2. /\ own' \in [turn : Nat, running : BOOLEAN]
        /\ remote' \in [turn : Nat, running : BOOLEAN, head : {"source", "result"}]
        /\ remote.turn <= remote'.turn /\ remote'.turn <= own'.turn
        /\ ~own'.running => remote'.turn = own'.turn
        /\ remote'.turn = remote.turn => remote'.head = remote.head
    <3>1. remote.turn <= own.turn /\ (~own.running => remote.turn = own.turn)
      BY <1>0 DEF Turns
    <3>2. CASE TurnBegins
      BY <1>b, <3>1, <3>2 DEF TurnBegins
    <3>3. CASE TurnFinishes
      <4>1. remote' = [remote EXCEPT !.running = FALSE] /\ own' = own
        BY <3>3 DEF TurnFinishes
      <4>2. /\ remote' \in [turn : Nat, running : BOOLEAN, head : {"source", "result"}]
            /\ remote'.turn = remote.turn /\ remote'.head = remote.head
        BY <1>b, <4>1
      <4> QED BY <1>b, <3>1, <4>1, <4>2
    <3>4. CASE TurnImported
      BY <1>b, <3>1, <3>4 DEF TurnImported
    <3> QED BY <1>1, <3>2, <3>3, <3>4
  <2>3. Grows
    <3>1. /\ \A s \in Nat : (Landed(s) => Landed(s)')
          /\ \A s, e \in Nat : (~Merged(s, e) => ~Merged(s, e)')
      BY <2>1 DEF Landed, Merged
    <3>2. \A s \in Nat : Carries(s) => Carries(s)'
      BY <1>b, <2>2 DEF Carries
    <3>3. \A s, e \in Nat : Over(s, e) => Over(s, e)'
      BY <1>a, <1>b, <2>2 DEF Over
    <3> QED BY <3>1, <3>2, <3>3 DEF Grows
  <2>4. Knows' /\ Believes'
    BY <1>a, <2>3, BeliefsGrow
  <2>5. Merges'
    BY <1>0, <1>a, <2>1 DEF Merges, Merged, Landed
  <2>6. IntegrationTypeOK'
    BY <1>0, <1>a, <2>1, <2>2 DEF IntegrationTypeOK
  <2>7. Turns'
    BY <1>0, <1>a, <1>b, <1>c, <1>d, <2>2 DEF Turns
  <2> QED BY <2>4, <2>5, <2>6, <2>7 DEF IntegrationInv
<1>2. CASE OthersPush
  <2> DEFINE x == <<0, 0, 0>>
  <2>1. x \in Triples /\ x[1] = 0
    BY DEF Triples
  <2>2. origin' = Append(origin, x) /\ UNCHANGED <<own, remote>>
    BY <1>2 DEF OthersPush
  <2> HIDE DEF x
  <2>3. /\ origin' \in Seq(Triples)
        /\ DOMAIN origin' = DOMAIN origin \cup {Len(origin) + 1}
        /\ \A i \in DOMAIN origin : origin'[i] = origin[i]
        /\ origin'[Len(origin) + 1] = x
    BY <1>b, <2>1, <2>2, PushFacts
  <2>4. \A s \in Nat : Landed(s) => Landed(s)'
    BY <2>3 DEF Landed
  <2>5. \A s \in Nat \ {0}, e \in Nat : Merged(s, e)' <=> Merged(s, e)
    BY <2>1, <2>3 DEF Merged
  <2>6. Grows
    BY <1>a, <2>2, <2>4, <2>5 DEF Grows, Carries, Over
  <2>7. Knows' /\ Believes'
    BY <1>a, <2>6, BeliefsGrow
  <2>8. Merges'
    <3>1. \A i \in DOMAIN origin' :
             \/ origin'[i][1] = 0
             \/ origin'[i][1] < hostRec'.src
             \/ origin'[i][1] = hostRec'.src /\ origin'[i][2] <= hostRec'.ep
      BY <1>0, <1>a, <2>1, <2>3 DEF Merges
    <3>2. hostRec'.src # 0 /\ Merged(hostRec.src, hostRec.ep)' => hostRec'.intent # "none"
      <4>1. hostRec.ep \in Nat
        BY <1>0 DEF IntegrationTypeOK, HostRecords
      <4>2. hostRec.src # 0 /\ Merged(hostRec.src, hostRec.ep)' => Merged(hostRec.src, hostRec.ep)
        BY <1>a, <2>1, <2>3 DEF Merged
      <4> QED BY <1>0, <1>a, <4>2 DEF Merges
    <3>3. hostRec'.receipt # "none" => Landed(hostRec.src)'
      BY <1>0, <1>a, <2>3 DEF Merges, Landed
    <3>4. \A i, j \in DOMAIN origin' : i # j /\ origin'[i][1] # 0 => origin'[i][1] # origin'[j][1]
      BY <1>0, <2>1, <2>3 DEF Merges
    <3> QED BY <3>1, <3>2, <3>3, <3>4 DEF Merges
  <2>9. IntegrationTypeOK'
    <3>1. spent' \in [moves : 0..MaxMoves, stops : 0..MaxStops, upsets : 0..MaxUpsets]
      <4>1. spent.moves + 1 \in 0..MaxMoves
        BY <1>2, <1>b, IntegrationConstants DEF OthersPush, IntegrationConstants
      <4>2. spent' = [spent EXCEPT !.moves = spent.moves + 1]
        BY <1>2 DEF OthersPush
      <4> QED BY <1>b, <4>1, <4>2
    <3> QED BY <1>0, <1>a, <2>2, <2>3, <3>1 DEF IntegrationTypeOK, Triples
  <2>10. Turns'
    BY <1>0, <1>a, <1>c, <2>2 DEF Turns
  <2> QED BY <2>7, <2>8, <2>9, <2>10 DEF IntegrationInv
<1> QED BY <1>1, <1>2

-----------------------------------------------------------------------------
(* The theorems. *)

LEMMA InitInv == IntegrationInit => IntegrationInv
<1> SUFFICES ASSUME IntegrationInit PROVE IntegrationInv
  OBVIOUS
<1>0. /\ rec = Cycle(1, 0, 1) /\ hostRec = NoCycle /\ proof = NoProof
      /\ own = [turn |-> 1, running |-> FALSE]
      /\ remote = [turn |-> 1, running |-> FALSE, head |-> "source"]
      /\ origin = <<>> /\ proc = [p \in Processes |-> ProcRest]
      /\ late = {} /\ bound = Unbound /\ stopped = {} /\ spent \in Starts
  BY DEF IntegrationInit
<1>1. /\ rec \in Records /\ rec.src = 1 /\ rec.receipt = "none" /\ rec.st = "pending"
      /\ rec.back = "none" /\ rec.rev = 1
  BY <1>0, CycleTypes DEF Cycle
<1>2. hostRec \in HostRecords /\ hostRec.src = 0 /\ hostRec.receipt = "none"
  BY <1>0 DEF NoCycle, HostRecords, Stopping, Receipt
<1>3. \A p \in Processes : proc[p] = ProcRest /\ proc[p].at = "idle" /\ proc[p].rev = 0
  BY <1>0 DEF ProcRest
<1>4. "idle" \notin Asking /\ "idle" \notin Phases
  BY DEF Asking, Phases
<1>5. Outstanding = {}
  BY <1>0, <1>3, <1>4 DEF Outstanding
<1>6. IntegrationTypeOK
  <2>1. proof \in [src : Nat, ep : Nat, rev : Nat] /\ own \in [turn : Nat, running : BOOLEAN]
        /\ remote \in [turn : Nat, running : BOOLEAN, head : {"source", "result"}]
    BY <1>0 DEF NoProof
  <2>2. origin \in Seq(Nat \X Nat \X Nat) /\ late \subseteq Requests /\ stopped \subseteq Nat \X Nat
    BY <1>0
  <2>3. bound \in Nat
        /\ spent \in [moves : 0..MaxMoves, stops : 0..MaxStops, upsets : 0..MaxUpsets]
    BY <1>0, IntegrationConstants DEF IntegrationConstants, Unbound
  <2>4. proc \in [Processes -> ProcStates]
    BY <1>0, RestTypes
  <2> QED BY <1>1, <1>2, <1>3, <1>4, <2>1, <2>2, <2>3, <2>4 DEF IntegrationTypeOK
<1>7. Turns
  BY <1>0, <1>1, <1>2, <1>5 DEF Turns, NoProof
<1>8. Knows
  BY <1>1, <1>3, <1>4 DEF Knows
<1>9. Believes
  BY <1>0, <1>1, <1>3, <1>4 DEF Believes
<1>10. Merges
  BY <1>0, <1>2 DEF Merges
<1> QED BY <1>6, <1>7, <1>8, <1>9, <1>10 DEF IntegrationInv

LEMMA StepInv == IntegrationInv /\ [IntegrationNext]_integrationVars => IntegrationInv'
<1> SUFFICES ASSUME IntegrationInv, [IntegrationNext]_integrationVars PROVE IntegrationInv'
  OBVIOUS
<1>1. ASSUME NEW p \in Processes, Drive(p) \/ Lost(p) \/ Dies(p) PROVE IntegrationInv'
  <2>1. OwnerMove(p)
    BY <1>1, DriverSteps, AnswerSteps, StopSteps, FaultSteps DEF Drive
  <2> QED BY <2>1, OwnerKeeps
<1>2. ASSUME NEW w \in Processes \cup {Nobody}, NEW m \in Outstanding,
             HostAnswers(w, m) \/ HostFails(w, m)
      PROVE  IntegrationInv'
  <2>1. HostMove(m) /\ Replies(w, m)
    BY <1>2, RefusalMoves, FetchMoves, PushMoves, RepairMoves, FailureMoves, ProveMoves, StopMoves
    DEF HostAnswers
  <2>2. Asked(w, m)
    BY <1>2 DEF HostAnswers, HostRefuse, HostFetch, HostPush, HostRepair, HostRefuseStop,
                HostProve, HostStop, HostFails
  <2> QED BY <2>1, <2>2, HostKeeps
<1>3. CASE Cancel \/ MarkGivenUp \/ Say \/ AppendTurn \/ Redrive \/ NextEpoch \/ Stage
  <2>1. Operator \in Processes
    BY DEF Processes
  <2> QED BY <1>3, <2>1, OperatorSteps, OwnerKeeps
<1>4. CASE TurnBegins \/ TurnFinishes \/ TurnImported \/ OthersPush
  BY <1>4, WorldKeeps
<1>5. CASE Rest \/ UNCHANGED integrationVars
  <2>1. UNCHANGED integrationVars
    BY <1>5 DEF Rest
  <2> QED BY <2>1 DEF integrationVars, IntegrationInv, IntegrationTypeOK, Turns, Knows, Current,
             Believes, Told, Landed, Carries, Over, Merged, Merges, Outstanding
<1> QED BY <1>1, <1>2, <1>3, <1>4, <1>5 DEF IntegrationNext

LEMMA InvHolds == IntegrationSpec => []IntegrationInv
  BY InitInv, StepInv, PTL DEF IntegrationSpec

\* The owner's and the host's records, the requests and the branch keep their types
\* (IntegrationRecord, HostRecord, the requests of host.rs execute).
THEOREM IntegrationTypes == IntegrationSpec => []IntegrationTypeOK
<1>1. IntegrationInv => IntegrationTypeOK
  BY DEF IntegrationInv
<1> QED BY <1>1, InvHolds, PTL

\* For any number of turns, epochs, late requests and deaths: once a stop is
\* confirmed without a receipt, no merge of its cycle is or will be on the target
\* branch (revoke_for_stop, and the checks of a step in host.rs execute).
THEOREM StopsHold == IntegrationSpec => []StopHolds
<1>1. IntegrationInv => StopHolds
  <2> SUFFICES ASSUME IntegrationInv, NEW c \in stopped, NEW i \in DOMAIN origin,
                      <<origin[i][1], origin[i][2]>> = c
               PROVE  FALSE
    BY DEF StopHolds
  <2>1. c[1] = origin[i][1] /\ c[2] = origin[i][2]
    OBVIOUS
  <2>2. ~Merged(c[1], c[2])
    BY DEF IntegrationInv, Believes
  <2> QED BY <2>1, <2>2 DEF Merged
<1> QED BY <1>1, InvHolds, PTL

\* For any number of candidates, re-drives, lost answers and pushes of others: the
\* result of a turn is merged once at most (observed_outcome, settle_target).
THEOREM OneMerge == IntegrationSpec => []OneMergePerSource
<1>1. IntegrationInv => OneMergePerSource
  <2> SUFFICES ASSUME IntegrationInv, NEW s \in 1..MaxTurns
               PROVE  Cardinality({i \in DOMAIN origin : origin[i][1] = s}) <= 1
    BY DEF OneMergePerSource
  <2> DEFINE S == {i \in DOMAIN origin : origin[i][1] = s}
  <2>1. s # 0
    BY IntegrationConstants DEF IntegrationConstants
  <2>2. \A i, j \in S : i = j
    BY <2>1 DEF IntegrationInv, Merges
  <2>3. CASE S = {}
    <3>1. Cardinality(S) = 0
      BY <2>3, FS_EmptySet
    <3> QED BY <3>1
  <2>4. CASE S # {}
    <3>1. PICK i \in S : S = {i}
      BY <2>2, <2>4
    <3> HIDE DEF S
    <3>2. Cardinality(S) = 1
      BY <3>1, FS_Singleton
    <3> QED BY <3>2 DEF S
  <2> QED BY <2>3, <2>4
<1> QED BY <1>1, InvHolds, PTL

\* For any behaviour of the host and of the network: a receipt the owner has saved
\* is of a result on the target branch, and an integrated cycle is carried by the
\* task's branch on the host (apply_response, finish_receipt).
THEOREM IntegratedTrue == IntegrationSpec => []IntegratedIsTrue
<1>1. IntegrationInv => IntegratedIsTrue
  BY DEF IntegrationInv, Believes, IntegratedIsTrue, Carries
<1> QED BY <1>1, InvHolds, PTL
=============================================================================
