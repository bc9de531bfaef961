---------------------------- MODULE OwnedCleanup ----------------------------
(* Removing an owned entry of a private directory, rooted_fs.rs.  A removal
   leaves a record of every step in the directory's private namespace, so that
   any process can finish it after its owner was killed:
     - an operation directory, named for the entry and its identity;
     - a placeholder and the intent inside it; the intent is then published;
     - the entry moves into quarantine, a decision is published, the entry
       changes places with the placeholder and is unlinked;
     - placeholder, operation directory, decision and intent go, in this order.
   A decision to restore takes the same way back.  One name is modelled, with
   the processes that remove it or resume its removal.  Writers of the name
   create it when it is absent and replace it only under a lock its removers
   hold, so a present file changes by these steps alone. *)
EXTENDS Naturals, FiniteSets, Absence

CONSTANTS
    Processes,  \* the processes that work on the name
    Files,      \* the identities a file at the name can have
    MaxTroubles,\* how often a process is killed or the parent loses its name
    Loads       \* who takes part, and how many troubles are already over

VARIABLES
    public,     \* the file at the name, or None
    boot,       \* the operation directory: None or its target and identity
    slot,       \* what its one slot holds
    stage,      \* the intent before its publication
    intent,     \* the published intent: None or its target and operation
    quarantine, \* what the quarantine name holds
    staged,     \* the decision before its publication
    decision,   \* the published decision
    erased,     \* the files whose last link is gone
    anchored,   \* the parent directory is still found under its name
    step, me,   \* the processes
    troubles

disk == <<public, boot, slot, stage, intent, quarantine, staged, decision, erased>>
cleanupVars == <<disk, anchored, step, me, troubles>>

\* An identity is forgotten with the directory, so a few are enough.
Operations == 1 .. 2 * Cardinality(Processes) + 1
Bound      == [target : Files, dir : Operations]

ASSUME CleanupAssumption ==
    /\ IsFiniteSet(Processes) /\ Files # {} /\ MaxTroubles \in Nat
    /\ None \notin Files \cup Bound
    /\ Loads \subseteq [running : SUBSET Processes, spent : 0 .. MaxTroubles]

Idle ==
    [call |-> "none", target |-> None, dir |-> 0, op |-> 0,
     again |-> FALSE, restoring |-> FALSE, strayed |-> FALSE]

\* The steps in which a process holds the lock of the operation directory, and
\* of the published intent.
Publishing == {"probe", "probing", "place", "write", "torn", "rename"}
Resuming   == {"resume", "drop", "keep"}

OpHeld     == \E p \in Processes : step[p] \in Publishing
IntentHeld == \E p \in Processes : step[p] \in Resuming

\* The identity of a new directory is one nobody remembers.
Fresh ==
    CHOOSE d \in Operations :
        /\ \A b \in {boot, intent} \ {None} : b.dir # d
        /\ \A p \in Processes : d \notin {me[p].dir, me[p].op}

Evidence == boot # None \/ intent # None
Target   == IF intent # None THEN intent.target ELSE boot.target

Class ==
    IF public = None THEN "missing"
    ELSE IF public = intent.target THEN "target" ELSE "other"

CleanupInit ==
    /\ public = CHOOSE f \in Files : TRUE
    /\ boot = None /\ slot = "missing" /\ stage = "none" /\ intent = None
    /\ quarantine = "missing" /\ staged = "none" /\ decision = "none" /\ erased = {}
    /\ anchored = TRUE
    /\ me = [p \in Processes |-> Idle]
    /\ \E l \in Loads :
          /\ step = [p \in Processes |-> IF p \in l.running THEN "idle" ELSE "off"]
          /\ troubles = l.spent

-----------------------------------------------------------------------------
StepTo(p, l) == step' = [step EXCEPT ![p] = l]
Only(p, l) == StepTo(p, l) /\ UNCHANGED <<disk, anchored, me, troubles>>

\* A race that may be over on the next attempt.
Retry(p, l) == Only(p, l) \/ Only(p, "failed")

\* remove_owned_regular, remove_owned_child, resume_pending_owned_cleanup,
\* retry_pending_owned_matching.
Begin(p, call) ==
    /\ step[p] = "idle" /\ anchored
    /\ me' = [me EXCEPT ![p].call = call]
    /\ StepTo(p, "check")
    /\ UNCHANGED <<disk, anchored, troubles>>

Unpublished == boot # None /\ intent = None
Valid == Unpublished /\ ~OpHeld => public = boot.target

\* validate_cleanup_namespace_evidence
Check(p) ==
    /\ step[p] = "check"
    /\ IF Valid THEN Only(p, IF me[p].call = "remove" THEN "look" ELSE "pending")
       ELSE Retry(p, "check")

Bind(p) ==
    /\ boot' = [target |-> public, dir |-> Fresh]
    /\ me' = [me EXCEPT ![p].target = public, ![p].dir = Fresh]
    /\ UNCHANGED <<public, slot, stage, intent, quarantine, staged, decision, erased>>

\* cleanup_exact_initial_snapshot
Look(p) ==
    /\ step[p] = "look"
    /\ \/ Evidence /\ Only(p, "adopt")
       \/ ~Evidence /\ public = None /\ Only(p, "ok")
       \/ /\ ~Evidence /\ public # None
          /\ Bind(p) /\ StepTo(p, "publish")
          /\ UNCHANGED <<anchored, troubles>>

\* cleanup_pending_snapshot
FindPending(p) ==
    /\ step[p] = "pending"
    /\ Only(p, IF Evidence THEN "adopt" ELSE "ok")

Adopted(p, b) ==
    /\ me' = [me EXCEPT ![p].target = b.target, ![p].dir = b.dir]
    /\ StepTo(p, "resolve")
    /\ UNCHANGED <<disk, anchored, troubles>>

\* The removal on record is taken over: the published intent, else the
\* operation directory while its target is in place.
Adopt(p) ==
    /\ step[p] = "adopt"
    /\ \/ intent # None /\ ~IntentHeld /\ Adopted(p, intent)
       \/ Unpublished /\ public = boot.target /\ Adopted(p, boot)
       \/ Unpublished /\ public # boot.target /\ Retry(p, "check")
       \/ ~Evidence /\ Retry(p, "check")

-----------------------------------------------------------------------------
Mine(p, b) == b.target = me[p].target /\ b.dir = me[p].dir

\* resolve_bound_cleanup, one turn of its loop: the intent, then the operation
\* directory, then the state both have left behind.
Resolve(p) ==
    /\ step[p] = "resolve"
    /\ \/ ~Valid /\ Only(p, "failed")
       \/ Valid /\ intent = None /\ Only(p, "seek")
       \/ /\ Valid /\ intent # None /\ ~IntentHeld
          /\ Only(p, IF Mine(p, intent) THEN "resume" ELSE "failed")

Seek(p) ==
    /\ step[p] = "seek"
    /\ \/ boot = None /\ Only(p, "terminal")
       \/ /\ boot # None /\ public = boot.target
          /\ Only(p, IF Mine(p, boot) THEN "publish" ELSE "failed")
       \/ boot # None /\ public # boot.target /\ Retry(p, "resolve")

\* complete_bound_cleanup: an entry that came back is removed once more.
Back(p) ==
    /\ step[p] = "back"
    /\ IF me[p].strayed THEN Only(p, "failed")
       ELSE IF me[p].call = "resume" THEN Only(p, "restored")
       ELSE IF me[p].again \/ ~anchored \/ Evidence \/ public # me[p].target THEN Only(p, "failed")
       ELSE /\ boot' = [target |-> public, dir |-> Fresh]
            /\ me' = [me EXCEPT ![p].dir = Fresh, ![p].again = TRUE, ![p].restoring = FALSE]
            /\ StepTo(p, "publish")
            /\ UNCHANGED <<public, slot, stage, intent, quarantine, staged, decision, erased,
                           anchored, troubles>>

\* Mutant: a name without evidence is taken for a removed entry.
Terminal_Trusting(p) ==
    /\ step[p] = "terminal"
    /\ Only(p, IF Evidence THEN "resolve" ELSE "ok")

\* cleanup_terminal_snapshot
Terminal(p) ==
    /\ step[p] = "terminal"
    /\ \/ Evidence /\ Only(p, "resolve")
       \/ /\ ~Evidence /\ me[p].restoring
          /\ Only(p, IF public = me[p].target THEN "back" ELSE "failed")
       \/ /\ ~Evidence /\ ~me[p].restoring
          /\ Only(p, IF public = None THEN "ok" ELSE "failed")

-----------------------------------------------------------------------------
\* open_or_create_cleanup_bootstrap, its scan under the namespace lock
Publish(p) ==
    /\ step[p] = "publish"
    /\ \/ /\ public # me[p].target \/ intent # None
          /\ Only(p, "resolve")
       \/ /\ public = me[p].target /\ intent = None /\ boot # None
          /\ me' = [me EXCEPT ![p].op = boot.dir]
          /\ StepTo(p, "lock")
          /\ UNCHANGED <<disk, anchored, troubles>>
       \/ /\ public = me[p].target /\ ~Evidence
          /\ boot' = [target |-> public, dir |-> Fresh]
          /\ me' = [me EXCEPT ![p].op = Fresh]
          /\ StepTo(p, "lock")
          /\ UNCHANGED <<public, slot, stage, intent, quarantine, staged, decision, erased,
                         anchored, troubles>>

\* Its handoff, once the operation directory is locked.
Lock(p) ==
    /\ step[p] = "lock" /\ (OpHeld => boot.dir # me[p].op)
    /\ me' = [me EXCEPT ![p].op = 0]
    /\ StepTo(p, IF intent = None /\ boot = None THEN "publish"
               ELSE IF intent # None \/ boot.dir # me[p].op \/ public # me[p].target
                    THEN "resolve" ELSE "probe")
    /\ UNCHANGED <<disk, anchored, troubles>>

\* ensure_cleanup_regular_capabilities, ensure_cleanup_tree_capabilities
Probe(p) ==
    /\ step[p] = "probe"
    /\ IF slot = "placeholder" THEN Only(p, "place")
       ELSE /\ slot' = "probe" /\ StepTo(p, "probing")
            /\ UNCHANGED <<public, boot, stage, intent, quarantine, staged, decision, erased,
                           anchored, me, troubles>>

ProbeEnds(p) ==
    /\ step[p] = "probing"
    /\ slot' = "missing" /\ StepTo(p, "place")
    /\ UNCHANGED <<public, boot, stage, intent, quarantine, staged, decision, erased,
                   anchored, me, troubles>>

\* prepare_cleanup_bootstrap_placeholder
Place(p) ==
    /\ step[p] = "place"
    /\ slot' = "placeholder" /\ StepTo(p, "write")
    /\ UNCHANGED <<public, boot, stage, intent, quarantine, staged, decision, erased,
                   anchored, me, troubles>>

\* Mutant: a torn stage is refused.
WriteStage_Refuses(p) ==
    /\ step[p] = "write"
    /\ IF stage = "none"
       THEN /\ stage' = "torn" /\ StepTo(p, "torn")
            /\ UNCHANGED <<public, boot, slot, intent, quarantine, staged, decision, erased,
                           anchored, me, troubles>>
       ELSE Only(p, IF stage = "whole" THEN "rename" ELSE "failed")

\* prepare_cleanup_intent_stage: a whole stage is adopted, a torn one is made anew.
WriteStage(p) ==
    /\ step[p] = "write"
    /\ IF stage = "whole" THEN Only(p, "rename")
       ELSE /\ stage' = "torn" /\ StepTo(p, "torn")
            /\ UNCHANGED <<public, boot, slot, intent, quarantine, staged, decision, erased,
                           anchored, me, troubles>>

WriteEnds(p) ==
    /\ step[p] = "torn"
    /\ stage' = "whole" /\ StepTo(p, "rename")
    /\ UNCHANGED <<public, boot, slot, intent, quarantine, staged, decision, erased,
                   anchored, me, troubles>>

\* publish_cleanup_intent, its rename
RenameIntent(p) ==
    /\ step[p] = "rename"
    /\ stage' = "none" /\ intent' = boot
    /\ StepTo(p, "resolve")
    /\ UNCHANGED <<public, boot, slot, quarantine, staged, decision, erased,
                   anchored, me, troubles>>

-----------------------------------------------------------------------------
\* resume_cleanup works under the lock of the intent and decides each step by
\* what the last one left: classify_cleanup_slots.
Found(class, q, s) == Class = class /\ quarantine = q /\ slot = s

Sets(p, l) == StepTo(p, l) /\ UNCHANGED <<stage, anchored, troubles>>

\* publish_cleanup_decision, up to the rename that load_cleanup_decision makes up for.
Decide(p, d) ==
    /\ staged' = d
    /\ me' = IF d = "delete" THEN me
             ELSE [me EXCEPT ![p].restoring = TRUE, ![p].strayed = TRUE]
    /\ Sets(p, "resume")
    /\ UNCHANGED <<public, boot, slot, intent, quarantine, decision, erased>>

Hide(p) ==
    /\ public' = None /\ quarantine' = "target"
    /\ Sets(p, "resume")
    /\ UNCHANGED <<boot, slot, intent, staged, decision, erased, me>>

\* The records go in finish_cleanup_records, the decision first.
Finish(p, l) ==
    /\ decision' = "none"
    /\ me' = [me EXCEPT ![p].restoring = @ \/ l = "keep"]
    /\ Sets(p, l)
    /\ UNCHANGED <<public, boot, slot, intent, quarantine, staged, erased>>

\* capture_expected_entry: one exchange, for a deletion and for a restoration.
Exchange(p) ==
    /\ quarantine' = slot /\ slot' = quarantine
    /\ Sets(p, "resume")
    /\ UNCHANGED <<public, boot, intent, staged, decision, erased, me>>

Unlink(p) ==
    /\ slot' = "missing" /\ erased' = erased \cup {intent.target}
    /\ Sets(p, "resume")
    /\ UNCHANGED <<public, boot, intent, quarantine, staged, decision, me>>

PutBack(p) ==
    /\ slot' = "missing" /\ public' = intent.target
    /\ Sets(p, "resume")
    /\ UNCHANGED <<boot, intent, quarantine, staged, decision, erased, me>>

\* remove_installed_placeholder, cleanup_placeholder_only, remove_empty_cleanup_operation
Dismantle(p) ==
    /\ \/ /\ quarantine = "placeholder" /\ slot = "missing"
          /\ quarantine' = "missing" /\ slot' = "placeholder" /\ UNCHANGED boot
       \/ /\ quarantine = "missing" /\ slot = "placeholder"
          /\ slot' = "missing" /\ UNCHANGED <<quarantine, boot>>
       \/ /\ quarantine = "missing" /\ slot = "missing" /\ boot # None
          /\ boot' = None /\ UNCHANGED <<quarantine, slot>>
    /\ Sets(p, "resume")
    /\ UNCHANGED <<public, intent, staged, decision, erased, me>>

Dismantling ==
    \/ quarantine = "placeholder" /\ slot = "missing"
    \/ quarantine = "missing" /\ slot = "placeholder"
    \/ quarantine = "missing" /\ slot = "missing" /\ boot # None

Gone == quarantine = "missing" /\ slot = "missing" /\ boot = None

Undecided(p) ==
    IF Gone /\ Class = "missing" THEN Finish(p, "drop")
    ELSE IF Gone /\ Class = "target" THEN Finish(p, "keep")
    ELSE IF Found("target", "missing", "placeholder") THEN
        IF anchored THEN Hide(p) ELSE Decide(p, "restore")
    ELSE IF Found("missing", "target", "placeholder") THEN
        Decide(p, IF anchored THEN "delete" ELSE "restore")
    ELSE Retry(p, "resolve")

Deleting(p) ==
    IF Found("missing", "target", "placeholder") THEN Exchange(p)
    ELSE IF Found("missing", "placeholder", "target") THEN Unlink(p)
    ELSE IF Class = "missing" /\ Dismantling THEN Dismantle(p)
    ELSE IF Class = "missing" /\ Gone THEN Finish(p, "drop")
    ELSE Retry(p, "resolve")

\* Mutant: the entry comes back by a rename that replaces.
Restoring_Replaces(p) ==
    IF quarantine = "target" /\ slot = "placeholder" THEN Exchange(p)
    ELSE IF quarantine = "placeholder" /\ slot = "target" THEN PutBack(p)
    ELSE IF Dismantling THEN Dismantle(p)
    ELSE Finish(p, "keep")

Restoring(p) ==
    IF Found("missing", "target", "placeholder") THEN Exchange(p)
    ELSE IF Found("missing", "placeholder", "target") THEN PutBack(p)
    ELSE IF Class = "target" /\ Dismantling THEN Dismantle(p)
    ELSE IF Class = "target" /\ Gone THEN Finish(p, "keep")
    ELSE /\ me' = [me EXCEPT ![p].restoring = TRUE]
         /\ StepTo(p, "resolve") \/ StepTo(p, "failed")
         /\ UNCHANGED <<disk, anchored, troubles>>

\* load_cleanup_decision: a decision that was only staged is published first.
Load(p) ==
    /\ decision' = staged /\ staged' = "none"
    /\ Sets(p, "resume")
    /\ UNCHANGED <<public, boot, slot, intent, quarantine, erased, me>>

Resume(p) ==
    /\ step[p] = "resume"
    /\ IF staged # "none" THEN Load(p)
       ELSE \/ decision = "none" /\ Undecided(p)
            \/ decision = "delete" /\ Deleting(p)
            \/ decision = "restore" /\ Restoring(p)

\* finish_cleanup_records: the intent is the last to go.
Retire(p) ==
    /\ step[p] \in {"drop", "keep"}
    /\ intent' = None
    /\ Sets(p, IF step[p] = "drop" THEN "resolve" ELSE "back")
    /\ UNCHANGED <<public, boot, slot, quarantine, staged, decision, erased, me>>

-----------------------------------------------------------------------------
EndCall(p) ==
    /\ step[p] \in {"ok", "failed", "restored"}
    /\ me' = [me EXCEPT ![p] = Idle]
    /\ StepTo(p, "idle")
    /\ UNCHANGED <<disk, anchored, troubles>>

\* A process is killed, or an input or output error ends its call.
Kill(p) ==
    /\ troubles < MaxTroubles /\ step[p] \notin {"off", "idle", "ok", "failed", "restored"}
    /\ troubles' = troubles + 1
    /\ me' = [me EXCEPT ![p] = Idle]
    /\ StepTo(p, "idle")
    /\ UNCHANGED <<disk, anchored>>

\* A writer of the name finds it free.
Create ==
    /\ public = None
    /\ public' \in Files \ (erased \cup {IF Evidence THEN Target ELSE None})
    /\ UNCHANGED <<boot, slot, stage, intent, quarantine, staged, decision, erased,
                   anchored, step, me, troubles>>

\* The name of the parent directory leads elsewhere, and back.
ParentMoves ==
    /\ anchored /\ troubles < MaxTroubles
    /\ anchored' = FALSE /\ troubles' = troubles + 1
    /\ UNCHANGED <<disk, step, me>>

ParentReturns ==
    /\ ~anchored /\ anchored' = TRUE
    /\ UNCHANGED <<disk, step, me, troubles>>

Step(p) ==
    \/ Check(p) \/ Look(p) \/ FindPending(p) \/ Adopt(p)
    \/ Resolve(p) \/ Seek(p) \/ Terminal(p) \/ Back(p)
    \/ Publish(p) \/ Lock(p) \/ Probe(p) \/ ProbeEnds(p) \/ Place(p)
    \/ WriteStage(p) \/ WriteEnds(p) \/ RenameIntent(p)
    \/ Resume(p) \/ Retire(p) \/ EndCall(p)

CleanupNext ==
    \/ \E p \in Processes :
          \/ \E call \in {"remove", "resume", "retry"} : Begin(p, call)
          \/ Step(p) \/ Kill(p)
    \/ Create \/ ParentMoves \/ ParentReturns

CleanupSpec == CleanupInit /\ [][CleanupNext]_cleanupVars

\* A process that works goes on, and every opening of the directory resumes
\* what is pending there (resume_pending_owned_*, retry_pending_owned_*).
CleanupFairness ==
    \A p \in Processes : WF_cleanupVars(Step(p)) /\ WF_cleanupVars(Begin(p, "resume"))

CleanupFair == CleanupSpec /\ CleanupFairness

-----------------------------------------------------------------------------
CleanupTypeOK ==
    /\ public \in Files \cup {None}
    /\ boot \in Bound \cup {None} /\ intent \in Bound \cup {None}
    /\ slot \in {"missing", "probe", "placeholder", "target"}
    /\ quarantine \in {"missing", "placeholder", "target"}
    /\ stage \in {"none", "torn", "whole"}
    /\ {staged, decision} \subseteq {"none", "delete", "restore"}
    /\ erased \subseteq Files /\ anchored \in BOOLEAN
    /\ troubles \in 0 .. MaxTroubles

(* A call that reports success has removed what it set out to remove: the file
   it was bound to is gone for good, whoever finished the work and whatever
   took the name since (resolve_bound_cleanup, "fails closed"). *)
Truthful ==
    \A p \in Processes : step[p] = "ok" => me[p].target \in erased \cup {None}

(* What a killed removal leaves is cleared by those that come after, unless
   another file has taken the name meanwhile: then every step refuses. *)
ResidueCleared ==
    <>[]anchored => []<>(~Evidence \/ public \notin {None, Target})

Hidden == IF "target" \in {quarantine, slot} THEN intent.target ELSE None
Marked == IF Evidence THEN Target ELSE None

Promise == INSTANCE Removal WITH marked <- Marked, hidden <- Hidden

(* Step by step a removal does what Removal allows: only the file on record
   leaves its name, only a file that left its name is erased, a file comes back
   to an empty name, and the record goes last. *)
KeepsPromise == Promise!RemovalSpec
=============================================================================
