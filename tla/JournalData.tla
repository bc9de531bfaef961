---------------------------- MODULE JournalData ----------------------------
(***************************************************************************)
(* The data of the runner journal of one turn (runner_log.rs): the units   *)
(* the visible log is made of, the checkpoint, and what an append may      *)
(* write and record.  Shared by the abstract and by the detailed journal.  *)
(***************************************************************************)
EXTENDS Integers, Sequences, Absence

CONSTANTS
    Workers,     \* the workers a turn may be accepted by
    Streams,     \* the native streams, stdout and stderr
    StreamLen,   \* how many bytes the agent writes to each stream
    MaxLines     \* bound: lifecycle events and diagnostics

Lines == {"accepted", "line", "terminal"}
Unit  == [s : Streams, n : 1..StreamLen] \cup [s : Lines, n : {0}]
Line(k) == <<[s |-> k, n |-> 0]>>
Chunk(s, from, to) == [i \in 1..(to - from) |-> [s |-> s, n |-> from + i]]

Completions == {"drained", "undrainable", "never_started"}
Commit == [off : [Streams -> 0..StreamLen], len : Nat, accepted : BOOLEAN,
           worker : Workers \cup {None}, completion : Completions \cup {None}]
Commit0 == [off |-> [s \in Streams |-> 0], len |-> 0, accepted |-> FALSE,
            worker |-> None, completion |-> None]

\* drained needs an acceptance; a turn that never started has neither an
\* acceptance nor native bytes.
CompletionValid(c, comp) ==
    CASE comp = "drained"       -> c.accepted
      [] comp = "undrainable"   -> TRUE
      [] comp = "never_started" -> ~c.accepted /\ \A s \in Streams : c.off[s] = 0

LineCount(q) == Len(SelectSeq(q, LAMBDA u : u.s = "line"))

\* The appends a checkpoint allows: what is written and what is recorded of it.
\* An acceptance written by an older version has no worker; it is added later.
Appends(c, q) ==
    {[payload |-> Line("accepted"), next |-> [c EXCEPT !.accepted = TRUE, !.worker = w]] :
        w \in IF c.accepted THEN {} ELSE Workers}
    \cup {[payload |-> <<>>, next |-> [c EXCEPT !.worker = w]] :
        w \in IF c.accepted /\ c.worker = None THEN Workers ELSE {}}
    \cup {[payload |-> Chunk(x[1], c.off[x[1]], x[2]), next |-> [c EXCEPT !.off[x[1]] = x[2]]] :
        x \in {y \in Streams \X (1..StreamLen) : c.accepted /\ c.off[y[1]] < y[2]}}
    \cup {[payload |-> Line("line"), next |-> c] :
        x \in IF LineCount(q) < MaxLines THEN {0} ELSE {}}
    \cup {[payload |-> Line("terminal"), next |-> [c EXCEPT !.completion = comp]] :
        comp \in {x \in Completions : CompletionValid(c, x)}}

Recorded(c, a) == [a.next EXCEPT !.len = c.len + Len(a.payload)]
=============================================================================
