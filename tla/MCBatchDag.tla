---------------------------- MODULE MCBatchDag ----------------------------
(* An instance of BatchDag for TLC. *)
EXTENDS BatchDag, TLC
CONSTANTS a, b, A, B

TwoProcs == (a :> A) @@ (b :> B)

\* A chain; the second node starts from the first one's result.
Chain     == (1 :> {}) @@ (2 :> {1}) @@ (3 :> {2})
FromFirst == (1 :> 0) @@ (2 :> 1) @@ (3 :> 0)
\* A follow-up or a fault.
EitherOne == {<<MaxSays, 0>>, <<0, MaxFaults>>}
=============================================================================
