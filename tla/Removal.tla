------------------------------ MODULE Removal ------------------------------
(* What removing an owned entry promises, rooted_fs.rs: the entry at a name is
   marked, taken from its name and erased, or put back; nothing else at that
   name is touched, and a mark stays until the entry is erased or back. *)
CONSTANTS Files, None

VARIABLES
    public,  \* the file at the name, or None
    marked,  \* the file whose removal is on record, or None
    hidden,  \* that file once it has left its name, or None
    erased   \* the files that are gone for good

removalVars == <<public, marked, hidden, erased>>

RemovalInit == public \in Files /\ marked = None /\ hidden = None /\ erased = {}

Create ==
    /\ public = None
    /\ public' \in Files \ (erased \cup {hidden})
    /\ UNCHANGED <<marked, hidden, erased>>

Mark ==
    /\ marked = None /\ public # None
    /\ marked' = public
    /\ UNCHANGED <<public, hidden, erased>>

Hide ==
    /\ marked = public /\ public # None
    /\ hidden' = public /\ public' = None
    /\ UNCHANGED <<marked, erased>>

PutBack ==
    /\ hidden # None /\ public = None
    /\ public' = hidden /\ hidden' = None
    /\ UNCHANGED <<marked, erased>>

Erase ==
    /\ hidden # None
    /\ erased' = erased \cup {hidden} /\ hidden' = None
    /\ UNCHANGED <<public, marked>>

Clear ==
    /\ marked # None /\ hidden = None
    /\ marked' = None
    /\ UNCHANGED <<public, hidden, erased>>

RemovalNext == Create \/ Mark \/ Hide \/ PutBack \/ Erase \/ Clear

RemovalSpec == RemovalInit /\ [][RemovalNext]_removalVars
=============================================================================
