--------------------------- MODULE LargeFileSession ---------------------------
(***************************************************************************)
(* What a LargeFile promises its users (spec section 3, LargeFileSession): *)
(* a session created empty by a start, or rebuilt from the parts B2 lists *)
(* after a restart, in which every successful part upload inserts its      *)
(* hash at its part number and adds its size in ONE step, and from which  *)
(* a finish sends the recorded hashes as a gapless array.  The process     *)
(* holding the session may crash, and the session is gone.                 *)
(*                                                                         *)
(* There is no lock and no worker here: concurrent part uploads are        *)
(* atomic steps in some order.                                             *)
(***************************************************************************)
EXTENDS Naturals, FiniteSets, Functions, TLC

CONSTANTS
    NumParts,   \* parts 1..NumParts make up the file
    PartSize,   \* PartSize[p]: the size of part p
    Sha(_)      \* Sha(p): the SHA1 of part p

Parts == 1..NumParts

NoSession == [open |-> FALSE, hashes |-> <<>>, size |-> 0]

VARIABLES
    session,  \* the session: open, part number -> SHA1, running total size
    sent      \* the partSha1Array of the last finish sent

vars == <<session, sent>>

Init == session = NoSession /\ sent = <<>>

\* A start creates an empty session.
Start ==
    /\ ~session.open
    /\ session' = [open |-> TRUE, hashes |-> <<>>, size |-> 0]
    /\ UNCHANGED sent

\* A restart rebuilds the session from the parts S that B2 lists.
Resume(S) ==
    /\ ~session.open
    /\ session' = [open |-> TRUE, hashes |-> [p \in S |-> Sha(p)],
                   size |-> SumFunction([p \in S |-> PartSize[p]])]
    /\ UNCHANGED sent

\* A successful upload of part p: hash and size together.
Record(p) ==
    /\ session.open
    /\ session' = [session EXCEPT !.hashes = (p :> Sha(p)) @@ @,
                                  !.size = @ + PartSize[p]]
    /\ UNCHANGED sent

\* A finish sends the recorded hashes, only when they have no gap.
Finish ==
    /\ session.open
    /\ DOMAIN session.hashes = 1..Cardinality(DOMAIN session.hashes)
    /\ sent' = session.hashes
    /\ UNCHANGED session

\* The process holding the session crashes.
Lose ==
    /\ session.open
    /\ session' = NoSession
    /\ UNCHANGED sent

Next ==
    \/ Start \/ Finish \/ Lose
    \/ \E S \in SUBSET Parts : Resume(S)
    \/ \E p \in Parts : Record(p)

Spec == Init /\ [][Next]_vars

=============================================================================
