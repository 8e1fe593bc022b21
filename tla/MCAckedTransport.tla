------------------------- MODULE MCAckedTransport -------------------------
(* AckedTransport for TLC: two writer generations.  Readers are             *)
(* interchangeable, the last writer sends fewer frames than the one before, *)
(* and at most one reader is there when a writer comes.                     *)
EXTENDS AckedTransport, TLC, FiniteSets

CONSTANT LastSeq  \* bound: frames of the last generation

Symmetry == Permutations(Readers)
LastSendsLess == Online /\ lastGen = MaxGen => nextSeq <= LastSeq

Attached == {r \in Readers : rpc[r] \notin {"closed", "dead"}}
OneIsAttached == lastGen' # lastGen => Cardinality(Attached) <= 1
=============================================================================
