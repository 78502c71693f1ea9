--------------------------- MODULE MCTraceSnapshot --------------------------
(***************************************************************************)
(* Two requests at once over two owners: one that encodes a response and   *)
(* one that registers, loads or encodes as well.  An array for the list    *)
(* and for each response, and one to grow into.                            *)
(***************************************************************************)
EXTENDS TraceSnapshot

CONSTANTS ada, ben

MCOwner == {ada, ben}

MCSeeds ==
    {<<>>,
     << [owner |-> ada, posture |-> "passes"], [owner |-> ben, posture |-> "fails"] >>}

=============================================================================
