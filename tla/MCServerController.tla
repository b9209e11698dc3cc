-------------------------- MODULE MCServerController --------------------------
(***************************************************************************)
(* ServerController for TLC: nodes and the threads of a kind are           *)
(* interchangeable.                                                        *)
(***************************************************************************)
EXTENDS ServerController, TLC

Symmetry ==
    {p[1] @@ p[2] @@ p[3] @@ p[4] :
        p \in Permutations(Nodes) \X Permutations(IoThreads)
                   \X Permutations(RecordThreads) \X Permutations(Endpoints)}
=============================================================================
