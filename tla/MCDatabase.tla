------------------------------ MODULE MCDatabase ------------------------------
(***************************************************************************)
(* Database for TLC.  Table b refers to a, c to b, and s to a with its     *)
(* reference set to null.  Keys of different tables coincide and cross, so *)
(* that a where clause that mixes the tables up selects a wrong row.       *)
(***************************************************************************)
EXTENDS Database

MCParent == [t \in {"a", "b", "c", "s"} |->
                CASE t = "a" -> Null [] t = "b" -> "a" [] t = "c" -> "b" [] t = "s" -> "a"]

MCRow(t, i, r) == [table |-> t, id |-> i, ref |-> r]
MCRows ==
    {MCRow("a", 1, Null), MCRow("a", 2, Null), MCRow("b", 2, 1), MCRow("b", 1, 2),
     MCRow("c", 1, 2), MCRow("c", 2, 1), MCRow("s", 1, 1)}

(* The second is rejected when the first is there.                         *)
MCNewRows == <<MCRow("c", 3, 2), MCRow("c", 3, 2)>>

MCInfos ==
    <<[table |-> "a", parent |-> 0, set_null |-> FALSE],
      [table |-> "b", parent |-> 1, set_null |-> FALSE],
      [table |-> "c", parent |-> 2, set_null |-> FALSE],
      [table |-> "s", parent |-> 1, set_null |-> TRUE]>>

ASSUME CallerAssumption == TwoLevels /\ NamesAll /\ KeptAreKept /\ NotInsertedAgain
=============================================================================
