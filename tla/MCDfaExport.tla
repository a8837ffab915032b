----------------------------- MODULE MCDfaExport ----------------------------
(* Automata of up to three states over two classes of bytes.  A is the best  *)
(* terminal; B and C are equally good.                                       *)
EXTENDS MaximalMunch

MCNames == {"A", "B", "C"}
MCPriority == [name \in MCNames |-> IF name = "A" THEN 0 ELSE 1]

MCAccepts == {<<>>, <<"B">>, <<"B", "A">>, <<"A", "B", "C">>}
MCRows(targets) == targets \X targets
MCAutomata ==
    {[start |-> 1,
      next |-> <<<<2, 3>>, row2, row3>>,
      accepts |-> <<<<>>, names2, names3>>] :
        row2 \in MCRows({2, 3, 0}), row3 \in MCRows({1, 2, 3, 0}),
        names2 \in MCAccepts, names3 \in MCAccepts \cup {<<"B", "C", "A">>}}

MCLimits ==
    {[states |-> 4, cells |-> 8, work |-> 18],      \* none is reached
     [states |-> 2, cells |-> 6, work |-> 9], [states |-> 3, cells |-> 5, work |-> 9],
     [states |-> 0, cells |-> 6, work |-> 9]}

MCInputs == UNION {[1..n -> {1, 2}] : n \in 0..4}
=============================================================================
