------------------------------- MODULE MCRanks ------------------------------
(* Ranks for every graph of three cells, and for the table of the other      *)
(* runs.                                                                     *)
EXTENDS Ranks, Lowering, MCListGrammar
LOCAL INSTANCE FiniteSetsExt

MCNodes == {1, 2, 3} \X {"eof"}
Listed(S) == FoldSet(LAMBDA x, s : Append(s, x), <<>>, S)
SmallGraphs ==
    [nodes : {Listed(MCNodes)}, next : [MCNodes -> {Listed(S) : S \in SUBSET MCNodes}],
     strict : [MCNodes -> BOOLEAN]]

TableGraph ==
    [nodes |-> Listed(Cells),
     next |-> [cell \in Cells |-> Listed(Successors(cell))],
     strict |-> [cell \in Cells |-> Strict(cell)]]
MCGraphs == SmallGraphs \cup {TableGraph}

(* The ranks in the table of the other runs, which are for their NeverFails  *)
(* and Answers to rest on, are those lower_lalr gives it.                    *)
TableIsLowered ==
    stage = "done" /\ graph = TableGraph => \A cell \in Cells : RankOf(cell) = StoredRank(cell)
=============================================================================
