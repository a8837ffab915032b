---------------------------- MODULE MCListGrammar ---------------------------
(* The table of   value -> "[" list "]" | "x"    list -> (empty) | list value *)
(* with an ignored blank, as lower_lalr writes it.  Its reductions pop 0, 1,  *)
(* 2 and 3 states, and after "]" or "x" the reduction of a value is followed  *)
(* on the same lookahead by that of a list of rank 0.                         *)
EXTENDS Integers, Sequences

MCParserStates == 0..6
MCTerminals == {"[", "]", "x", "blank", "eof"}
MCIgnored == {"blank"}
MCNonterminals == {"list", "value"}
MCProductions == {"array", "atom", "empty", "append"}

error == [type |-> "error"]
accept == [type |-> "accept"]
shift(s) == [type |-> "shift", to |-> s]
reduce(p, r) == [type |-> "reduce", production |-> p, rank |-> r]

OnOpen == [s \in MCParserStates |->
    CASE s \in {0, 3} -> shift(2) [] s = 1 -> error [] s = 2 -> reduce("empty", 0)
      [] s = 4 -> reduce("array", 0) [] s = 5 -> reduce("atom", 1)
      [] s = 6 -> reduce("append", 0)]
OnClose == [OnOpen EXCEPT ![0] = error, ![3] = shift(4)]
OnAtom == [OnOpen EXCEPT ![0] = shift(5), ![3] = shift(5)]
OnEof == [s \in MCParserStates |->
    CASE s = 1 -> accept [] s = 4 -> reduce("array", 0) [] s = 5 -> reduce("atom", 0)
      [] s \in {0, 2, 3, 6} -> error]

MCAction == [s \in MCParserStates |->
    [t \in MCTerminals |-> CASE t = "[" -> OnOpen[s] [] t = "]" -> OnClose[s]
                             [] t = "x" -> OnAtom[s] [] t = "eof" -> OnEof[s]
                             [] t = "blank" -> error]]
MCNoGoto == 99
MCGoto == [s \in MCParserStates |->
    [n \in MCNonterminals |->
       CASE n = "value" /\ s = 0 -> 1 [] n = "value" /\ s = 3 -> 6
         [] n = "list" /\ s = 2 -> 3
         [] OTHER -> MCNoGoto]]
MCLhs == [p \in MCProductions |-> IF p \in {"array", "atom"} THEN "value" ELSE "list"]
MCPopLen == [p \in MCProductions |->
    CASE p = "array" -> 3 [] p = "atom" -> 1 [] p = "empty" -> 0 [] p = "append" -> 2]
MCStartState == 0
MCEof == "eof"
=============================================================================
