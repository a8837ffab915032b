----------------------------- MODULE MCValidation ---------------------------
(* A small grammar, everything that may be wrong with it in one place or in  *)
(* two, and limits of which each is reached, or is too small by one.         *)
EXTENDS Validation

Shift(state) == [type |-> "shift", to |-> state]
Reduce(production) == [type |-> "reduce", production |-> production]
Accept == [type |-> "accept"]
Error == [type |-> "error"]

Sound ==
    [tokens |-> <<2, Eos>>,
     dfa_states |-> 2, classes |-> 1, byte_classes |-> <<0, 0>>,
     transitions |-> <<1, Absent>>, labels |-> <<Absent, 0>>, dfa_start |-> 0,
     parser_states |-> 2, terminals |-> 2, nonterminals |-> 1,
     actions |-> <<Shift(1), Accept, Reduce(0), Error>>, gotos |-> <<1, Absent>>,
     productions |-> <<0>>, ignored |-> <<0>>, parser_start |-> 0, eof |-> 1]

Faults ==
    [tokens |-> {<<>>, <<2>>, <<Eos>>, <<0, Eos>>, <<Eos, 1, Eos, 1>>, <<200, 56, Eos>>,
                 [i \in 1..16 |-> Eos]},
     dfa_states |-> {0, 1, 15}, classes |-> {0, 2}, byte_classes |-> {<<0>>, <<0, 1>>},
     transitions |-> {<<1>>, <<1, 2>>}, labels |-> {<<0, 0>>, <<Absent, 1>>, <<Absent, 2>>},
     dfa_start |-> {1, 2},
     parser_states |-> {0, 1, 8}, terminals |-> {0, 1, 3, 7}, nonterminals |-> {0, 2, 8},
     actions |-> {<<Shift(2), Accept, Error, Error>>, <<Error, Accept, Reduce(1), Error>>,
                  <<Accept, Error, Error, Error>>, <<Error, Error, Error, Accept>>,
                  <<Error, Error, Accept, Error>>, <<Error>>},
     gotos |-> {<<2, 0>>, <<0>>},
     productions |-> {<<>>, <<1>>, [i \in 1..16 |-> 0]},
     ignored |-> {<<>>, <<1>>, <<2>>, <<0, 0>>, [i \in 1..16 |-> 0]},
     parser_start |-> {1, 2}, eof |-> {0, 2}]

WithFault(g) ==
    UNION {{[g EXCEPT ![field] = fault] : fault \in Faults[field]} : field \in DOMAIN Faults}
MCGrammars == {Sound} \cup WithFault(Sound) \cup UNION {WithFault(g) : g \in WithFault(Sound)}

(* What Sound comes to.                                                      *)
Exact ==
    [kind \in LimitKinds |->
       CASE kind \in {"Tokens", "DfaStates", "ParserStates", "Terminals", "DfaCells",
                      "TokenBytes"} -> 2
         [] kind \in {"DfaClasses", "Nonterminals", "Productions"} -> 1
         [] kind = "ParserCells" -> 6
         [] kind = "Work" -> 30
         [] kind = "LogicalBytes" -> 132]
Ample == [kind \in LimitKinds |-> Max64]
MCLimits ==
    {Ample, Exact} \cup {[Ample EXCEPT ![kind] = Exact[kind] - 1] : kind \in LimitKinds}
=============================================================================
