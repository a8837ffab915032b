---------------------------- MODULE MCPreparation ---------------------------
(* The preparation of the list grammar with the lexer of MCLexicon, under    *)
(* limits that are passed in every one of its stages, and under none.        *)
EXTENDS Preparation, MCListGrammar, MCLexicon

MCSourceOrder == <<"start", "q0", "qOpen", "qClose", "qAtom", "qHalf", "qBlank">>
MCByteOrder == <<"[", "]", "x", "y", "z", " ">>
MCTokenOrder == <<"[", "]", "x", "y", "]]", " ", "eos">>
MCTerminalOrder == <<"[", "]", "x", "blank", "eof">>
MCStateOrder == <<0, 1, 2, 3, 4, 5, 6>>
MCWorkLimits == {40, 100, 150, 200, 400, 700, 1200, 10000}
MCItemLimits == {30, 49, 60, 80, 1000}
=============================================================================
