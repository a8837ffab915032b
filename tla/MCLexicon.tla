------------------------------ MODULE MCLexicon -----------------------------
(* The list grammar lexed from bytes: an atom is x, xx, ... or yz.  No token *)
(* holds a z, so a row that has read a y is at a dead end.                   *)
EXTENDS Sequences

MCBytes == {"[", "]", "x", "y", "z", " "}
MCDfaStates == {"q0", "qOpen", "qClose", "qAtom", "qHalf", "qBlank"}
MCDfaStart == "q0"
MCNoState == "none"
MCFromStart == [b \in MCBytes |->
    CASE b = "[" -> "qOpen" [] b = "]" -> "qClose" [] b = "x" -> "qAtom"
      [] b = "y" -> "qHalf" [] b = "z" -> MCNoState [] b = " " -> "qBlank"]
MCDelta == [q \in MCDfaStates |-> [b \in MCBytes |->
    CASE q = "q0" -> MCFromStart[b]
      [] q = "qAtom" /\ b = "x" -> "qAtom" [] q = "qHalf" /\ b = "z" -> "qAtom"
      [] q = "qBlank" /\ b = " " -> "qBlank" [] OTHER -> MCNoState]]
MCNoTerminal == "unfinished"
MCLabel == [q \in MCDfaStates |->
    CASE q = "qOpen" -> "[" [] q = "qClose" -> "]" [] q = "qAtom" -> "x"
      [] q = "qBlank" -> "blank" [] q \in {"q0", "qHalf"} -> MCNoTerminal]
MCLexerTerminals == {"[", "]", "x", "blank"}
MCLogicalStart == "start"
MCEosTokens == {"eos"}

RowBytes == [t \in {"[", "]", "x", "y", "]]", " "} |->
    CASE t = "]]" -> <<"]", "]">> [] t # "]]" -> <<t>>]
RowTokens == DOMAIN RowBytes \cup MCEosTokens
=============================================================================
