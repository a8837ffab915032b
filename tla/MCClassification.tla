-------------------------- MODULE MCClassification --------------------------
(* Every head of up to three terminals on every stack of up to five states   *)
(* of the list grammar, with and without a work limit that may be reached.   *)
EXTENDS Classification, Lowering, MCListGrammar

(* Every head of up to three terminals, and those that end the input.        *)
Lexed == {"[", "]", "x", "blank"}
MCHeads == UNION {[1..n -> Lexed] : n \in 1..3}
             \cup {Append(h, "eof") : h \in UNION {[1..n -> Lexed] : n \in 0..2}}

(* The stacks of up to five states are the paths from state 0.               *)
Steps(s) == {d \in MCParserStates :
    \/ \E t \in MCTerminals : MCAction[s][t] = shift(d)
    \/ \E n \in MCNonterminals : MCGoto[s][n] = d}
Longer(paths) == {Append(p, d) : p \in paths, d \in MCParserStates}
Paths[n \in 1..5] == IF n = 1 THEN {<<0>>}
    ELSE {p \in Longer(Paths[n - 1]) : p[n] \in Steps(p[n - 1])}
MCStacks == UNION {Paths[n] : n \in 1..5}
MCLimits == {Unbounded, 6}

(* What EngineProofs asks of a table, a head and a stack for NeverFails.     *)
ASSUME ListIsAnAutomaton ==
    /\ RanksJustified /\ AcceptsAt(MCEof)
    /\ HandlesFit(MCStacks) /\ StatesReached(MCStacks)
    /\ \A stk \in MCStacks : IsPath(MCStartState, stk)
    /\ \A h \in MCHeads : \A i \in 1..Len(h) - 1 : h[i] # MCEof
=============================================================================
