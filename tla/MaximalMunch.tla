---------------------------- MODULE MaximalMunch ----------------------------
(* What the exported lexer does, when the core runs it, against the longest  *)
(* match on the library's automaton with unlimited backing up.               *)
EXTENDS DfaExport

CONSTANTS Inputs        \* the byte strings tried

(* With a byte string, all that it ends with are tried.                      *)
ASSUME SuffixesAreTried ==
    /\ Inputs \subseteq Seq(Classes)
    /\ \A bytes \in Inputs :
         \A n \in 0..Len(bytes) : SubSeq(bytes, n + 1, Len(bytes)) \in Inputs

(* The core's lexer (lexer.rs, token_step.rs), on the exported tables.       *)
Core == INSTANCE Lexer WITH
    Bytes <- Classes, DfaStates <- 1..Len(states), DfaStart <- 1, NoState <- 0,
    Delta <- transitions,
    NoTerminal <- NoName, Label <- labels, LexerTerminals <- Names,
    LogicalStart <- -1, Tokens <- {}, EosTokens <- {}, TokenBytes <- <<>>

(* The automaton's state after some bytes, and the best terminals that it    *)
(* accepts them as.                                                          *)
After(bytes) ==
    FoldLeft(LAMBDA s, b : IF s = Dead THEN Dead ELSE automaton.next[s][b],
             automaton.start, bytes)
Readings(bytes) ==
    LET names == IF After(bytes) = Dead THEN {} ELSE Range(automaton.accepts[After(bytes)])
    IN {t \in names : \A u \in names : Priority[t] <= Priority[u]}

(* The longest match, again and again, until what is left may still be the   *)
(* beginning of a lexeme: the readings of every lexeme, and what is left.    *)
Suffix(bytes, n) == SubSeq(bytes, n + 1, Len(bytes))
Munch[bytes \in Inputs] ==
    LET lengths == {n \in 1..Len(bytes) : Readings(SubSeq(bytes, 1, n)) # {}}
        longest == Max(lengths)
        rest == Munch[Suffix(bytes, longest)]
    IN IF After(bytes) # Dead THEN [lexes |-> TRUE, readings |-> <<>>, left |-> bytes]
       ELSE IF lengths = {} THEN [lexes |-> FALSE]
       ELSE IF ~rest.lexes THEN rest
       ELSE [rest EXCEPT !.readings = <<Readings(SubSeq(bytes, 1, longest))>> \o @]

(* The state of the exported lexer that stands for what is left.             *)
Residual(left) ==
    IF left = <<>> THEN -1
    ELSE CHOOSE i \in 1..Len(states) : states[i] = After(left)
-----------------------------------------------------------------------------
(* A lexer that is exported reads every input as the longest match with      *)
(* unlimited backing up does, each lexeme as its one best terminal, although *)
(* it never gives back a byte of a lexeme: it rejects what has no such       *)
(* reading, and stops in the state of what is left (the promise of           *)
(* docs/compatibility/v1.md, "Byte-regex and lexer profile").                *)
MunchIsExact ==
    stage = "done" =>
        \A bytes \in Inputs :
            LET core == Core!ExecuteBytes(-1, bytes)
                munch == Munch[bytes]
            IN IF munch.lexes
               THEN core = Core!At(Residual(munch.left), core.emitted)
                    /\ [i \in DOMAIN core.emitted |-> {core.emitted[i]}] = munch.readings
               ELSE core = Core!Rejection

(* The document's words: no two terminals of one priority accept in the same *)
(* reachable state of a lexer that is exported.                              *)
TiesAreRejected ==
    stage = "done" =>
        \A i \in 1..Len(states) :
            \A t, u \in Range(automaton.accepts[states[i]]) :
                t # u => Priority[t] # Priority[u]
=============================================================================
