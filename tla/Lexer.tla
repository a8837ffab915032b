-------------------------------- MODULE Lexer -------------------------------
(* The normalized lexer of crates/greatgramma-core/src/lexer.rs, and the     *)
(* execution of a whole model token on it (token_step.rs).                   *)
EXTENDS Integers, Sequences

CONSTANTS
    Bytes, DfaStates, DfaStart,
    NoState,        \* no transition
    Delta,          \* Delta[state][byte]
    NoTerminal,     \* the label of a state that does not accept
    Label,          \* Label[state], the terminal it accepts
    LexerTerminals,
    LogicalStart,   \* no byte of a lexeme read yet: not the DFA's start state
    Tokens,         \* the vocabulary
    EosTokens,      \* its end-of-sequence tokens
    TokenBytes      \* the bytes of the others

Sources == {LogicalStart} \cup DfaStates

ASSUME LexerAssumption ==
    /\ DfaStart \in DfaStates
    /\ NoState \notin DfaStates /\ NoTerminal \notin LexerTerminals
    /\ LogicalStart \notin DfaStates \cup {NoState}
    /\ Delta \in [DfaStates -> [Bytes -> DfaStates \cup {NoState}]]
    /\ Label \in [DfaStates -> LexerTerminals \cup {NoTerminal}]
    /\ Label[DfaStart] = NoTerminal         \* validate.rs: no empty lexeme
    /\ EosTokens \subseteq Tokens
    /\ TokenBytes \in [Tokens \ EosTokens -> Seq(Bytes) \ {<<>>}]
-----------------------------------------------------------------------------
(* A transition, the run so far, or their rejection (state = NoState).       *)
At(state, emitted) == [state |-> state, emitted |-> emitted]
Rejection == At(NoState, <<>>)

BeginLexeme(byte, emitted) ==
    IF Delta[DfaStart][byte] = NoState THEN Rejection
    ELSE At(Delta[DfaStart][byte], emitted)

ByteStep(state, byte) ==
    CASE state = LogicalStart -> BeginLexeme(byte, <<>>)
      [] state \in DfaStates /\ Delta[state][byte] # NoState ->
           At(Delta[state][byte], <<>>)
      [] state \in DfaStates /\ Delta[state][byte] = NoState ->
           IF Label[state] = NoTerminal THEN Rejection
           ELSE BeginLexeme(byte, <<Label[state]>>)

(* execute_bytes: the bytes in order, up to the first rejection.             *)
ExecuteByte(at, byte) ==
    LET step == ByteStep(at.state, byte)
    IN IF at = Rejection \/ step = Rejection THEN Rejection
       ELSE At(step.state, at.emitted \o step.emitted)

ExecuteBytes(source, bytes) ==
    LET after[n \in 0..Len(bytes)] ==
            IF n = 0 THEN At(source, <<>>) ELSE ExecuteByte(after[n - 1], bytes[n])
    IN after[Len(bytes)]

(* What a token does at a lexer state: nothing legal, a move with the        *)
(* terminals it completes, or an end.                                        *)
Executions ==
    [kind : {"None"}] \cup [kind : {"Finished"}, emitted : Seq(LexerTerminals)]
      \cup [kind : {"Continue"}, state : Sources, emitted : Seq(LexerTerminals)]

Continued(at) ==
    IF at = Rejection THEN [kind |-> "None"]
    ELSE [kind |-> "Continue", state |-> at.state, emitted |-> at.emitted]

(* execute_entry.  An end of sequence emits what was being read, if it is    *)
(* complete, and finishes.                                                   *)
Execute(source, token) ==
    IF token \in EosTokens
    THEN IF source = LogicalStart THEN [kind |-> "Finished", emitted |-> <<>>]
         ELSE IF Label[source] = NoTerminal THEN [kind |-> "None"]
              ELSE [kind |-> "Finished", emitted |-> <<Label[source]>>]
    ELSE Continued(ExecuteBytes(source, TokenBytes[token]))
=============================================================================
