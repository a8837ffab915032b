------------------------------ MODULE Validation ----------------------------
(* The check that turns tables into trusted input                            *)
(* (crates/greatgramma-core/src/validate.rs), and the lookups that rely on   *)
(* it (normalized.rs).  Ids and indices count from zero, as in the code; a   *)
(* table is a sequence, cell i of it being element i + 1.                    *)
EXTENDS Integers, Sequences, FiniteSetsExt

CONSTANTS
    Max32, Max64,       \* the largest u32 and u64
    ByteTable,          \* the number of bytes: 256
    Grammars,           \* the tables offered
    LimitsTried

Absent == -1            \* an empty cell of a table
Eos == -1               \* the entry of an end-of-sequence token
Count32 == 0..Max32
Count64 == 0..Max64

LimitKinds ==
    {"Tokens", "DfaStates", "DfaClasses", "ParserStates", "Terminals", "Nonterminals",
     "Productions", "DfaCells", "ParserCells", "Work", "TokenBytes", "LogicalBytes"}

(* Of a token, only the number of its bytes.                                 *)
ASSUME ValidationAssumption ==
    /\ {Max32, Max64, ByteTable} \subseteq Nat
    /\ \A g \in Grammars :
         /\ {g.dfa_states, g.classes, g.dfa_start, g.parser_states, g.terminals,
             g.nonterminals, g.parser_start, g.eof} \subseteq Count32
         /\ g.tokens \in Seq(Count64 \cup {Eos})
         /\ g.byte_classes \in Seq(Count32)
         /\ {g.transitions, g.labels, g.gotos} \subseteq Seq(Count32 \cup {Absent})
         /\ {g.productions, g.ignored} \subseteq Seq(Count32)
         /\ g.actions \in Seq([type : {"error", "accept"}]
                                \cup [type : {"shift"}, to : Count32]
                                \cup [type : {"reduce"}, production : Count32])
    /\ LimitsTried \subseteq [LimitKinds -> Count64]

VARIABLES
    grammar, limits,
    stage,              \* what is checked next
    index,              \* of the next token
    work, bytes,        \* what checking has cost, and the bytes of the tokens
    kinds,              \* of the tokens met
    error

vars == <<grammar, limits, stage, index, work, bytes, kinds, error>>

NoError == <<"none">>

Init ==
    /\ grammar \in Grammars /\ limits \in LimitsTried
    /\ stage = "sizes" /\ index = 1
    /\ work = 0 /\ bytes = 0 /\ kinds = {}
    /\ error = NoError
-----------------------------------------------------------------------------
(* A stage is a list of tests, each with its error; the first that fails     *)
(* ends the check.                                                           *)
Test(holds, why) == [holds |-> holds, why |-> why]
Limit(kind, actual) == Test(actual <= limits[kind], <<"LimitExceeded", kind>>)
Fits(n, maximum, calculation) == Test(n <= maximum, <<"ArithmeticOverflow", calculation>>)

(* Mutant: an error is noted, and the check goes on.                         *)
PassNoting(tests, next) ==
    LET failing == {i \in 1..Len(tests) : ~tests[i].holds}
    IN /\ stage' = next
       /\ error' = IF failing = {} THEN error ELSE tests[Min(failing)].why

Pass(tests, next) ==
    LET failing == {i \in 1..Len(tests) : ~tests[i].holds}
    IN IF failing = {} THEN stage' = next /\ UNCHANGED error
       ELSE stage' = "refused" /\ error' = tests[Min(failing)].why

Unread == UNCHANGED <<grammar, limits, index, bytes, kinds>>
-----------------------------------------------------------------------------
(* What the declared sizes come to.  All terms are natural numbers, so that  *)
(* a sum overflows at some addition if and only if the total is too large.   *)
DfaCells == grammar.dfa_states * grammar.classes
ActionCells == grammar.parser_states * grammar.terminals
GotoCells == grammar.parser_states * grammar.nonterminals

BaseWork ==
    8 + ByteTable + grammar.dfa_states + DfaCells + 2 * ActionCells + GotoCells
      + Len(grammar.productions) + Len(grammar.ignored)

(* Mutant: an action is counted as an id.                                    *)
LogicalBytesOfIds ==
    Len(grammar.tokens) + bytes
      + 4 * (8 + ByteTable + DfaCells + grammar.dfa_states + ActionCells + GotoCells
               + Len(grammar.ignored))
      + 8 * Len(grammar.productions)

LogicalBytes ==
    Len(grammar.tokens) + bytes
      + 4 * (8 + ByteTable + DfaCells + grammar.dfa_states + GotoCells + Len(grammar.ignored))
      + 12 * ActionCells + 8 * Len(grammar.productions)

(* validate_declared_sizes, up to the tokens.                                *)
DeclaredSizes == <<
    Test(grammar.tokens # <<>>, <<"EmptyTokenTable">>),
    Fits(Len(grammar.tokens), Max32, "TokenCount"),
    Limit("Tokens", Len(grammar.tokens)),
    Limit("DfaStates", grammar.dfa_states),
    Limit("DfaClasses", grammar.classes),
    Limit("ParserStates", grammar.parser_states),
    Limit("Terminals", grammar.terminals),
    Limit("Nonterminals", grammar.nonterminals),
    Fits(Len(grammar.productions), Max32, "ProductionCount"),
    Fits(Len(grammar.ignored), Max32, "IgnoredTerminalCount"),
    Limit("Productions", Len(grammar.productions)),
    Fits(DfaCells, Max32, "LexerCells"),
    Limit("DfaCells", DfaCells),
    Fits(ActionCells, Max32, "ParserActionCells"),
    Fits(GotoCells, Max32, "ParserGotoCells"),
    Fits(ActionCells + GotoCells, Max32, "ParserCells"),
    Limit("ParserCells", ActionCells + GotoCells),
    Fits(BaseWork, Max64, "Work"),
    Limit("Work", BaseWork) >>

CheckSizes ==
    /\ stage = "sizes"
    /\ Pass(DeclaredSizes, "tokens")
    /\ work' = IF stage' = "tokens" THEN BaseWork ELSE 0
    /\ Unread

(* validate_token_entry.                                                     *)
Entry == grammar.tokens[index]

(* Mutant: the bytes of a token are free.                                    *)
TokenCostOfEntry == 1

TokenCost == IF Entry = Eos THEN 1 ELSE 1 + Entry

TokenTests ==
    <<Fits(work + 1, Max64, "Work"), Limit("Work", work + 1)>>
      \o IF Entry = Eos THEN <<>>
         ELSE << Test(Entry # 0, <<"EmptyTokenBytes">>),
                 Fits(bytes + Entry, Max64, "TokenBytes"),
                 Limit("TokenBytes", bytes + Entry),
                 Fits(work + TokenCost, Max64, "Work"),
                 Limit("Work", work + TokenCost) >>

CheckToken ==
    /\ stage = "tokens" /\ index <= Len(grammar.tokens)
    /\ Pass(TokenTests, "tokens")
    /\ IF stage' = "refused" THEN UNCHANGED <<index, work, bytes, kinds>>
       ELSE /\ index' = index + 1
            /\ work' = work + TokenCost
            /\ bytes' = IF Entry = Eos THEN bytes ELSE bytes + Entry
            /\ kinds' = kinds \cup {IF Entry = Eos THEN "eos" ELSE "ordinary"}
    /\ UNCHANGED <<grammar, limits>>

CheckTotals ==
    /\ stage = "tokens" /\ index > Len(grammar.tokens)
    /\ Pass(<< Test("ordinary" \in kinds, <<"MissingOrdinaryToken">>),
               Test("eos" \in kinds, <<"MissingEosToken">>),
               Fits(LogicalBytes, Max64, "LogicalBytes"),
               Limit("LogicalBytes", LogicalBytes) >>,
            "tables")
    /\ Unread /\ UNCHANGED work
-----------------------------------------------------------------------------
(* The tables, in the order of validate.  Those of one table share an error. *)
Length(table, expected, name) == Test(Len(table) = expected, <<"WrongTableLength", name>>)
Id(id, count, name) == Test(id < count, <<"IdOutOfRange", name>>)
Ids(table, count, name) ==
    Test(\A i \in 1..Len(table) : table[i] < count, <<"IdOutOfRange", name>>)

Lengths == <<
    Length(grammar.byte_classes, ByteTable, "LexerByteClasses"),
    Length(grammar.transitions, DfaCells, "LexerTransitions"),
    Length(grammar.labels, grammar.dfa_states, "LexerTerminals"),
    Length(grammar.actions, ActionCells, "ParserActions"),
    Length(grammar.gotos, GotoCells, "ParserGotos") >>

(* A cell of a table that is searched up to its first error: the label or    *)
(* the action wrong first says how.                                          *)
FirstWrong(wrong, why) == Test(wrong = {}, IF wrong = {} THEN NoError ELSE why[Min(wrong)])

WrongIgnored ==
    {i \in 1..Len(grammar.ignored) :
        grammar.ignored[i] >= grammar.terminals \/ grammar.ignored[i] = grammar.eof}
IgnoredWhy(i) ==
    IF grammar.ignored[i] >= grammar.terminals THEN <<"IdOutOfRange", "ParserIgnoredTerminals">>
    ELSE <<"IgnoredTerminalIsParserEof">>

WrongLabels ==
    {i \in 1..Len(grammar.labels) :
        /\ grammar.labels[i] # Absent
        /\ \/ grammar.labels[i] >= grammar.terminals
           \/ i - 1 = grammar.dfa_start
           \/ grammar.labels[i] = grammar.eof}
LabelWhy(i) ==
    IF grammar.labels[i] >= grammar.terminals THEN <<"IdOutOfRange", "LexerTerminals">>
    ELSE IF i - 1 = grammar.dfa_start THEN <<"AcceptingLexerStart">>
    ELSE <<"LexerTerminalIsParserEof">>

(* Mutant: the row of a cell is taken for its column.                        *)
ColumnOfRow(i) == (i - 1) \div grammar.terminals

Column(i) == (i - 1) % grammar.terminals

ActionWrong(action, column) ==
    \/ action.type = "shift" /\ action.to >= grammar.parser_states
    \/ action.type = "reduce" /\ action.production >= Len(grammar.productions)
    \/ action.type = "accept" /\ column # grammar.eof
WrongActions ==
    {i \in 1..Len(grammar.actions) : ActionWrong(grammar.actions[i], Column(i))}
ActionWhy(i) ==
    IF grammar.actions[i].type = "accept" THEN <<"AcceptOnNonEof">>
    ELSE <<"IdOutOfRange", "ParserActions">>

CheckLengths ==
    /\ stage = "tables"
    /\ Pass(Lengths, "ids")
    /\ Unread /\ UNCHANGED work

CheckIds ==
    /\ stage = "ids"
    /\ Pass(<< Id(grammar.dfa_start, grammar.dfa_states, "LexerStart"),
               Id(grammar.parser_start, grammar.parser_states, "ParserStart"),
               Id(grammar.eof, grammar.terminals, "ParserEof"),
               FirstWrong(WrongIgnored, [i \in WrongIgnored |-> IgnoredWhy(i)]),
               Test(\A i \in 1..Len(grammar.byte_classes) :
                        grammar.byte_classes[i] < grammar.classes, <<"ByteClassOutOfRange">>),
               Ids(grammar.transitions, grammar.dfa_states, "LexerTransitions"),
               FirstWrong(WrongLabels, [i \in WrongLabels |-> LabelWhy(i)]) >>,
            "actions")
    /\ Unread /\ UNCHANGED work

CheckActions ==
    /\ stage = "actions"
    /\ Pass(<< FirstWrong(WrongActions, [i \in WrongActions |-> ActionWhy(i)]),
               Ids(grammar.gotos, grammar.parser_states, "ParserGotos"),
               Ids(grammar.productions, grammar.nonterminals, "Productions") >>,
            "ignored")
    /\ Unread /\ UNCHANGED work

(* build_ignored_terminal_table: memory for it is all that may be lacking.   *)
BuildIgnored ==
    /\ stage = "ignored"
    /\ \E reserved \in BOOLEAN :
         Pass(<<Test(reserved, <<"AllocationFailure", "ParserIgnoredTerminals">>)>>, "accepted")
    /\ Unread /\ UNCHANGED work

Next ==
    \/ CheckSizes \/ CheckToken \/ CheckTotals
    \/ CheckLengths \/ CheckIds \/ CheckActions \/ BuildIgnored

Spec == Init /\ [][Next]_vars
-----------------------------------------------------------------------------
(* The lookups of normalized.rs, on ids that may be anything.                *)
Nothing == -2
Cell(table, i) == IF i < Len(table) THEN table[i + 1] ELSE Nothing

Transition(state, byte) ==
    IF state >= grammar.dfa_states THEN Nothing
    ELSE Cell(grammar.transitions, state * grammar.classes + grammar.byte_classes[byte + 1])
Terminal(state) ==
    IF state >= grammar.dfa_states THEN Nothing ELSE Cell(grammar.labels, state)
ActionAt(state, terminal) ==
    IF state >= grammar.parser_states \/ terminal >= grammar.terminals
    THEN [type |-> "nothing"]
    ELSE IF state * grammar.terminals + terminal < Len(grammar.actions)
         THEN grammar.actions[state * grammar.terminals + terminal + 1]
         ELSE [type |-> "nothing"]
GotoAt(state, nonterminal) ==
    IF state >= grammar.parser_states \/ nonterminal >= grammar.nonterminals THEN Nothing
    ELSE Cell(grammar.gotos, state * grammar.nonterminals + nonterminal)
IsIgnored(terminal) == \E i \in 1..Len(grammar.ignored) : grammar.ignored[i] = terminal
-----------------------------------------------------------------------------
(* Every variable has its type; there is an error just when it is refused.   *)
TypeOK ==
    /\ limits \in LimitsTried
    /\ stage \in {"sizes", "tokens", "tables", "ids", "actions", "ignored", "accepted", "refused"}
    /\ index \in 1..Len(grammar.tokens) + 1
    /\ work \in Count64 /\ bytes \in Count64
    /\ kinds \subseteq {"ordinary", "eos"}
    /\ stage = "refused" <=> error # NoError

(* What is accepted can be run: every lookup an executor makes by an id that *)
(* it was given finds a cell, and in it an id to go on with.  This is what   *)
(* Lexer and Lalr assume of their tables.                                    *)
AcceptedTablesRun ==
    stage = "accepted" =>
      LET dfa == 0..grammar.dfa_states - 1
          parser == 0..grammar.parser_states - 1
          terminals == 0..grammar.terminals - 1
      IN /\ grammar.dfa_start \in dfa /\ Terminal(grammar.dfa_start) = Absent
         /\ \A s \in dfa : /\ Terminal(s) \in (terminals \cup {Absent}) \ {grammar.eof}
                           /\ \A b \in 0..ByteTable - 1 : Transition(s, b) \in dfa \cup {Absent}
         /\ grammar.parser_start \in parser
         /\ grammar.eof \in terminals /\ ~IsIgnored(grammar.eof)
         /\ \A s \in parser, t \in terminals :
              LET action == ActionAt(s, t)
              IN \/ action.type = "error"
                 \/ action.type = "shift" /\ action.to \in parser
                 \/ /\ action.type = "reduce"
                    /\ Cell(grammar.productions, action.production)
                         \in 0..grammar.nonterminals - 1
                 \/ action.type = "accept" /\ t = grammar.eof
         /\ \A s \in parser, n \in 0..grammar.nonterminals - 1 :
              GotoAt(s, n) \in parser \cup {Absent}

(* The bytes of the first n tokens, each of them a place; Eos has none.      *)
BytesOf(n) == Cardinality(UNION {{i} \X (1..grammar.tokens[i]) : i \in 1..n})

(* The sizes, computed exactly and of the tables as they are, are within the *)
(* limits and the widths.                                                    *)
TotalBytes == BytesOf(Len(grammar.tokens))
Within(kind, n) == n <= limits[kind]
SizesAreGood ==
    /\ Within("Tokens", Len(grammar.tokens))
    /\ Within("TokenBytes", TotalBytes)
    /\ Within("DfaStates", grammar.dfa_states) /\ Within("DfaClasses", grammar.classes)
    /\ Within("DfaCells", DfaCells) /\ DfaCells <= Max32
    /\ Within("ParserStates", grammar.parser_states)
    /\ Within("Terminals", grammar.terminals) /\ Within("Nonterminals", grammar.nonterminals)
    /\ Within("ParserCells", ActionCells + GotoCells) /\ ActionCells + GotoCells <= Max32
    /\ Within("Productions", Len(grammar.productions))
    /\ {Len(grammar.tokens), Len(grammar.productions), Len(grammar.ignored)} \subseteq Count32
    /\ Within("Work", 8 + ByteTable + grammar.dfa_states + DfaCells + ActionCells
                        + ActionCells + GotoCells + Len(grammar.productions)
                        + Len(grammar.ignored) + Len(grammar.tokens) + TotalBytes)
    /\ Within("LogicalBytes", Len(grammar.tokens) + TotalBytes + 8 * Len(grammar.productions)
                        + 4 * (8 + ByteTable + DfaCells + grammar.dfa_states)
                        + 4 * (3 * ActionCells + GotoCells + Len(grammar.ignored)))

(* No table is looked at, not even its length, before the limits are known   *)
(* to hold of the sizes it is declared to have (the order of validate):      *)
(* whatever is wrong with a table, an input too large is refused as such.    *)
SizesBeforeTables ==
    \/ stage \in {"tables", "ids", "actions", "ignored", "accepted"}
    \/ error[1] \in {"WrongTableLength", "IdOutOfRange", "ByteClassOutOfRange",
                     "AcceptOnNonEof", "AllocationFailure"}
    => SizesAreGood

(* The token loop never gets ahead of its limits, and counts exactly.        *)
TokensAreCounted ==
    stage \in {"tokens", "tables"} =>
      LET read == BytesOf(index - 1)
      IN /\ bytes = read /\ bytes <= limits["TokenBytes"]
         /\ work = BaseWork + index - 1 + read /\ work <= limits["Work"]
=============================================================================
