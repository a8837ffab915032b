----------------------------- MODULE Preparation ----------------------------
(* prepare() of crates/greatgramma-core/src/engine.rs: the loops that build  *)
(* the token table (token_step.rs), the singleton terminals (sequence.rs),   *)
(* the inverse buckets (spanner.rs) and the classification table             *)
(* (preprocess.rs), under one budget of work and one limit on items.         *)
(*                                                                           *)
(* An action is the entry of a stage or one iteration of an innermost loop.  *)
(* A limit that is passed ends the preparation, and nothing of it is kept.   *)
EXTENDS Prepared, Functions

CONSTANTS
    SourceOrder, ByteOrder, TokenOrder, TerminalOrder, StateOrder,
    WorkLimits, ItemLimits          \* the limits preparation is tried with

IsOrder(s, S) == s \in Seq(S) /\ Range(s) = S /\ IsInjective(s)

ASSUME PreparationAssumption ==
    /\ IsOrder(SourceOrder, Sources) /\ SourceOrder[1] = LogicalStart
    /\ IsOrder(ByteOrder, Bytes) /\ ByteOrder # <<>>
    /\ IsOrder(TokenOrder, Tokens) /\ TokenOrder # <<>>         \* validate.rs
    /\ IsOrder(TerminalOrder, Terminals) /\ IsOrder(StateOrder, ParserStates)
    /\ WorkLimits \subseteq Nat /\ ItemLimits \subseteq Nat

VARIABLES
    limits,         \* max_work and max_items
    stage,          \* which loop is running, or about to be entered
    row, column,    \* its two indexes
    inner,          \* the index of the loop within an iteration, 0 before it
    work,           \* WorkBudget.used
    emitted_items, sequence_items, inverse_members,
    table,          \* the token table, a row per source
    facts,          \* the worklist, all that was ever added
    predecessors,
    singletons,     \* of each source, in terminal order
    sequences,      \* the interned heads
    inverse,        \* the buckets of each source, with the ids of their heads
    classes         \* the classification table, a row per parser state

loop == <<stage, row, column, inner>>
built == <<emitted_items, table>>
worklist == <<facts, predecessors>>
inverted == <<sequence_items, inverse_members, sequences, inverse>>
vars == <<limits, loop, work, built, worklist, singletons, inverted, classes>>

Source == SourceOrder[row]
Token == TokenOrder[column]

Init ==
    /\ limits \in [max_work : WorkLimits, max_items : ItemLimits]
    /\ stage = "prepare_token_table" /\ row = 1 /\ column = 1 /\ inner = 0
    /\ work = 0 /\ emitted_items = 0 /\ sequence_items = 0 /\ inverse_members = 0
    /\ table = [s \in Sources |-> <<>>]
    /\ facts = <<>>
    /\ predecessors = [s \in Sources |-> <<>>]
    /\ singletons = [s \in Sources |-> <<>>]
    /\ sequences = <<>>
    /\ inverse = [s \in Sources |-> <<>>]
    /\ classes = [state \in ParserStates |-> <<>>]
-----------------------------------------------------------------------------
(* Mutant: the items are not limited.                                        *)
AffordsAnyItems(charges, items) == work + charges <= limits.max_work

(* charge and check_items.                                                   *)
Affords(charges, items) ==
    work + charges <= limits.max_work /\ \A n \in items : n <= limits.max_items

Spend(charges, items) == Affords(charges, items) /\ work' = work + charges
Fails(goesOn) ==
    /\ ~goesOn
    /\ stage' = "failed"
    /\ UNCHANGED <<row, column, inner, limits, work, built, worklist, singletons, inverted, classes>>
Refuse(charges, items) == Fails(Affords(charges, items))

(* A stage starts at its first cell.                                         *)
Enter(next) == stage' = next /\ row' = 1 /\ column' = 1 /\ inner' = 0

(* The next iteration of a loop over rows and columns, or the next stage.    *)
NextCell(rows, columns, next) ==
    /\ stage' = IF row = rows /\ column = columns THEN next ELSE stage
    /\ row' = IF column < columns THEN row ELSE IF row < rows THEN row + 1 ELSE 1
    /\ column' = IF column < columns THEN column + 1 ELSE 1
    /\ inner' = 0

(* The first place of a value in a sequence, or the next free one.           *)
PlaceIn(s, x) ==
    IF x \in Range(s) THEN CHOOSE i \in 1..Len(s) : s[i] = x /\ \A j \in 1..i - 1 : s[j] # x
    ELSE Len(s) + 1
-----------------------------------------------------------------------------
(* prepare_token_table, up to its loops.                                     *)
BeginTable ==
    LET cells == Len(SourceOrder) * Len(TokenOrder)
    IN /\ stage = "prepare_token_table"
       /\ \/ /\ Spend(cells, {cells})
             /\ Enter("table")
             /\ UNCHANGED <<limits, built, worklist, singletons, inverted, classes>>
          \/ Refuse(cells, {cells})

(* append_token_cell.                                                        *)
TokenWork == IF Token \in EosTokens THEN 1 ELSE Len(TokenBytes[Token])
Emitted(execution) == IF execution.kind = "None" THEN 0 ELSE Len(execution.emitted)

AppendTokenCell ==
    LET execution == Execute(Source, Token)
        items == {IF Token \in EosTokens THEN 0 ELSE TokenWork, emitted_items + Emitted(execution)}
    IN /\ stage = "table"
       /\ \/ /\ Spend(TokenWork, items)
             /\ emitted_items' = emitted_items + Emitted(execution)
             /\ table' = [table EXCEPT ![Source] = Append(@, execution)]
             /\ NextCell(Len(SourceOrder), Len(TokenOrder), "build_singletons")
             /\ UNCHANGED <<limits, worklist, singletons, inverted, classes>>
          \/ Refuse(TokenWork, items)

Cell(s, token) == table[s][PlaceIn(TokenOrder, token)]
-----------------------------------------------------------------------------
(* Mutant: there is no seen table.                                           *)
AddFactAgain(known, fact) == Append(known, fact)

Fact(s, t) == [source |-> s, terminal |-> t]
AddFact(known, fact) == IF fact \in Range(known) THEN known ELSE Append(known, fact)

(* build_singletons, up to its loops.                                        *)
BeginScan ==
    LET byteSteps == Len(SourceOrder) * Len(ByteOrder)
        items == {Len(SourceOrder) * Len(TerminalOrder), byteSteps}
    IN /\ stage = "build_singletons"
       /\ \/ /\ Spend(byteSteps, items)
             /\ Enter("scan")
             /\ UNCHANGED <<limits, built, worklist, singletons, inverted, classes>>
          \/ Refuse(byteSteps, items)

(* Mutant: a state that does not accept has a label too.                     *)
LabelledAll ==
    IF column = 1 /\ Source # LogicalStart THEN AddFact(facts, Fact(Source, Label[Source])) ELSE facts

(* What a lexer state accepts is a fact of it, noted before its bytes are    *)
(* tried.                                                                    *)
Labelled ==
    IF column = 1 /\ Source # LogicalStart /\ Label[Source] # NoTerminal
    THEN AddFact(facts, Fact(Source, Label[Source])) ELSE facts

(* scan_byte: an emission is a fact; a move makes the source a predecessor   *)
(* of its destination, once.                                                 *)
Destinations == {d \in Sources : Source \in Range(predecessors[d])}
ScanByte ==
    LET step == ByteStep(Source, ByteOrder[column])
        moves == step # Rejection /\ step.emitted = <<>>
        new == moves /\ step.state \notin Destinations
        charges == IF moves THEN Cardinality(Destinations) ELSE 0
    IN /\ stage = "scan"
       /\ \/ /\ Spend(charges, {})
             /\ facts' = IF step.emitted = <<>> THEN Labelled
                         ELSE AddFact(Labelled, Fact(Source, step.emitted[1]))
             /\ predecessors' = IF new THEN [predecessors EXCEPT ![step.state] = Append(@, Source)]
                                ELSE predecessors
             /\ NextCell(Len(SourceOrder), Len(ByteOrder), "propagate")
             /\ UNCHANGED <<limits, built, singletons, inverted, classes>>
          \/ Refuse(charges, {})

(* propagate_facts: row is its cursor.  The next fact of the worklist        *)
(* becomes one of every predecessor of its source.                           *)
Before == predecessors[facts[row].source]

(* Mutant: the index of the predecessors is not counted up.                  *)
NextFactAgain ==
    IF inner < Len(Before) THEN inner' = 1 /\ UNCHANGED row
    ELSE inner' = 0 /\ row' = row + 1

NextFact ==
    IF inner < Len(Before) THEN inner' = inner + 1 /\ UNCHANGED row
    ELSE inner' = 0 /\ row' = row + 1

BeginFact ==
    /\ stage = "propagate" /\ inner = 0 /\ row <= Len(facts)
    /\ \/ /\ Spend(Len(Before), {})
          /\ NextFact
          /\ UNCHANGED <<stage, column, limits, built, worklist, singletons, inverted, classes>>
       \/ Refuse(Len(Before), {})

PropagatePredecessor ==
    /\ stage = "propagate" /\ inner > 0
    /\ facts' = AddFact(facts, Fact(Before[inner], facts[row].terminal))
    /\ NextFact
    /\ UNCHANGED <<stage, column, limits, work, built, predecessors, singletons, inverted, classes>>

EndPropagation ==
    /\ stage = "propagate" /\ inner = 0 /\ row > Len(facts)
    /\ Enter("collect")
    /\ UNCHANGED <<limits, work, built, worklist, singletons, inverted, classes>>

(* collect_singleton, and the charge of its row before the first.            *)
CollectSingleton ==
    LET terminal == TerminalOrder[column]
        charges == IF column = 1 THEN Len(TerminalOrder) ELSE 0
    IN /\ stage = "collect"
       /\ \/ /\ Spend(charges, {})
             /\ singletons' = IF Fact(Source, terminal) \in Range(facts)
                              THEN [singletons EXCEPT ![Source] = Append(@, terminal)]
                              ELSE singletons
             /\ NextCell(Len(SourceOrder), Len(TerminalOrder), "invert")
             /\ UNCHANGED <<limits, built, worklist, inverted, classes>>
          \/ Refuse(charges, {})
-----------------------------------------------------------------------------
Execution == table[Source][column]
Continuations == IF Execution.kind = "Continue" THEN singletons[Execution.state] ELSE <<>>

NextContinuation ==
    IF inner < Len(Continuations)
    THEN inner' = inner + 1 /\ UNCHANGED <<stage, row, column>>
    ELSE NextCell(Len(SourceOrder), Len(TokenOrder), "prepare_parser")

(* append_token_continuations, up to its loop.                               *)
BeginToken ==
    LET members == inverse_members + Len(Continuations)
        items == IF Execution.kind = "Continue" THEN {members} ELSE {}
    IN /\ stage = "invert" /\ inner = 0
       /\ \/ /\ Spend(1, items)
             /\ inverse_members' = members
             /\ NextContinuation
             /\ UNCHANGED <<limits, built, worklist, singletons, sequence_items, sequences, inverse,
                            classes>>
          \/ Refuse(1, items)

(* append_continuation: intern_head gives the head an id, and the token      *)
(* joins the bucket of that id.                                              *)
NextHead == Append(Execution.emitted, Continuations[inner])

(* Mutant: matches_sequence compares lengths only.                           *)
InternedByLength(head) == PlaceIn([i \in 1..Len(sequences) |-> Len(sequences[i])], Len(head))

Interned(head) == PlaceIn(sequences, head)
SearchWork(head) ==
    (IF head \in Range(sequences) THEN Interned(head) ELSE Len(sequences)) * Len(head)
BucketOf(buckets, id) == PlaceIn([i \in 1..Len(buckets) |-> buckets[i].sequence], id)

(* append_member: to the bucket of the id, or to a new one.                  *)
WithMember(buckets, id, token) ==
    IF BucketOf(buckets, id) > Len(buckets) THEN Append(buckets, [sequence |-> id, tokens |-> <<token>>])
    ELSE [buckets EXCEPT ![BucketOf(buckets, id)].tokens = Append(@, token)]

AppendContinuation ==
    LET id == Interned(NextHead)
        isNew == id > Len(sequences)
        buckets == inverse[Source]
        index == BucketOf(buckets, id)
        charges == 1 + Len(Execution.emitted) + SearchWork(NextHead) + Len(buckets)
        items == {Len(NextHead), IF index > Len(buckets) THEN Len(buckets) + 1
                                 ELSE Len(buckets[index].tokens) + 1}
                   \cup (IF isNew THEN {Len(sequences) + 1, sequence_items + Len(NextHead)} ELSE {})
    IN /\ stage = "invert" /\ inner > 0
       /\ \/ /\ Spend(charges, items)
             /\ sequences' = IF isNew THEN Append(sequences, NextHead) ELSE sequences
             /\ sequence_items' = IF isNew THEN sequence_items + Len(NextHead) ELSE sequence_items
             /\ inverse' = [inverse EXCEPT ![Source] = WithMember(@, id, Token)]
             /\ NextContinuation
             /\ UNCHANGED <<limits, built, worklist, singletons, inverse_members, classes>>
          \/ Refuse(charges, items)
-----------------------------------------------------------------------------
(* prepare_parser_with_budget, up to its loops.                              *)
BeginClassify ==
    LET states == Len(StateOrder)
        items == {states * Len(sequences) + states}
    IN /\ stage = "prepare_parser"
       /\ \/ /\ Spend(states, items)
             /\ Enter(IF sequences = <<>> THEN "done" ELSE "classify")
             /\ UNCHANGED <<limits, built, worklist, singletons, inverted, classes>>
          \/ Refuse(states, items)

(* classify_sequence_head_with_budget: the run may do no more work than is   *)
(* left, and a run that meets an inconsistency ends the preparation too.     *)
ClassifyHead ==
    LET run == Run(sequences[column], BeginSymbolic(StateOrder[row], limits.max_work - work))
    IN /\ stage = "classify"
       /\ \/ /\ Spend(run.used, {})
             /\ run.decision \in Decisions
             /\ classes' = [classes EXCEPT ![StateOrder[row]] = Append(@, Classify(run.decision))]
             /\ NextCell(Len(StateOrder), Len(sequences), "done")
             /\ UNCHANGED <<limits, built, worklist, singletons, inverted>>
          \/ Fails(Affords(run.used, {}) /\ run.decision \in Decisions)

Next ==
    \/ BeginTable \/ AppendTokenCell
    \/ BeginScan \/ ScanByte
    \/ BeginFact \/ PropagatePredecessor \/ EndPropagation \/ CollectSingleton
    \/ BeginToken \/ AppendContinuation
    \/ BeginClassify \/ ClassifyHead

Spec == Init /\ [][Next]_vars /\ WF_vars(Next)
-----------------------------------------------------------------------------
Facts == [source : Sources, terminal : LexerTerminals]
InverseBuckets == [sequence : Nat \ {0}, tokens : Seq(Tokens) \ {<<>>}]
Classes == {"Rejected", "Dependent", "AlwaysReadable"}
Stages == {"prepare_token_table", "table", "build_singletons", "scan", "propagate", "collect",
           "invert", "prepare_parser", "classify", "done", "failed"}

TypeOK ==
    /\ limits \in [max_work : Nat, max_items : Nat]
    /\ stage \in Stages /\ row \in Nat \ {0} /\ column \in Nat \ {0} /\ inner \in Nat
    /\ {work, emitted_items, sequence_items, inverse_members} \subseteq Nat
    /\ table \in [Sources -> Seq(Executions)]
    /\ facts \in Seq(Facts) /\ predecessors \in [Sources -> Seq(Sources)]
    /\ singletons \in [Sources -> Seq(LexerTerminals)]
    /\ sequences \in Seq(Seq(Terminals) \ {<<>>})
    /\ inverse \in [Sources -> Seq(InverseBuckets)]
    /\ classes \in [ParserStates -> Seq(Classes)]

(* The values of s come in an order, and none comes twice.                   *)
InOrder(s, order) ==
    \A i, j \in 1..Len(s) : i < j => PlaceIn(order, s[i]) < PlaceIn(order, s[j])

(* The worklist reaches the least fixed point: a terminal is collected for a *)
(* source just when some bytes read from there can make it come first.       *)
Collected == {"invert", "prepare_parser", "classify", "done"}
SingletonsAreExact ==
    stage \in Collected => \A s \in Sources :
        Range(singletons[s]) = Singletons[s] /\ InOrder(singletons[s], TerminalOrder)

(* The worklist's own invariant: it holds nothing twice, nothing wrong, and  *)
(* what is behind the cursor has reached the predecessors: how many of them, *)
(* for the fact at the cursor.                                               *)
Passed(i) ==
    IF stage \in {"collect"} \cup Collected \/ (stage = "propagate" /\ i < row)
    THEN Len(predecessors[facts[i].source])
    ELSE IF stage = "propagate" /\ i = row /\ inner > 0 THEN inner - 1 ELSE 0
WorklistIsSound ==
    /\ IsInjective(facts)
    /\ \A i \in 1..Len(facts) : facts[i].terminal \in Singletons[facts[i].source]
    /\ \A i \in 1..Len(facts) : \A k \in 1..Passed(i) :
          Fact(predecessors[facts[i].source][k], facts[i].terminal) \in Range(facts)

(* A finished preparation holds just the tables a matcher takes it to hold,  *)
(* whatever its limits were: every bucket holds the tokens of its head once  *)
(* and in order, a source has one bucket per head, and a head has one id.    *)
InverseIsExact(s) ==
    /\ IsInjective([i \in 1..Len(inverse[s]) |-> inverse[s][i].sequence])
    /\ {sequences[bucket.sequence] : bucket \in Range(inverse[s])} = DOMAIN Buckets[s]
    /\ \A bucket \in Range(inverse[s]) :
         /\ Range(bucket.tokens) = Buckets[s][sequences[bucket.sequence]]
         /\ InOrder(bucket.tokens, TokenOrder)
TablesAreExact ==
    /\ SingletonsAreExact
    /\ stage = "done" =>
         /\ \A s \in Sources, token \in Tokens : Cell(s, token) = TokenTable[s][token]
         /\ IsInjective(sequences) /\ Range(sequences) = SequenceHeads
         /\ \A s \in Sources : InverseIsExact(s)
         /\ \A state \in ParserStates :
              classes[state] = [i \in 1..Len(sequences) |-> ClassTable[state][sequences[i]]]

(* The limits bound what is built and what is spent on it, all along, though *)
(* the code keeps the totals in counters of its own.                         *)
Total(numbers) ==
    LET sum[n \in 0..Len(numbers)] == IF n = 0 THEN 0 ELSE sum[n - 1] + numbers[n]
    IN sum[Len(numbers)]
Lengths(s) == [i \in 1..Len(s) |-> Len(s[i])]
Members(buckets) == Total([i \in 1..Len(buckets) |-> Len(buckets[i].tokens)])
LimitsHold ==
    /\ work <= limits.max_work
    /\ \A s \in Sources : table[s] # <<>> => Len(SourceOrder) * Len(TokenOrder) <= limits.max_items
    /\ emitted_items <= limits.max_items
    /\ Total(Lengths(sequences)) <= limits.max_items
    /\ Total([i \in 1..Len(SourceOrder) |-> Members(inverse[SourceOrder[i]])]) <= limits.max_items
    /\ \A state \in ParserStates :
         classes[state] # <<>> => Len(StateOrder) * (Len(sequences) + 1) <= limits.max_items

(* Preparation ends, with the tables or with a refusal.                      *)
Ends == <>(stage \in {"done", "failed"})
=============================================================================
