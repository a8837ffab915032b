-------------------------- MODULE PreparationProofs -------------------------
(* What preparation builds, for every grammar, vocabulary and limit: the     *)
(* loops of prepare() end with the tables of Prepared or with a refusal.     *)
EXTENDS Preparation, PreparedProofs, FiniteSetTheorems

-----------------------------------------------------------------------------
(* Places in a sequence, and the orders of the loops.                        *)

(* The first place of a value is one of its places, or the next free one.    *)
LEMMA PlaceFound ==
    ASSUME NEW S, NEW s \in Seq(S), NEW x
    PROVE  /\ PlaceIn(s, x) \in 1..Len(s) + 1
           /\ x \in Range(s) => PlaceIn(s, x) \in 1..Len(s) /\ s[PlaceIn(s, x)] = x
           /\ x \notin Range(s) => PlaceIn(s, x) = Len(s) + 1
<1> DEFINE places == {i \in 1..Len(s) : s[i] = x}
<1>1. Len(s) \in Nat /\ DOMAIN s = 1..Len(s)
  OBVIOUS
<1>2. CASE x \in Range(s)
  <2>1. places # {} /\ places \subseteq Nat
    BY <1>1, <1>2 DEF Range
  <2> HIDE DEF places
  <2>2. PICK i \in places : \A j \in places : i <= j
    BY <2>1, LeastExists
  <2> USE DEF places
  <2>3. i \in 1..Len(s) /\ s[i] = x /\ \A j \in 1..i - 1 : s[j] # x
    BY <1>1, <2>2
  <2>4. PlaceIn(s, x) = CHOOSE k \in 1..Len(s) : s[k] = x /\ \A j \in 1..k - 1 : s[j] # x
    BY <1>2 DEF PlaceIn
  <2>5. PlaceIn(s, x) \in 1..Len(s) /\ s[PlaceIn(s, x)] = x
    BY <2>3, <2>4
  <2> QED
    BY <1>1, <1>2, <2>5
<1>3. CASE x \notin Range(s)
  BY <1>1, <1>3 DEF PlaceIn
<1> QED
  BY <1>2, <1>3

(* In a sequence without repetitions, a value has one place.                 *)
LEMMA OnePlace ==
    ASSUME NEW S, NEW s \in Seq(S), IsInjective(s), NEW i \in 1..Len(s)
    PROVE  PlaceIn(s, s[i]) = i
<1>1. s[i] \in Range(s)
  BY DEF Range
<1>2. PlaceIn(s, s[i]) \in 1..Len(s) /\ s[PlaceIn(s, s[i])] = s[i]
  BY <1>1, PlaceFound
<1> QED
  BY <1>2 DEF IsInjective

(* An order enumerates its set, and gives every member its place.            *)
LEMMA OrderPlaces ==
    ASSUME NEW S, NEW order, IsOrder(order, S)
    PROVE  /\ order \in Seq(S) /\ Len(order) \in Nat /\ IsInjective(order)
           /\ \A i \in 1..Len(order) : order[i] \in S /\ PlaceIn(order, order[i]) = i
           /\ \A x \in S : PlaceIn(order, x) \in 1..Len(order) /\ order[PlaceIn(order, x)] = x
<1>1. order \in Seq(S) /\ Range(order) = S /\ IsInjective(order)
  BY DEF IsOrder
<1>2. \A i \in 1..Len(order) : order[i] \in S /\ PlaceIn(order, order[i]) = i
  BY <1>1, OnePlace
<1>3. \A x \in S : PlaceIn(order, x) \in 1..Len(order) /\ order[PlaceIn(order, x)] = x
  BY <1>1, PlaceFound
<1> QED
  BY <1>1, <1>2, <1>3

(* The five orders, of which none is empty.                                  *)
LEMMA Orders ==
    /\ IsOrder(SourceOrder, Sources) /\ Len(SourceOrder) \in Nat \ {0}
    /\ IsOrder(ByteOrder, Bytes) /\ Len(ByteOrder) \in Nat \ {0}
    /\ IsOrder(TokenOrder, Tokens) /\ Len(TokenOrder) \in Nat \ {0}
    /\ IsOrder(TerminalOrder, Terminals) /\ Len(TerminalOrder) \in Nat \ {0}
    /\ IsOrder(StateOrder, ParserStates) /\ Len(StateOrder) \in Nat \ {0}
<1>1. \A S, order : IsOrder(order, S) => Len(order) \in Nat
  BY DEF IsOrder
<1>2. ASSUME NEW S, NEW order, IsOrder(order, S), NEW x \in S
      PROVE  Len(order) # 0
  BY <1>2, OrderPlaces
<1>3. LogicalStart \in Sources /\ Eof \in Terminals /\ StartState \in ParserStates
  BY PreparedAssumption DEF Sources
<1>4. ByteOrder \in Seq(Bytes) /\ TokenOrder \in Seq(Tokens)
  BY PreparationAssumption DEF IsOrder
<1>5. Len(ByteOrder) # 0 /\ Len(TokenOrder) # 0
  BY <1>4, PreparationAssumption
<1> QED
  BY <1>1, <1>2, <1>3, <1>5, PreparationAssumption

LEMMA Listed ==
    /\ \A s \in Sources : \E i \in 1..Len(SourceOrder) : SourceOrder[i] = s
    /\ \A b \in Bytes : \E i \in 1..Len(ByteOrder) : ByteOrder[i] = b
    /\ \A token \in Tokens : \E i \in 1..Len(TokenOrder) : TokenOrder[i] = token
    /\ \A t \in Terminals : \E i \in 1..Len(TerminalOrder) : TerminalOrder[i] = t
    /\ \A state \in ParserStates : \E i \in 1..Len(StateOrder) : StateOrder[i] = state
<1>1. ASSUME NEW S, NEW order, IsOrder(order, S), NEW x \in S
      PROVE  \E i \in 1..Len(order) : order[i] = x
  BY <1>1, OrderPlaces
<1> QED
  BY <1>1, Orders

(* A sequence with a value appended to it.                                   *)
LEMMA Grown ==
    ASSUME NEW S, NEW s \in Seq(S), NEW x \in S
    PROVE  /\ Append(s, x) \in Seq(S) \ {<<>>}
           /\ Len(Append(s, x)) = Len(s) + 1 /\ Len(s) \in Nat
           /\ \A i \in 1..Len(s) : Append(s, x)[i] = s[i]
           /\ Append(s, x)[Len(s) + 1] = x
           /\ Range(Append(s, x)) = Range(s) \cup {x}
           /\ x \notin Range(s) /\ IsInjective(s) => IsInjective(Append(s, x))
<1>1. /\ Append(s, x) \in Seq(S) \ {<<>>}
      /\ Len(Append(s, x)) = Len(s) + 1 /\ Len(s) \in Nat
      /\ \A i \in 1..Len(s) : Append(s, x)[i] = s[i]
      /\ Append(s, x)[Len(s) + 1] = x
  BY AppendProperties
<1>2. DOMAIN s = 1..Len(s) /\ DOMAIN Append(s, x) = 1..Len(s) + 1
  BY <1>1
<1> DEFINE t == Append(s, x)
<1> HIDE DEF t
<1>3. Range(t) = Range(s) \cup {x}
  <2>1. \A i \in 1..Len(s) + 1 : i \in 1..Len(s) \/ i = Len(s) + 1
    BY <1>1
  <2> QED
    BY <1>1, <1>2, <2>1 DEF Range, t
<1>4. x \notin Range(s) /\ IsInjective(s) => IsInjective(t)
  BY <1>1, <1>2 DEF Range, IsInjective, t
<1> QED
  BY <1>1, <1>3, <1>4 DEF t
-----------------------------------------------------------------------------
(* Types, the positions of the loops, and the cells of the token table.      *)

(* A refusal keeps everything but the stage.                                 *)
Failing ==
    /\ stage' = "failed"
    /\ UNCHANGED <<row, column, inner, limits, work, built, worklist, singletons, inverted, classes>>

(* How many cells of row i a loop has done that stands at cell c of row r.   *)
Behind(r, c, columns, i) == IF i < r THEN columns ELSE IF i = r THEN c - 1 ELSE 0

(* The next cell is one of the loop, or the first of the next stage when all *)
(* cells are done.                                                           *)
LEMMA CellDone ==
    ASSUME NEW rows \in Nat, NEW columns \in Nat, NEW next,
           row \in 1..rows, column \in 1..columns, NextCell(rows, columns, next)
    PROVE  /\ inner' = 0 /\ row' \in 1..rows /\ column' \in 1..columns
           /\ \/ /\ stage' = stage
                 /\ \A i \in 1..rows : Behind(row', column', columns, i)
                      = IF i = row THEN column ELSE Behind(row, column, columns, i)
              \/ /\ stage' = next /\ row' = 1 /\ column' = 1
                 /\ \A i \in 1..rows :
                      (IF i = row THEN column ELSE Behind(row, column, columns, i)) = columns
           /\ Behind(row, column, columns, row) = column - 1
  BY DEF NextCell, Behind

Position ==
    /\ stage \in {"table", "invert"} => row \in 1..Len(SourceOrder) /\ column \in 1..Len(TokenOrder)
    /\ stage = "scan" => row \in 1..Len(SourceOrder) /\ column \in 1..Len(ByteOrder)
    /\ stage = "collect" => row \in 1..Len(SourceOrder) /\ column \in 1..Len(TerminalOrder)
    /\ stage = "classify" => row \in 1..Len(StateOrder) /\ column \in 1..Len(sequences)
    /\ stage = "propagate" /\ inner > 0 => row \in 1..Len(facts) /\ inner \in 1..Len(Before)
    /\ stage = "invert" /\ inner > 0 => inner \in 1..Len(Continuations)

(* What is in the token table so far is what the tokens do.                  *)
AfterTable == {"build_singletons", "scan", "propagate", "collect", "invert", "prepare_parser",
               "classify", "done"}
RowFilled(i) ==
    LET cells == table[SourceOrder[i]] IN
    /\ stage = "prepare_token_table" => cells = <<>>
    /\ stage = "table" => Len(cells) = Behind(row, column, Len(TokenOrder), i)
    /\ stage \in AfterTable => Len(cells) = Len(TokenOrder)
    /\ \A j \in 1..Len(cells) :
         j \in 1..Len(TokenOrder) /\ cells[j] = Execute(SourceOrder[i], TokenOrder[j])
TableFilled == \A i \in 1..Len(SourceOrder) : RowFilled(i)

TypeInv == TypeOK /\ Position /\ TableFilled

LEMMA Counters ==
    ASSUME TypeOK
    PROVE  work \in Nat /\ emitted_items \in Nat /\ sequence_items \in Nat /\ inverse_members \in Nat
  BY DEF TypeOK
LEMMA SourceHere ==
    ASSUME row \in 1..Len(SourceOrder)
    PROVE  Source \in Sources
  BY Orders, OrderPlaces DEF Source
LEMMA SourceApart ==
    ASSUME NEW i \in 1..Len(SourceOrder), NEW j \in 1..Len(SourceOrder)
    PROVE  SourceOrder[i] \in Sources /\ (SourceOrder[i] = SourceOrder[j] <=> i = j)
<1>1. IsOrder(SourceOrder, Sources)
  BY Orders
<1>2. /\ SourceOrder[i] \in Sources /\ PlaceIn(SourceOrder, SourceOrder[i]) = i
      /\ PlaceIn(SourceOrder, SourceOrder[j]) = j
  BY <1>1, OrderPlaces
<1> QED
  BY <1>2
LEMMA TokenHere ==
    ASSUME column \in 1..Len(TokenOrder)
    PROVE  Token \in Tokens
  BY Orders, OrderPlaces DEF Token

(* The execution a cell holds, while the buckets are built.                  *)
LEMMA ExecutionHere ==
    ASSUME TypeInv, stage = "invert"
    PROVE  /\ Source \in Sources /\ Token \in Tokens
           /\ Execution = Execute(Source, Token) /\ Execution \in Executions
           /\ Execution.kind = "Continue" =>
                Execution.state \in Sources /\ Execution.emitted \in Seq(LexerTerminals)
           /\ Continuations \in Seq(LexerTerminals) /\ Len(Continuations) \in Nat
           /\ Execution.kind # "Continue" => Continuations = <<>>
<1>1. row \in 1..Len(SourceOrder) /\ column \in 1..Len(TokenOrder)
  BY DEF TypeInv, Position
<1>2. Source \in Sources /\ Token \in Tokens
  BY <1>1, SourceHere, TokenHere
<1>3. Execution = Execute(Source, Token)
  <2>1. RowFilled(row)
    BY <1>1 DEF TypeInv, TableFilled
  <2>2. Len(table[Source]) = Len(TokenOrder)
    BY <2>1 DEF RowFilled, AfterTable, Source
  <2> QED
    BY <1>1, <2>1, <2>2 DEF RowFilled, Execution, Source, Token
<1>4. Execution \in Executions
  BY <1>2, <1>3, ExecutionType
<1>5. /\ Execution.kind = "Continue" =>
           Execution.state \in Sources /\ Execution.emitted \in Seq(LexerTerminals)
  BY <1>4 DEF Executions
<1>6. Continuations \in Seq(LexerTerminals) /\ (Execution.kind # "Continue" => Continuations = <<>>)
  BY <1>5 DEF Continuations, TypeInv, TypeOK
<1> QED
  BY <1>2, <1>3, <1>4, <1>5, <1>6

(* What a failed step leaves is typed.                                       *)
LEMMA TypeFails ==
    ASSUME TypeInv, Failing
    PROVE  TypeInv'
<1> USE DEF TypeInv, Failing, built, worklist, inverted
<1>1. TypeOK'
  BY DEF TypeOK, Stages
<1>2. Position'
  BY DEF Position
<1>3. TableFilled'
  BY DEF TableFilled, RowFilled, AfterTable
<1> QED
  BY <1>1, <1>2, <1>3

(* What stays when the table and the loops of later stages are unchanged.    *)
LEMMA TableKept ==
    ASSUME TypeInv, UNCHANGED table, stage \in AfterTable, stage' \in AfterTable
    PROVE  TableFilled'
  BY DEF TypeInv, TableFilled, RowFilled, AfterTable
LEMMA TypeTable ==
    ASSUME TypeInv, BeginTable \/ AppendTokenCell, ~Failing
    PROVE  TypeInv'
<1> USE DEF built, worklist, inverted
<1>1. CASE BeginTable
  <2> DEFINE count == Len(SourceOrder) * Len(TokenOrder)
  <2>1. /\ stage = "prepare_token_table" /\ stage' = "table" /\ row' = 1 /\ column' = 1 /\ inner' = 0
        /\ work' = work + count
        /\ UNCHANGED <<limits, built, worklist, singletons, inverted, classes>>
    BY <1>1 DEF BeginTable, Spend, Enter, Refuse, Fails, Failing
  <2>2. count \in Nat
    BY Orders
  <2> HIDE DEF count
  <2>3. TypeOK'
    BY <2>1, <2>2 DEF TypeInv, TypeOK, Stages
  <2>4. Position'
    BY <2>1, Orders DEF Position
  <2>5. TableFilled'
    BY <2>1 DEF TypeInv, TableFilled, RowFilled, Behind, AfterTable
  <2> QED
    BY <2>3, <2>4, <2>5 DEF TypeInv
<1>2. CASE AppendTokenCell
  <2> DEFINE execution == Execute(Source, Token)
             cells == table[Source]
  <2>1. /\ stage = "table" /\ work' = work + TokenWork
        /\ emitted_items' = emitted_items + Emitted(execution)
        /\ table' = [table EXCEPT ![Source] = Append(@, execution)]
        /\ NextCell(Len(SourceOrder), Len(TokenOrder), "build_singletons")
        /\ UNCHANGED <<limits, worklist, singletons, inverted, classes>>
    BY <1>2 DEF AppendTokenCell, Spend, Refuse, Fails, Failing
  <2>2. /\ row \in 1..Len(SourceOrder) /\ column \in 1..Len(TokenOrder)
        /\ Source \in Sources /\ Token \in Tokens
    BY <2>1, SourceHere, TokenHere DEF TypeInv, Position
  <2>3. execution \in Executions
    BY <2>2, ExecutionType
  <2>4. TokenWork \in Nat /\ Emitted(execution) \in Nat
    <3>1. Token \notin EosTokens => TokenBytes[Token] \in Seq(Bytes)
      BY <2>2, LexerAssumption
    <3>2. execution.kind # "None" => execution.emitted \in Seq(LexerTerminals)
      BY <2>3 DEF Executions
    <3> QED
      BY <3>1, <3>2 DEF TokenWork, Emitted
  <2> HIDE DEF execution
  <2>5. cells \in Seq(Executions) /\ table \in [Sources -> Seq(Executions)]
    BY <2>2 DEF TypeInv, TypeOK
  <2>6. /\ Append(cells, execution) \in Seq(Executions)
        /\ Len(Append(cells, execution)) = Len(cells) + 1 /\ Len(cells) \in Nat
        /\ \A j \in 1..Len(cells) : Append(cells, execution)[j] = cells[j]
        /\ Append(cells, execution)[Len(cells) + 1] = execution
    BY <2>3, <2>5, Grown
  <2>7. /\ inner' = 0 /\ row' \in 1..Len(SourceOrder) /\ column' \in 1..Len(TokenOrder)
        /\ \/ /\ stage' = "table"
              /\ \A i \in 1..Len(SourceOrder) : Behind(row', column', Len(TokenOrder), i)
                   = IF i = row THEN column ELSE Behind(row, column, Len(TokenOrder), i)
           \/ /\ stage' = "build_singletons"
              /\ \A i \in 1..Len(SourceOrder) :
                   (IF i = row THEN column ELSE Behind(row, column, Len(TokenOrder), i)) = Len(TokenOrder)
        /\ Behind(row, column, Len(TokenOrder), row) = column - 1
    BY <2>1, <2>2, CellDone, Orders
  <2>8. TypeOK'
    <3>1. table' \in [Sources -> Seq(Executions)]
      BY <2>1, <2>2, <2>5, <2>6
    <3>2. {work', emitted_items', sequence_items', inverse_members'} \subseteq Nat
      <4>1. work \in Nat /\ emitted_items \in Nat /\ sequence_items \in Nat /\ inverse_members \in Nat
        BY Counters DEF TypeInv
      <4> QED
        BY <2>1, <2>4, <4>1
    <3>3. stage' \in Stages /\ row' \in Nat \ {0} /\ column' \in Nat \ {0} /\ inner' \in Nat
      BY <2>7, Orders DEF Stages
    <3> QED
      BY <2>1, <3>1, <3>2, <3>3 DEF TypeInv, TypeOK
  <2>9. Position'
    BY <2>7 DEF Position
  <2>10. TableFilled'
    <3> SUFFICES ASSUME NEW i \in 1..Len(SourceOrder) PROVE RowFilled(i)'
      BY DEF TableFilled
    <3>1. RowFilled(i)
      BY DEF TypeInv, TableFilled
    <3>2. SourceOrder[i] \in Sources /\ (SourceOrder[i] = Source <=> i = row)
      BY <2>2, SourceApart DEF Source
    <3>3. CASE i = row
      <4>1. table'[SourceOrder[i]] = Append(cells, execution)
        BY <2>1, <2>2, <2>5, <3>2, <3>3
      <4>2. Len(cells) = column - 1
        BY <2>1, <2>7, <3>1, <3>3 DEF RowFilled, Source
      <4>3. /\ stage' = "table" => Len(cells) + 1 = Behind(row', column', Len(TokenOrder), i)
            /\ stage' \in AfterTable => Len(cells) + 1 = Len(TokenOrder)
            /\ stage' # "prepare_token_table"
        BY <2>2, <2>7, <3>3, <4>2 DEF AfterTable
      <4>4. \A j \in 1..Len(cells) + 1 :
               j \in 1..Len(TokenOrder) /\ Append(cells, execution)[j] = Execute(SourceOrder[i], TokenOrder[j])
        <5>1. \A j \in 1..Len(cells) : cells[j] = Execute(SourceOrder[i], TokenOrder[j])
          BY <3>1, <3>2, <3>3 DEF RowFilled
        <5>2. \A j \in 1..Len(cells) + 1 : j \in 1..Len(cells) \/ j = Len(cells) + 1
          BY <2>6
        <5>3. execution = Execute(SourceOrder[i], TokenOrder[Len(cells) + 1])
          BY <3>3, <4>2, <2>2 DEF execution, Source, Token
        <5> QED
          BY <2>2, <2>6, <4>2, <5>1, <5>2, <5>3
      <4> QED
        BY <2>6, <4>1, <4>3, <4>4 DEF RowFilled
    <3>4. CASE i # row
      <4>1. table'[SourceOrder[i]] = table[SourceOrder[i]]
        BY <2>1, <2>5, <3>2, <3>4
      <4>2. /\ stage' = "table" => Behind(row', column', Len(TokenOrder), i)
                                      = Behind(row, column, Len(TokenOrder), i)
            /\ stage' \in AfterTable => Behind(row, column, Len(TokenOrder), i) = Len(TokenOrder)
            /\ stage' # "prepare_token_table"
        BY <2>7, <3>4 DEF AfterTable
      <4>3. Len(table[SourceOrder[i]]) = Behind(row, column, Len(TokenOrder), i)
        BY <2>1, <3>1 DEF RowFilled
      <4> QED
        BY <3>1, <4>1, <4>2, <4>3 DEF RowFilled
    <3> QED
      BY <3>3, <3>4
  <2> QED
    BY <2>8, <2>9, <2>10 DEF TypeInv
<1> QED
  BY <1>1, <1>2
(* The step of a byte names a terminal that its state accepts, if it emits.  *)
LEMMA ByteEmits ==
    ASSUME NEW s \in Sources, NEW b \in Bytes
    PROVE  LET step == ByteStep(s, b) IN
           /\ step # Rejection => step.state \in Sources
           /\ step.emitted # <<>> => step.emitted[1] \in LexerTerminals /\ step.emitted = <<step.emitted[1]>>
           /\ step.emitted \in Seq(LexerTerminals)
<1>1. /\ ByteStep(s, b) # Rejection => ByteStep(s, b).state \in Sources
      /\ ByteStep(s, b).emitted \in Seq(LexerTerminals)
  BY StepsInLexer
<1>2. ASSUME NEW e PROVE BeginLexeme(b, e).emitted \in {e, <<>>}
  BY DEF BeginLexeme, Rejection, At
<1>3. \/ ByteStep(s, b).emitted = <<>>
      \/ ByteStep(s, b).emitted = <<Label[s]>>
  <2>1. CASE s = LogicalStart
    BY <1>2, <2>1, LexerAssumption DEF ByteStep
  <2>2. CASE s \in DfaStates /\ Delta[s][b] # NoState
    BY <2>2, LexerAssumption DEF ByteStep, At
  <2>3. CASE s \in DfaStates /\ Delta[s][b] = NoState
    <3>1. ByteStep(s, b) = IF Label[s] = NoTerminal THEN Rejection ELSE BeginLexeme(b, <<Label[s]>>)
      BY <2>3, LexerAssumption DEF ByteStep
    <3>2. Rejection.emitted = <<>>
      BY DEF Rejection, At
    <3> QED
      BY <1>2, <3>1, <3>2
  <2> QED
    BY <2>1, <2>2, <2>3 DEF Sources
<1> QED
  BY <1>1, <1>3

LEMMA AddFactType ==
    ASSUME NEW known \in Seq(Facts), NEW s \in Sources, NEW t \in LexerTerminals
    PROVE  /\ AddFact(known, Fact(s, t)) \in Seq(Facts)
           /\ Range(AddFact(known, Fact(s, t))) = Range(known) \cup {Fact(s, t)}
           /\ IsInjective(known) => IsInjective(AddFact(known, Fact(s, t)))
           /\ Len(AddFact(known, Fact(s, t))) >= Len(known) /\ Len(known) \in Nat
           /\ \A i \in 1..Len(known) : AddFact(known, Fact(s, t))[i] = known[i]
           /\ \A i \in 1..Len(AddFact(known, Fact(s, t))) :
                i > Len(known) => AddFact(known, Fact(s, t))[i] = Fact(s, t)
<1>1. Fact(s, t) \in Facts
  BY DEF Fact, Facts
<1> DEFINE fact == Fact(s, t)
<1> HIDE DEF fact
<1>2. CASE fact \in Range(known)
  BY <1>2 DEF AddFact, fact
<1>3. CASE fact \notin Range(known)
  <2>1. AddFact(known, fact) = Append(known, fact)
    BY <1>3 DEF AddFact
  <2> QED
    BY <1>1, <1>3, <2>1, Grown DEF fact
<1> QED
  BY <1>2, <1>3

(* What Labelled adds, it adds as AddFact does.                              *)
LEMMA LabelledType ==
    ASSUME facts \in Seq(Facts), Source \in Sources
    PROVE  /\ Labelled \in Seq(Facts)
           /\ \/ Labelled = facts
              \/ /\ Source # LogicalStart /\ Label[Source] \in LexerTerminals
                 /\ Labelled = AddFact(facts, Fact(Source, Label[Source]))
           /\ column = 1 /\ Source # LogicalStart /\ Label[Source] # NoTerminal =>
                Labelled = AddFact(facts, Fact(Source, Label[Source]))
<1>1. CASE column = 1 /\ Source # LogicalStart /\ Label[Source] # NoTerminal
  <2>1. Label[Source] \in LexerTerminals
    BY <1>1, LexerAssumption DEF Sources
  <2> QED
    BY <1>1, <2>1, AddFactType DEF Labelled
<1>2. CASE ~(column = 1 /\ Source # LogicalStart /\ Label[Source] # NoTerminal)
  BY <1>2 DEF Labelled
<1> QED
  BY <1>1, <1>2

LEMMA SomeDestinations == Cardinality(Destinations) \in Nat
<1>1. IsFiniteSet(Sources)
  BY PreparedAssumption, FS_AddElement DEF Sources
<1> QED
  BY <1>1, FS_Subset, FS_CardinalityType DEF Destinations

LEMMA TypeScan ==
    ASSUME TypeInv, BeginScan \/ ScanByte, ~Failing
    PROVE  TypeInv'
<1> USE DEF built, worklist, inverted
<1>1. CASE BeginScan
  <2> DEFINE count == Len(SourceOrder) * Len(ByteOrder)
  <2>1. /\ stage = "build_singletons" /\ stage' = "scan" /\ row' = 1 /\ column' = 1 /\ inner' = 0
        /\ work' = work + count
        /\ UNCHANGED <<limits, built, worklist, singletons, inverted, classes>>
    BY <1>1 DEF BeginScan, Spend, Enter, Refuse, Fails, Failing
  <2>2. count \in Nat
    BY Orders
  <2> HIDE DEF count
  <2>3. TypeOK'
    BY <2>1, <2>2 DEF TypeInv, TypeOK, Stages
  <2>4. Position'
    BY <2>1, Orders DEF Position
  <2>5. TableFilled'
    BY <2>1, TableKept DEF AfterTable
  <2> QED
    BY <2>3, <2>4, <2>5 DEF TypeInv
<1>2. CASE ScanByte
  <2> DEFINE b == ByteOrder[column]
             step == ByteStep(Source, b)
             moves == step # Rejection /\ step.emitted = <<>>
             new == moves /\ step.state \notin Destinations
             charges == IF moves THEN Cardinality(Destinations) ELSE 0
  <2>1. /\ stage = "scan" /\ work' = work + charges
        /\ facts' = IF step.emitted = <<>> THEN Labelled
                    ELSE AddFact(Labelled, Fact(Source, step.emitted[1]))
        /\ predecessors' = IF new THEN [predecessors EXCEPT ![step.state] = Append(@, Source)]
                           ELSE predecessors
        /\ NextCell(Len(SourceOrder), Len(ByteOrder), "propagate")
        /\ UNCHANGED <<limits, built, singletons, inverted, classes>>
    BY <1>2 DEF ScanByte, Spend, Refuse, Fails, Failing
  <2>2. row \in 1..Len(SourceOrder) /\ column \in 1..Len(ByteOrder) /\ Source \in Sources /\ b \in Bytes
    BY <2>1, SourceHere, Orders, OrderPlaces DEF TypeInv, Position
  <2>3. /\ step # Rejection => step.state \in Sources
        /\ step.emitted # <<>> => step.emitted[1] \in LexerTerminals
    BY <2>2, ByteEmits
  <2>4. charges \in Nat
    BY SomeDestinations
  <2> HIDE DEF step
  <2>5. /\ inner' = 0 /\ row' \in 1..Len(SourceOrder) /\ column' \in 1..Len(ByteOrder)
        /\ (stage' = "scan" \/ stage' = "propagate")
    BY <2>1, <2>2, CellDone, Orders
  <2>6. facts' \in Seq(Facts)
    <3>1. Labelled \in Seq(Facts)
      BY <2>2, LabelledType DEF TypeInv, TypeOK
    <3>2. CASE step.emitted = <<>>
      BY <2>1, <3>1, <3>2
    <3>3. CASE step.emitted # <<>>
      <4>1. AddFact(Labelled, Fact(Source, step.emitted[1])) \in Seq(Facts)
        BY <2>2, <2>3, <3>1, <3>3, AddFactType
      <4> QED
        BY <2>1, <3>3, <4>1
    <3> QED
      BY <3>2, <3>3
  <2>7. predecessors' \in [Sources -> Seq(Sources)]
    <3>1. predecessors \in [Sources -> Seq(Sources)]
      BY DEF TypeInv, TypeOK
    <3>2. new => step.state \in Sources
      BY <2>3
    <3> HIDE DEF new
    <3>3. CASE new
      <4>1. Append(predecessors[step.state], Source) \in Seq(Sources)
        BY <2>2, <3>1, <3>2, <3>3, Grown
      <4> QED
        BY <2>1, <3>1, <3>3, <4>1
    <3> QED
      BY <2>1, <3>1, <3>3
  <2> HIDE DEF charges, new, moves
  <2>8. TypeOK'
    <3>1. stage' \in Stages /\ row' \in Nat \ {0} /\ column' \in Nat \ {0} /\ inner' \in Nat
      BY <2>5, Orders DEF Stages
    <3>2. {work', emitted_items', sequence_items', inverse_members'} \subseteq Nat
      <4>1. work' = work + charges /\ UNCHANGED <<emitted_items, sequence_items, inverse_members>>
        BY <2>1
      <4>2. work \in Nat /\ emitted_items \in Nat /\ sequence_items \in Nat /\ inverse_members \in Nat
        BY DEF TypeInv, TypeOK
      <4> QED
        BY <2>4, <4>1, <4>2
    <3> QED
      BY <2>1, <2>6, <2>7, <3>1, <3>2 DEF TypeInv, TypeOK
  <2>9. Position'
    BY <2>5 DEF Position
  <2>10. TableFilled'
    BY <2>1, <2>5, TableKept DEF AfterTable
  <2> QED
    BY <2>8, <2>9, <2>10 DEF TypeInv
<1> QED
  BY <1>1, <1>2

(* The fact at the cursor, and the predecessors of its source.               *)
LEMMA FactHere ==
    ASSUME TypeOK, row \in 1..Len(facts)
    PROVE  /\ facts[row] \in Facts /\ facts[row].source \in Sources
           /\ facts[row].terminal \in LexerTerminals
           /\ Before \in Seq(Sources) /\ Len(Before) \in Nat
           /\ \A k \in 1..Len(Before) : Before[k] \in Sources
<1>1. facts[row] \in Facts
  BY DEF TypeOK
<1>2. facts[row].source \in Sources /\ facts[row].terminal \in LexerTerminals
  BY <1>1 DEF Facts
<1>3. Before \in Seq(Sources)
  BY <1>2 DEF Before, TypeOK
<1> QED
  BY <1>1, <1>2, <1>3

LEMMA TypePropagate ==
    ASSUME TypeInv, BeginFact \/ PropagatePredecessor \/ EndPropagation, ~Failing
    PROVE  TypeInv'
<1> USE DEF built, worklist, inverted
<1>1. CASE BeginFact
  <2>1. /\ stage = "propagate" /\ inner = 0 /\ row <= Len(facts)
        /\ work' = work + Len(Before) /\ NextFact
        /\ UNCHANGED <<stage, column, limits, built, worklist, singletons, inverted, classes>>
    BY <1>1 DEF BeginFact, Spend, Refuse, Fails, Failing
  <2>2. row \in 1..Len(facts)
    BY <2>1 DEF TypeInv, TypeOK
  <2>3. Len(Before) \in Nat
    BY <2>2, FactHere DEF TypeInv
  <2>4. inner' \in Nat /\ row' \in Nat \ {0} /\ (inner' > 0 => row' = row /\ inner' \in 1..Len(Before))
    BY <2>1, <2>2, <2>3 DEF NextFact
  <2>5. TypeOK'
    <3>1. work \in Nat /\ emitted_items \in Nat /\ sequence_items \in Nat /\ inverse_members \in Nat
      BY Counters DEF TypeInv
    <3>2. {work', emitted_items', sequence_items', inverse_members'} \subseteq Nat
      BY <2>1, <2>3, <3>1
    <3> QED
      BY <2>1, <2>4, <3>2 DEF TypeInv, TypeOK
  <2>6. Position'
    BY <2>1, <2>2, <2>4 DEF Position, Before
  <2> QED
    BY <2>1, <2>5, <2>6, TableKept DEF TypeInv, AfterTable
<1>2. CASE PropagatePredecessor
  <2>1. /\ stage = "propagate" /\ inner > 0 /\ NextFact
        /\ facts' = AddFact(facts, Fact(Before[inner], facts[row].terminal))
        /\ UNCHANGED <<stage, column, limits, work, built, predecessors, singletons, inverted, classes>>
    BY <1>2 DEF PropagatePredecessor
  <2>2. row \in 1..Len(facts) /\ inner \in 1..Len(Before)
    BY <2>1 DEF TypeInv, Position
  <2>3. Len(Before) \in Nat /\ Before[inner] \in Sources /\ facts[row].terminal \in LexerTerminals
    BY <2>2, FactHere DEF TypeInv
  <2>4. inner' \in Nat /\ row' \in Nat \ {0} /\ (inner' > 0 => row' = row /\ inner' \in 1..Len(Before))
    BY <2>1, <2>2, <2>3 DEF NextFact
  <2>5. facts' \in Seq(Facts) /\ Len(facts') >= Len(facts) /\ Len(facts) \in Nat /\ facts'[row] = facts[row]
    <3> DEFINE known == AddFact(facts, Fact(Before[inner], facts[row].terminal))
    <3>1. facts \in Seq(Facts)
      BY DEF TypeInv, TypeOK
    <3>2. /\ known \in Seq(Facts) /\ Len(known) >= Len(facts) /\ Len(facts) \in Nat
          /\ \A i \in 1..Len(facts) : known[i] = facts[i]
      BY <2>3, <3>1, AddFactType
    <3> HIDE DEF known
    <3> QED
      BY <2>1, <2>2, <3>2 DEF known
  <2>6. TypeOK'
    BY <2>1, <2>4, <2>5 DEF TypeInv, TypeOK
  <2>7. inner' > 0 => Before' = Before
    BY <2>1, <2>4, <2>5 DEF Before
  <2>8. Len(facts') \in Nat
    BY <2>5
  <2>9. Position'
    BY <2>1, <2>2, <2>4, <2>5, <2>7, <2>8 DEF Position
  <2> QED
    BY <2>1, <2>6, <2>9, TableKept DEF TypeInv, AfterTable
<1>3. CASE EndPropagation
  <2>1. /\ stage = "propagate" /\ stage' = "collect" /\ row' = 1 /\ column' = 1 /\ inner' = 0
        /\ UNCHANGED <<limits, work, built, worklist, singletons, inverted, classes>>
    BY <1>3 DEF EndPropagation, Enter
  <2>2. TypeOK'
    BY <2>1 DEF TypeInv, TypeOK, Stages
  <2>3. Position'
    BY <2>1, Orders DEF Position
  <2> QED
    BY <2>1, <2>2, <2>3, TableKept DEF TypeInv, AfterTable
<1> QED
  BY <1>1, <1>2, <1>3
LEMMA TypeCollect ==
    ASSUME TypeInv, CollectSingleton, ~Failing
    PROVE  TypeInv'
<1> USE DEF built, worklist, inverted
<1> DEFINE terminal == TerminalOrder[column]
           charges == IF column = 1 THEN Len(TerminalOrder) ELSE 0
<1>1. /\ stage = "collect" /\ work' = work + charges
      /\ singletons' = IF Fact(Source, terminal) \in Range(facts)
                       THEN [singletons EXCEPT ![Source] = Append(@, terminal)]
                       ELSE singletons
      /\ NextCell(Len(SourceOrder), Len(TerminalOrder), "invert")
      /\ UNCHANGED <<limits, built, worklist, inverted, classes>>
  BY DEF CollectSingleton, Spend, Refuse, Fails, Failing
<1>2. row \in 1..Len(SourceOrder) /\ column \in 1..Len(TerminalOrder) /\ Source \in Sources
  BY <1>1, SourceHere DEF TypeInv, Position
<1>3. /\ inner' = 0 /\ row' \in 1..Len(SourceOrder) /\ column' \in 1..Len(TerminalOrder)
      /\ (stage' = "collect" \/ (stage' = "invert" /\ row' = 1 /\ column' = 1))
  BY <1>1, <1>2, CellDone, Orders
<1>4. singletons' \in [Sources -> Seq(LexerTerminals)]
  <2>1. Fact(Source, terminal) \in Range(facts) => terminal \in LexerTerminals
    <3>1. Range(facts) \subseteq Facts
      BY DEF TypeInv, TypeOK, Range
    <3> QED
      BY <3>1 DEF Facts, Fact
  <2> HIDE DEF terminal
  <2> QED
    BY <1>1, <1>2, <2>1, Grown DEF TypeInv, TypeOK
<1>5. charges \in Nat
  BY Orders
<1> HIDE DEF charges, terminal
<1>6. TypeOK'
  <2>1. stage' \in Stages /\ row' \in Nat \ {0} /\ column' \in Nat \ {0} /\ inner' \in Nat
    BY <1>3, Orders DEF Stages
  <2>2. work' \in Nat
    BY <1>1, <1>5, Counters DEF TypeInv
  <2> QED
    BY <1>1, <1>4, <2>1, <2>2 DEF TypeInv, TypeOK
<1>7. Position'
  BY <1>3, Orders DEF Position
<1> QED
  BY <1>1, <1>3, <1>6, <1>7, TableKept DEF TypeInv, AfterTable

(* The head that is appended next, and its id.                               *)
LEMMA HeadHere ==
    ASSUME TypeInv, stage = "invert", inner > 0
    PROVE  /\ Execution.kind = "Continue" /\ inner \in 1..Len(Continuations)
           /\ Execution.state \in Sources /\ Execution.emitted \in Seq(LexerTerminals)
           /\ Continuations = singletons[Execution.state]
           /\ Continuations[inner] \in LexerTerminals
           /\ NextHead \in Seq(Terminals) \ {<<>>} /\ Len(NextHead) \in Nat
           /\ NextHead = Append(Execution.emitted, Continuations[inner])
           /\ Interned(NextHead) \in 1..Len(sequences) + 1 /\ Len(sequences) \in Nat
           /\ inverse[Source] \in Seq(InverseBuckets) /\ Len(inverse[Source]) \in Nat
<1>1. inner \in 1..Len(Continuations)
  BY DEF TypeInv, Position
<1>2. /\ Execution.kind # "Continue" => Continuations = <<>>
      /\ Continuations \in Seq(LexerTerminals) /\ Source \in Sources
      /\ Execution.kind = "Continue" =>
           Execution.state \in Sources /\ Execution.emitted \in Seq(LexerTerminals)
  BY ExecutionHere
<1>3. Execution.kind = "Continue"
  BY <1>1, <1>2
<1>4. Continuations = singletons[Execution.state] /\ Continuations[inner] \in LexerTerminals
  BY <1>1, <1>2, <1>3 DEF Continuations
<1>5. LexerTerminals \subseteq Terminals
  BY PreparedAssumption
<1>6. NextHead \in Seq(Terminals) \ {<<>>} /\ NextHead = Append(Execution.emitted, Continuations[inner])
  <2> DEFINE e == Execution.emitted
             t == Continuations[inner]
  <2>1. e \in Seq(Terminals) /\ t \in Terminals
    BY <1>2, <1>3, <1>4, <1>5
  <2> HIDE DEF e, t
  <2>2. Append(e, t) \in Seq(Terminals) /\ Append(e, t) # <<>>
    BY <2>1, Grown
  <2> QED
    BY <2>2 DEF NextHead, e, t
<1>7. sequences \in Seq(Seq(Terminals) \ {<<>>}) /\ inverse[Source] \in Seq(InverseBuckets)
  BY <1>2 DEF TypeInv, TypeOK
<1>8. Interned(NextHead) \in 1..Len(sequences) + 1
  BY <1>7, PlaceFound DEF Interned
<1> QED
  BY <1>1, <1>2, <1>3, <1>4, <1>6, <1>7, <1>8

(* What AppendContinuation does, in terms of ids and places.                 *)
HeadId == Interned(NextHead)
LEMMA AppendsHead ==
    ASSUME AppendContinuation, ~Failing
    PROVE  /\ stage = "invert" /\ inner > 0
           /\ work' = work + (1 + Len(Execution.emitted) + SearchWork(NextHead) + Len(inverse[Source]))
           /\ sequences' = IF HeadId > Len(sequences) THEN Append(sequences, NextHead) ELSE sequences
           /\ sequence_items' = IF HeadId > Len(sequences) THEN sequence_items + Len(NextHead)
                                ELSE sequence_items
           /\ inverse' = [inverse EXCEPT ![Source] = WithMember(inverse[Source], HeadId, Token)]
           /\ NextContinuation
           /\ HeadId > Len(sequences) => sequence_items + Len(NextHead) <= limits.max_items
           /\ UNCHANGED <<limits, built, worklist, singletons, inverse_members, classes>>
<1>1. /\ stage = "invert" /\ inner > 0
      /\ work' = work + (1 + Len(Execution.emitted) + SearchWork(NextHead) + Len(inverse[Source]))
      /\ sequences' = IF HeadId > Len(sequences) THEN Append(sequences, NextHead) ELSE sequences
      /\ sequence_items' = IF HeadId > Len(sequences) THEN sequence_items + Len(NextHead)
                           ELSE sequence_items
      /\ inverse' = [inverse EXCEPT ![Source] = WithMember(inverse[Source], HeadId, Token)]
      /\ NextContinuation
      /\ UNCHANGED <<limits, built, worklist, singletons, inverse_members, classes>>
  BY DEF AppendContinuation, Spend, Refuse, Fails, Failing, HeadId
<1>2. HeadId > Len(sequences) => sequence_items + Len(NextHead) <= limits.max_items
  BY DEF AppendContinuation, Spend, Affords, Refuse, Fails, Failing, HeadId
<1> QED
  BY <1>1, <1>2

(* The next continuation, or the first of the next token.                    *)
LEMMA NextContinuationMoves ==
    ASSUME TypeInv, stage = "invert", inner \in 0..Len(Continuations), Len(Continuations) \in Nat,
           NextContinuation
    PROVE  /\ stage' \in {"invert", "prepare_parser"}
           /\ inner' \in Nat /\ row' \in 1..Len(SourceOrder) /\ column' \in 1..Len(TokenOrder)
           /\ \/ inner < Len(Continuations) /\ inner' = inner + 1 /\ UNCHANGED <<stage, row, column>>
              \/ inner = Len(Continuations) /\ inner' = 0
                   /\ NextCell(Len(SourceOrder), Len(TokenOrder), "prepare_parser")
<1>1. row \in 1..Len(SourceOrder) /\ column \in 1..Len(TokenOrder)
  BY DEF TypeInv, Position
<1>2. CASE inner < Len(Continuations)
  BY <1>1, <1>2 DEF NextContinuation
<1>3. CASE ~(inner < Len(Continuations))
  <2>1. NextCell(Len(SourceOrder), Len(TokenOrder), "prepare_parser")
    BY <1>3 DEF NextContinuation
  <2>2. /\ inner' = 0 /\ row' \in 1..Len(SourceOrder) /\ column' \in 1..Len(TokenOrder)
        /\ stage' \in {"invert", "prepare_parser"}
    BY <1>1, <2>1, CellDone, Orders
  <2> QED
    BY <1>3, <2>1, <2>2
<1> QED
  BY <1>2, <1>3

(* A bucket that is opened, or a token appended to one.                      *)
Joined(bucket, token) == [bucket EXCEPT !.tokens = Append(bucket.tokens, token)]
Known(buckets, id) == \E i \in 1..Len(buckets) : buckets[i].sequence = id
JoinedAt(buckets, new, k, id, token) ==
    /\ Len(new) = Len(buckets) /\ buckets[k].sequence = id
    /\ \A i \in 1..Len(buckets) : new[i] = IF i = k THEN Joined(buckets[i], token) ELSE buckets[i]
LEMMA BucketGrows ==
    ASSUME NEW buckets \in Seq(InverseBuckets), NEW id \in Nat \ {0}, NEW token \in Tokens
    PROVE  /\ WithMember(buckets, id, token) \in Seq(InverseBuckets)
           /\ Len(WithMember(buckets, id, token)) \in {Len(buckets), Len(buckets) + 1}
           /\ LET new == WithMember(buckets, id, token)
              IN /\ ~Known(buckets, id) =>
                      new = Append(buckets, [sequence |-> id, tokens |-> <<token>>])
                 /\ Known(buckets, id) => \E k \in 1..Len(buckets) : JoinedAt(buckets, new, k, id, token)
<1> DEFINE new == WithMember(buckets, id, token)
           known == Known(buckets, id)
           ids == [i \in 1..Len(buckets) |-> buckets[i].sequence]
           k == BucketOf(buckets, id)
           opened == [sequence |-> id, tokens |-> <<token>>]
<1>0. \A x \in InverseBuckets : x.sequence \in Nat /\ x.tokens \in Seq(Tokens)
  BY DEF InverseBuckets
<1>1. opened \in InverseBuckets
  BY DEF InverseBuckets
<1>2. Len(buckets) \in Nat /\ \A i \in 1..Len(buckets) : buckets[i] \in InverseBuckets
  OBVIOUS
<1>3. ids \in Seq(Nat) /\ Len(ids) = Len(buckets) /\ DOMAIN ids = 1..Len(buckets)
  BY <1>0, <1>2
<1>4. k = PlaceIn(ids, id)
  BY DEF BucketOf
<1>5. known <=> id \in Range(ids)
  BY <1>3 DEF Range, Known
<1>6. (known => k \in 1..Len(buckets) /\ ids[k] = id) /\ (~known => k = Len(buckets) + 1)
  <2> HIDE DEF ids, k, known
  <2> QED
    BY <1>3, <1>4, <1>5, PlaceFound
<1>7. ASSUME NEW i \in 1..Len(buckets)
      PROVE  Joined(buckets[i], token) \in InverseBuckets
  <2>1. buckets[i] \in InverseBuckets
    OBVIOUS
  <2>2. Append(buckets[i].tokens, token) \in Seq(Tokens) \ {<<>>}
    BY <1>0, <2>1, Grown
  <2> QED
    BY <2>1, <2>2 DEF InverseBuckets, Joined
<1>8. CASE known
  <2> DEFINE bumped == [i \in 1..Len(buckets) |->
                 IF i = k THEN Joined(buckets[i], token) ELSE buckets[i]]
  <2>1. k \in 1..Len(buckets) /\ ids[k] = id /\ buckets[k].sequence = id
    BY <1>6, <1>8
  <2>2. new = [buckets EXCEPT ![k].tokens = Append(@, token)]
    BY <1>2, <2>1 DEF WithMember
  <2> HIDE DEF k, new, ids
  <2>3. \A i \in 1..Len(buckets) : bumped[i] \in InverseBuckets
    BY <1>2, <1>7
  <2>4. bumped \in Seq(InverseBuckets) /\ Len(bumped) = Len(buckets)
    <3>1. DOMAIN bumped = 1..Len(buckets)
      OBVIOUS
    <3> HIDE DEF bumped
    <3>2. bumped = [i \in 1..Len(buckets) |-> bumped[i]]
      BY <3>1 DEF bumped
    <3> QED
      BY <1>2, <2>3, <3>1, <3>2
  <2>5. new = bumped
    <3>1. buckets = [i \in 1..Len(buckets) |-> buckets[i]]
      OBVIOUS
    <3> QED
      BY <2>2, <3>1 DEF Joined
  <2>6. JoinedAt(buckets, new, k, id, token)
    BY <2>1, <2>4, <2>5 DEF JoinedAt
  <2> QED
    BY <1>2, <1>8, <2>1, <2>4, <2>5, <2>6 DEF new
<1>9. CASE ~known
  <2>1. k > Len(buckets)
    BY <1>2, <1>6, <1>9
  <2>2. new = Append(buckets, opened)
    BY <2>1 DEF WithMember
  <2> HIDE DEF new, opened, known, k, ids
  <2>3. Append(buckets, opened) \in Seq(InverseBuckets) /\ Len(Append(buckets, opened)) = Len(buckets) + 1
    BY <1>1, Grown
  <2> QED
    BY <1>9, <2>2, <2>3 DEF new, opened, known
<1> QED
  BY <1>8, <1>9

LEMMA TypeInvert ==
    ASSUME TypeInv, BeginToken \/ AppendContinuation, ~Failing
    PROVE  TypeInv'
<1> USE DEF built, worklist, inverted
<1>0. stage = "invert"
  BY DEF BeginToken, AppendContinuation
<1>1. /\ row \in 1..Len(SourceOrder) /\ column \in 1..Len(TokenOrder)
      /\ Source \in Sources /\ Token \in Tokens /\ Len(Continuations) \in Nat
  BY <1>0, ExecutionHere DEF TypeInv, Position
<1>2. CASE BeginToken
  <2>1. /\ inner = 0 /\ work' = work + 1 /\ inverse_members' = inverse_members + Len(Continuations)
        /\ NextContinuation
        /\ UNCHANGED <<limits, built, worklist, singletons, sequence_items, sequences, inverse, classes>>
    BY <1>2 DEF BeginToken, Spend, Refuse, Fails, Failing
  <2>2. /\ stage' \in {"invert", "prepare_parser"}
        /\ inner' \in Nat /\ row' \in 1..Len(SourceOrder) /\ column' \in 1..Len(TokenOrder)
        /\ \/ inner < Len(Continuations) /\ inner' = inner + 1 /\ UNCHANGED <<stage, row, column>>
           \/ inner = Len(Continuations) /\ inner' = 0
    BY <1>0, <1>1, <2>1, NextContinuationMoves
  <2>3. TypeOK'
    <3>1. stage' \in Stages /\ row' \in Nat \ {0} /\ column' \in Nat \ {0} /\ inner' \in Nat
      BY <2>2, Orders DEF Stages
    <3>2. work' \in Nat /\ inverse_members' \in Nat
      BY <1>1, <2>1, Counters DEF TypeInv
    <3> QED
      BY <2>1, <3>1, <3>2 DEF TypeInv, TypeOK
  <2>4. Position'
    <3>1. inner' > 0 => inner' \in 1..Len(Continuations) /\ Continuations' = Continuations
      BY <1>1, <2>1, <2>2 DEF Continuations, Execution, Source
    <3> QED
      BY <2>2, <3>1 DEF Position
  <2> QED
    BY <1>0, <2>1, <2>2, <2>3, <2>4, TableKept DEF TypeInv, AfterTable
<1>3. CASE AppendContinuation
  <2>1. /\ inner > 0
        /\ work' = work + (1 + Len(Execution.emitted) + SearchWork(NextHead) + Len(inverse[Source]))
        /\ sequences' = IF HeadId > Len(sequences) THEN Append(sequences, NextHead) ELSE sequences
        /\ sequence_items' = IF HeadId > Len(sequences) THEN sequence_items + Len(NextHead)
                             ELSE sequence_items
        /\ inverse' = [inverse EXCEPT ![Source] = WithMember(inverse[Source], HeadId, Token)]
        /\ NextContinuation
        /\ UNCHANGED <<limits, built, worklist, singletons, inverse_members, classes>>
    BY <1>3, AppendsHead
  <2>2. /\ inner \in 1..Len(Continuations) /\ Execution.emitted \in Seq(LexerTerminals)
        /\ NextHead \in Seq(Terminals) \ {<<>>} /\ Len(NextHead) \in Nat
        /\ HeadId \in 1..Len(sequences) + 1 /\ Len(sequences) \in Nat
        /\ inverse[Source] \in Seq(InverseBuckets) /\ Len(inverse[Source]) \in Nat
    BY <1>0, <2>1, HeadHere DEF HeadId
  <2>3. /\ stage' \in {"invert", "prepare_parser"}
        /\ inner' \in Nat /\ row' \in 1..Len(SourceOrder) /\ column' \in 1..Len(TokenOrder)
        /\ \/ inner < Len(Continuations) /\ inner' = inner + 1 /\ UNCHANGED <<stage, row, column>>
           \/ inner = Len(Continuations) /\ inner' = 0
    BY <1>0, <1>1, <2>1, <2>2, NextContinuationMoves
  <2>4. TypeOK'
    <3>1. stage' \in Stages /\ row' \in Nat \ {0} /\ column' \in Nat \ {0} /\ inner' \in Nat
      BY <2>3, Orders DEF Stages
    <3>2. SearchWork(NextHead) \in Nat
      <4>1. (IF NextHead \in Range(sequences) THEN HeadId ELSE Len(sequences)) \in Nat
        BY <2>2
      <4> QED
        BY <2>2, <4>1 DEF SearchWork, HeadId
    <3>3. Len(Execution.emitted) \in Nat
      BY <2>2
    <3>4. work' \in Nat /\ sequence_items' \in Nat
      <4>1. work \in Nat /\ sequence_items \in Nat
        BY Counters DEF TypeInv
      <4>2. 1 + Len(Execution.emitted) + SearchWork(NextHead) + Len(inverse[Source]) \in Nat
        <5> DEFINE a == Len(Execution.emitted)
                   b == SearchWork(NextHead)
                   c == Len(inverse[Source])
        <5>1. a \in Nat /\ b \in Nat /\ c \in Nat
          BY <2>2, <3>2, <3>3
        <5> HIDE DEF a, b, c
        <5>2. 1 + a + b + c \in Nat
          BY <5>1
        <5> QED
          BY <5>2 DEF a, b, c
      <4>3. work' \in Nat
        BY <2>1, <4>1, <4>2
      <4>4. sequence_items' \in Nat
        BY <2>1, <2>2, <4>1
      <4> QED
        BY <4>3, <4>4
    <3>5. sequences' \in Seq(Seq(Terminals) \ {<<>>})
      <4>1. sequences \in Seq(Seq(Terminals) \ {<<>>})
        BY DEF TypeInv, TypeOK
      <4>2. Append(sequences, NextHead) \in Seq(Seq(Terminals) \ {<<>>})
        BY <2>2, <4>1, Grown
      <4> QED
        BY <2>1, <4>1, <4>2
    <3>6. inverse' \in [Sources -> Seq(InverseBuckets)]
      <4>1. WithMember(inverse[Source], HeadId, Token) \in Seq(InverseBuckets)
        <5>1. HeadId \in Nat \ {0}
          BY <2>2
        <5> QED
          BY <1>1, <2>2, <5>1, BucketGrows
      <4> QED
        BY <1>1, <2>1, <4>1 DEF TypeInv, TypeOK
    <3> QED
      BY <2>1, <3>1, <3>4, <3>5, <3>6 DEF TypeInv, TypeOK
  <2>5. Position'
    <3>1. inner' > 0 => inner' \in 1..Len(Continuations) /\ Continuations' = Continuations
      <4>1. UNCHANGED <<table, singletons>>
        BY <2>1
      <4>2. inner' > 0 => inner' = inner + 1 /\ inner < Len(Continuations) /\ UNCHANGED <<row, column>>
        BY <2>3
      <4>3. UNCHANGED <<table, singletons, row, column>> => Continuations' = Continuations
        BY DEF Continuations, Execution, Source
      <4> QED
        BY <1>1, <2>2, <4>1, <4>2, <4>3
    <3> QED
      BY <2>3, <3>1 DEF Position
  <2> QED
    BY <1>0, <2>1, <2>3, <2>4, <2>5, TableKept DEF TypeInv, AfterTable
<1> QED
  BY <1>2, <1>3
-----------------------------------------------------------------------------
(* The work never passes its limit: every charge is checked before it.       *)
Within == work <= limits.max_work

LEMMA WithinStep ==
    ASSUME Within, [Next]_vars
    PROVE  Within'
<1> USE DEF Within, loop, built, worklist, inverted
<1>1. CASE Failing
  BY <1>1 DEF Failing
<1>2. CASE UNCHANGED vars
  BY <1>2 DEF vars
<1>3. ASSUME NEW charges, NEW items, Spend(charges, items), UNCHANGED limits
      PROVE  Within'
  BY <1>3 DEF Spend, Affords
<1>4. CASE BeginTable \/ AppendTokenCell
  BY <1>3, <1>4, Zenon DEF BeginTable, AppendTokenCell, Refuse, Fails
<1>5. CASE BeginScan \/ ScanByte
  BY <1>3, <1>5, Zenon DEF BeginScan, ScanByte, Refuse, Fails
<1>6. CASE BeginFact \/ CollectSingleton
  BY <1>3, <1>6, Zenon DEF BeginFact, CollectSingleton, Refuse, Fails
<1>7. CASE PropagatePredecessor \/ EndPropagation
  BY <1>7 DEF PropagatePredecessor, EndPropagation
<1>8. CASE BeginToken \/ AppendContinuation
  BY <1>3, <1>8, Zenon DEF BeginToken, AppendContinuation, Refuse, Fails
<1>9. CASE BeginClassify \/ ClassifyHead
  BY <1>3, <1>9, Zenon DEF BeginClassify, ClassifyHead, Refuse, Fails
<1> QED
  BY <1>2, <1>4, <1>5, <1>6, <1>7, <1>8, <1>9 DEF Next

(* The run of a head from a parser state, within what is left of the work.   *)
HeadRun == Run(sequences[column], BeginSymbolic(StateOrder[row], limits.max_work - work))

(* What ClassifyHead does.                                                   *)
LEMMA ClassifiesHead ==
    ASSUME TypeInv, Within, ClassifyHead, ~Failing
    PROVE  /\ stage = "classify"
           /\ row \in 1..Len(StateOrder) /\ column \in 1..Len(sequences)
           /\ StateOrder[row] \in ParserStates
           /\ sequences[column] \in Seq(Terminals) \ {<<>>}
           /\ limits.max_work - work \in Nat
           /\ HeadRun \in Configurations /\ HeadRun.decision \in Decisions
           /\ HeadRun.used <= limits.max_work - work /\ HeadRun.used \in Nat
           /\ work' = work + HeadRun.used
           /\ Classify(HeadRun.decision) \in Classes
           /\ classes' = [classes EXCEPT ![StateOrder[row]] = Append(@, Classify(HeadRun.decision))]
           /\ NextCell(Len(StateOrder), Len(sequences), "done")
           /\ UNCHANGED <<limits, built, worklist, singletons, inverted>>
<1>1. /\ stage = "classify" /\ HeadRun.decision \in Decisions
      /\ Spend(HeadRun.used, {})
      /\ classes' = [classes EXCEPT ![StateOrder[row]] = Append(@, Classify(HeadRun.decision))]
      /\ NextCell(Len(StateOrder), Len(sequences), "done")
      /\ UNCHANGED <<limits, built, worklist, singletons, inverted>>
  BY DEF ClassifyHead, HeadRun, Fails, Failing
<1>2. /\ row \in 1..Len(StateOrder) /\ column \in 1..Len(sequences)
      /\ StateOrder[row] \in ParserStates
      /\ sequences[column] \in Seq(Terminals) \ {<<>>}
  <2>1. row \in 1..Len(StateOrder) /\ column \in 1..Len(sequences)
    BY <1>1 DEF TypeInv, Position
  <2>2. sequences \in Seq(Seq(Terminals) \ {<<>>})
    BY DEF TypeInv, TypeOK
  <2>3. StateOrder[row] \in ParserStates
    BY <2>1, Orders, OrderPlaces
  <2> QED
    BY <2>1, <2>2, <2>3
<1>3. work \in Nat /\ limits.max_work \in Nat /\ limits.max_work - work \in Nat
  BY DEF Within, TypeInv, TypeOK
<1> DEFINE begin == BeginSymbolic(StateOrder[row], limits.max_work - work)
           h == sequences[column]
<1>4. begin \in Configurations
  <2>1. <<StateOrder[row]>> \in Seq(ParserStates) \ {<<>>} /\ Top(<<StateOrder[row]>>) = StateOrder[row]
    BY <1>2 DEF Top
  <2> QED
    BY <1>3, <2>1, BeginType
<1> HIDE DEF begin, h
<1>5. h \in Seq(Terminals)
  BY <1>2 DEF h
<1>6. Closed(h, Configurations)
  BY <1>5, StepType DEF Closed
<1>7. HeadRun \in Configurations
  BY <1>4, <1>5, <1>6, RunEnds DEF HeadRun, begin, h
<1>8. HeadRun.used \in Nat
  BY <1>7 DEF Configurations
<1>9. work' = work + HeadRun.used /\ work + HeadRun.used <= limits.max_work
  BY <1>1 DEF Spend, Affords
<1>10. HeadRun.used <= limits.max_work - work
  BY <1>3, <1>8, <1>9
<1>11. Classify(HeadRun.decision) \in Classes
  BY <1>1 DEF Classify, Decisions, Classes
<1> QED
  BY <1>1, <1>2, <1>3, <1>7, <1>8, <1>9, <1>10, <1>11

LEMMA TypeClassify ==
    ASSUME TypeInv, Within, BeginClassify \/ ClassifyHead, ~Failing
    PROVE  TypeInv'
<1> USE DEF built, worklist, inverted
<1>1. CASE BeginClassify
  <2>1. /\ stage = "prepare_parser" /\ row' = 1 /\ column' = 1 /\ inner' = 0
        /\ stage' = (IF sequences = <<>> THEN "done" ELSE "classify")
        /\ work' = work + Len(StateOrder)
        /\ UNCHANGED <<limits, built, worklist, singletons, inverted, classes>>
    BY <1>1 DEF BeginClassify, Spend, Enter, Refuse, Fails, Failing
  <2>2. TypeOK'
    BY <2>1, Orders DEF TypeInv, TypeOK, Stages
  <2>3. sequences # <<>> => 1 \in 1..Len(sequences)
    BY DEF TypeInv, TypeOK
  <2>4. Position'
    BY <2>1, <2>3, Orders DEF Position
  <2> QED
    BY <2>1, <2>2, <2>4, TableKept DEF TypeInv, AfterTable
<1>2. CASE ClassifyHead
  <2>1. /\ stage = "classify"
        /\ row \in 1..Len(StateOrder) /\ column \in 1..Len(sequences)
        /\ StateOrder[row] \in ParserStates
        /\ HeadRun.used \in Nat
        /\ work' = work + HeadRun.used
        /\ Classify(HeadRun.decision) \in Classes
        /\ classes' = [classes EXCEPT ![StateOrder[row]] = Append(@, Classify(HeadRun.decision))]
        /\ NextCell(Len(StateOrder), Len(sequences), "done")
        /\ UNCHANGED <<limits, built, worklist, singletons, inverted>>
    BY <1>2, ClassifiesHead
  <2>2. Len(sequences) \in Nat
    BY DEF TypeInv, TypeOK
  <2>3. /\ inner' = 0 /\ row' \in 1..Len(StateOrder) /\ column' \in 1..Len(sequences)
        /\ stage' \in {"classify", "done"}
    BY <2>1, <2>2, CellDone, Orders
  <2>4. TypeOK'
    <3>1. classes' \in [ParserStates -> Seq(Classes)]
      <4>1. classes \in [ParserStates -> Seq(Classes)]
        BY DEF TypeInv, TypeOK
      <4>2. Append(classes[StateOrder[row]], Classify(HeadRun.decision)) \in Seq(Classes)
        BY <2>1, <4>1, Grown
      <4> QED
        BY <2>1, <4>1, <4>2
    <3>2. stage' \in Stages /\ row' \in Nat \ {0} /\ column' \in Nat \ {0} /\ inner' \in Nat
      BY <2>2, <2>3, Orders DEF Stages
    <3>3. work' \in Nat
      BY <2>1, Counters DEF TypeInv
    <3> QED
      BY <2>1, <3>1, <3>2, <3>3 DEF TypeInv, TypeOK
  <2>5. Position'
    BY <2>1, <2>3 DEF Position
  <2> QED
    BY <2>1, <2>3, <2>4, <2>5, TableKept DEF TypeInv, AfterTable
<1> QED
  BY <1>1, <1>2

LEMMA TypeInit ==
    ASSUME Init
    PROVE  TypeInv /\ Within
<1>1. /\ limits.max_work \in Nat /\ limits \in [max_work : Nat, max_items : Nat]
  BY PreparationAssumption DEF Init
<1>2. TypeOK
  BY <1>1 DEF Init, TypeOK, Stages
<1>3. Position
  BY DEF Init, Position
<1>4. TableFilled
  BY SourceApart DEF Init, TableFilled, RowFilled, AfterTable
<1> QED
  BY <1>1, <1>2, <1>3, <1>4 DEF TypeInv, Within, Init

LEMMA TypeStep ==
    ASSUME TypeInv, Within, [Next]_vars
    PROVE  TypeInv'
<1>1. CASE UNCHANGED vars
  <2> USE DEF vars, loop, built, worklist, inverted
  <2>1. TypeOK'
    BY <1>1 DEF TypeInv, TypeOK
  <2>2. Position'
    BY <1>1 DEF TypeInv, Position, Before, Continuations, Execution, Source
  <2>3. TableFilled'
    BY <1>1 DEF TypeInv, TableFilled, RowFilled
  <2> QED
    BY <2>1, <2>2, <2>3 DEF TypeInv
<1> QED
  BY <1>1, TypeFails, TypeTable, TypeScan, TypePropagate, TypeCollect, TypeInvert, TypeClassify DEF Next

(* The preparation keeps its types, spends no more work than it may, and its *)
(* token table says what every token does.                                   *)
LEMMA Prepares == Spec => [](TypeInv /\ Within)
<1>1. Init => TypeInv /\ Within
  BY TypeInit
<1>2. TypeInv /\ Within /\ [Next]_vars => (TypeInv /\ Within)'
  BY TypeStep, WithinStep
<1> QED
  BY <1>1, <1>2, PTL DEF Spec

(* Every loop of prepare() keeps its indexes and what it builds in range.    *)
THEOREM PreparationIsTyped == Spec => []TypeOK
<1>1. TypeInv => TypeOK
  BY DEF TypeInv
<1> QED
  BY <1>1, Prepares, PTL
-----------------------------------------------------------------------------
(* The worklist.                                                             *)

(* Singletons hold what a source emits and those of its moves...             *)
LEMMA SingletonsHold ==
    ASSUME NEW s \in Sources
    PROVE  /\ Emits(s) \subseteq Singletons[s] /\ Moves(s) \subseteq Sources
           /\ Singletons[s] \subseteq LexerTerminals
           /\ \A d \in Moves(s) : Singletons[d] \subseteq Singletons[s]
<1>1. s \in Reachable(s)
  BY DEF Reachable
<1>2. Emits(s) \subseteq Singletons[s]
  BY <1>1 DEF Singletons
<1>3. Moves(s) \subseteq Sources
  BY StepsInLexer DEF Moves
<1>4. Singletons[s] \subseteq LexerTerminals
  BY DEF Singletons, Emits
<1>5. ASSUME NEW d \in Moves(s)
      PROVE  Singletons[d] \subseteq Singletons[s]
  <2>1. Reachable(d) \subseteq Reachable(s)
    <3> SUFFICES ASSUME NEW e \in Reachable(d), NEW Q \in SUBSET Sources,
                        s \in Q /\ (\A q \in Q : Moves(q) \subseteq Q)
                 PROVE  e \in Q
      BY DEF Reachable
    <3>1. d \in Q
      BY <1>5
    <3> QED
      BY <3>1 DEF Reachable
  <2> QED
    BY <1>3, <1>5, <2>1 DEF Singletons
<1> QED
  BY <1>2, <1>3, <1>4, <1>5

(* ... and are the least sets that do.                                       *)
LEMMA SingletonsLeast ==
    ASSUME NEW T, \A s \in Sources : Emits(s) \subseteq T[s],
           \A s \in Sources : \A d \in Moves(s) : T[d] \subseteq T[s],
           NEW s \in Sources
    PROVE  Singletons[s] \subseteq T[s]
<1> DEFINE Q == {d \in Sources : T[d] \subseteq T[s]}
<1>1. Q \in SUBSET Sources /\ s \in Q
  OBVIOUS
<1>2. \A q \in Q : Moves(q) \subseteq Q
  BY SingletonsHold
<1> HIDE DEF Q
<1>3. ASSUME NEW d \in Reachable(s) PROVE d \in Q /\ d \in Sources
  BY <1>1, <1>2, <1>3 DEF Reachable
<1>4. \A d \in Reachable(s) : Emits(d) \subseteq T[s]
  BY <1>3 DEF Q
<1> QED
  BY <1>4 DEF Singletons

AfterScan == {"propagate", "collect"} \cup Collected
Scanned(i, j) ==
    stage \in AfterScan \/ (stage = "scan" /\ (i < row \/ (i = row /\ j < column)))

(* What the scan of a byte has noted.                                        *)
Noted(s, b) ==
    LET step == ByteStep(s, b) IN
    /\ s # LogicalStart /\ Label[s] # NoTerminal => Fact(s, Label[s]) \in Range(facts)
    /\ step.emitted # <<>> => Fact(s, step.emitted[1]) \in Range(facts)
    /\ step # Rejection /\ step.emitted = <<>> => s \in Range(predecessors[step.state])

PredecessorsMove == \A d \in Sources : \A s \in Range(predecessors[d]) : d \in Moves(s)
AllNoted ==
    \A i \in 1..Len(SourceOrder), j \in 1..Len(ByteOrder) :
       Scanned(i, j) => Noted(SourceOrder[i], ByteOrder[j])
FactsInv == WorklistIsSound /\ PredecessorsMove /\ AllNoted

(* What was noted stays so when facts and predecessors are only added.       *)
LEMMA NotesStay ==
    ASSUME NEW s \in Sources, NEW b \in Bytes, Noted(s, b),
           Range(facts) \subseteq Range(facts'),
           \A d \in Sources : Range(predecessors[d]) \subseteq Range(predecessors'[d])
    PROVE  Noted(s, b)'
<1>1. ByteStep(s, b) # Rejection => ByteStep(s, b).state \in Sources
  BY ByteEmits
<1> QED
  BY <1>1 DEF Noted

(* A fact that is added to the worklist keeps it sound when it is one, and   *)
(* what was passed before is still all that is passed.                       *)
LEMMA AddedFactIsSound ==
    ASSUME NEW known \in Seq(Facts), IsInjective(known),
           \A i \in 1..Len(known) : known[i].terminal \in Singletons[known[i].source],
           NEW s \in Sources, NEW t \in Singletons[s]
    PROVE  LET new == AddFact(known, Fact(s, t)) IN
           /\ new \in Seq(Facts) /\ IsInjective(new)
           /\ \A i \in 1..Len(new) : new[i].terminal \in Singletons[new[i].source]
           /\ Range(new) = Range(known) \cup {Fact(s, t)}
<1>1. t \in LexerTerminals
  BY SingletonsHold
<1> DEFINE new == AddFact(known, Fact(s, t))
<1>2. /\ new \in Seq(Facts) /\ IsInjective(new)
      /\ Len(new) \in Nat /\ Len(known) \in Nat
      /\ Range(new) = Range(known) \cup {Fact(s, t)}
      /\ \A i \in 1..Len(known) : new[i] = known[i]
      /\ \A i \in 1..Len(new) : i > Len(known) => new[i] = Fact(s, t)
  BY <1>1, AddFactType
<1> HIDE DEF new
<1>3. Fact(s, t).terminal \in Singletons[Fact(s, t).source]
  BY DEF Fact
<1>4. ASSUME NEW i \in 1..Len(new) PROVE new[i].terminal \in Singletons[new[i].source]
  <2>1. CASE i \in 1..Len(known)
    BY <1>2, <2>1
  <2>2. CASE i > Len(known)
    BY <1>2, <1>3, <2>2
  <2> QED
    BY <1>2, <2>1, <2>2
<1> QED
  BY <1>2, <1>4 DEF new

LEMMA FactsScan ==
    ASSUME TypeInv, FactsInv, ScanByte, ~Failing
    PROVE  FactsInv'
<1> USE DEF built, worklist, inverted
<1> DEFINE b == ByteOrder[column]
           step == ByteStep(Source, b)
           moves == step # Rejection /\ step.emitted = <<>>
           new == moves /\ step.state \notin Destinations
<1>1. /\ stage = "scan"
      /\ facts' = IF step.emitted = <<>> THEN Labelled
                  ELSE AddFact(Labelled, Fact(Source, step.emitted[1]))
      /\ predecessors' = IF new THEN [predecessors EXCEPT ![step.state] = Append(@, Source)]
                         ELSE predecessors
      /\ NextCell(Len(SourceOrder), Len(ByteOrder), "propagate")
  BY DEF ScanByte, Spend, Refuse, Fails, Failing
<1>2. row \in 1..Len(SourceOrder) /\ column \in 1..Len(ByteOrder) /\ Source \in Sources /\ b \in Bytes
  BY <1>1, SourceHere, Orders, OrderPlaces DEF TypeInv, Position
<1>3. /\ step # Rejection => step.state \in Sources
      /\ step.emitted # <<>> => step.emitted[1] \in LexerTerminals /\ step.emitted = <<step.emitted[1]>>
  BY <1>2, ByteEmits
<1>4. moves => step.state \in Moves(Source)
  BY <1>2 DEF Moves
<1>5. step.emitted # <<>> => step.emitted[1] \in Singletons[Source]
  <2>1. step.emitted # <<>> => step.emitted[1] \in Emits(Source)
    BY <1>2, <1>3 DEF Emits
  <2> QED
    BY <1>2, <2>1, SingletonsHold
<1>6. Source # LogicalStart /\ Label[Source] \in LexerTerminals => Label[Source] \in Singletons[Source]
  <2>1. Source # LogicalStart /\ Label[Source] \in LexerTerminals => Label[Source] \in Emits(Source)
    BY DEF Emits
  <2> QED
    BY <1>2, <2>1, SingletonsHold
<1>7. /\ facts \in Seq(Facts) /\ IsInjective(facts)
      /\ \A i \in 1..Len(facts) : facts[i].terminal \in Singletons[facts[i].source]
      /\ predecessors \in [Sources -> Seq(Sources)]
  BY DEF TypeInv, TypeOK, FactsInv, WorklistIsSound
<1> HIDE DEF step
<1>8. /\ Labelled \in Seq(Facts) /\ IsInjective(Labelled)
      /\ \A i \in 1..Len(Labelled) : Labelled[i].terminal \in Singletons[Labelled[i].source]
      /\ Range(facts) \subseteq Range(Labelled)
      /\ column = 1 /\ Source # LogicalStart /\ Label[Source] # NoTerminal =>
           Fact(Source, Label[Source]) \in Range(Labelled)
  <2>1. CASE Labelled = facts
    <3>1. column = 1 /\ Source # LogicalStart /\ Label[Source] # NoTerminal =>
            Fact(Source, Label[Source]) \in Range(facts)
      BY <2>1, <1>2, <1>7, AddFactType, LexerAssumption DEF Labelled, Sources
    <3> QED
      BY <1>7, <2>1, <3>1
  <2>2. CASE /\ Source # LogicalStart /\ Label[Source] \in LexerTerminals
             /\ Labelled = AddFact(facts, Fact(Source, Label[Source]))
    BY <1>2, <1>6, <1>7, <2>2, AddedFactIsSound
  <2> QED
    BY <1>2, <1>7, <2>1, <2>2, LabelledType
<1>9. /\ facts' \in Seq(Facts) /\ IsInjective(facts')
      /\ \A i \in 1..Len(facts') : facts'[i].terminal \in Singletons[facts'[i].source]
      /\ Range(Labelled) \subseteq Range(facts')
      /\ step.emitted # <<>> => Fact(Source, step.emitted[1]) \in Range(facts')
  <2>1. CASE step.emitted = <<>>
    BY <1>1, <1>8, <2>1
  <2>2. CASE step.emitted # <<>>
    <3> DEFINE t == step.emitted[1]
    <3>1. facts' = AddFact(Labelled, Fact(Source, t)) /\ t \in Singletons[Source]
      BY <1>1, <1>5, <2>2
    <3> HIDE DEF t
    <3> QED
      BY <1>2, <1>8, <3>1, AddedFactIsSound DEF t
  <2> QED
    BY <2>1, <2>2
<1>10. /\ \A d \in Sources : Range(predecessors[d]) \subseteq Range(predecessors'[d])
       /\ \A d \in Sources : \A s \in Range(predecessors'[d]) :
            s \in Range(predecessors[d]) \/ (s = Source /\ d = step.state /\ moves)
       /\ moves => Source \in Range(predecessors'[step.state])
  <2>1. CASE new
    <3>1. step.state \in Sources
      BY <1>3, <2>1
    <3>2. Range(Append(predecessors[step.state], Source)) = Range(predecessors[step.state]) \cup {Source}
      BY <1>2, <1>7, <3>1, Grown
    <3>3. \A d \in Sources : predecessors'[d] = IF d = step.state
            THEN Append(predecessors[d], Source) ELSE predecessors[d]
      BY <1>1, <1>7, <2>1
    <3> QED
      BY <2>1, <3>1, <3>2, <3>3
  <2>2. CASE ~new
    <3>1. moves => Source \in Range(predecessors[step.state])
      BY <2>2 DEF Destinations
    <3> QED
      BY <1>1, <2>2, <3>1
  <2> QED
    BY <2>1, <2>2
<1>11. /\ stage' \in {"scan", "propagate"} /\ (stage' = "propagate" => row' = 1)
       /\ inner' = 0
       /\ \A i \in 1..Len(SourceOrder), j \in 1..Len(ByteOrder) :
            Scanned(i, j)' => Scanned(i, j) \/ (i = row /\ j = column)
  BY <1>1, <1>2, Orders DEF NextCell, Scanned, AfterScan, Collected
<1>12. WorklistIsSound'
  <2>1. \A i \in 1..Len(facts') : Passed(i)' = 0
    BY <1>11 DEF Passed, Collected
  <2> QED
    BY <1>9, <2>1 DEF WorklistIsSound
<1>13. PredecessorsMove'
  BY <1>4, <1>10 DEF PredecessorsMove, FactsInv
<1>14. AllNoted'
  <2> SUFFICES ASSUME NEW i \in 1..Len(SourceOrder), NEW j \in 1..Len(ByteOrder), Scanned(i, j)'
               PROVE  Noted(SourceOrder[i], ByteOrder[j])'
    BY DEF AllNoted
  <2>1. SourceOrder[i] \in Sources /\ ByteOrder[j] \in Bytes
    BY Orders, OrderPlaces
  <2>2. CASE Scanned(i, j)
    <3>1. Noted(SourceOrder[i], ByteOrder[j])
      BY <2>2 DEF FactsInv, AllNoted
    <3> QED
      BY <1>8, <1>9, <1>10, <2>1, <3>1, NotesStay
  <2>3. CASE i = row /\ j = column
    <3>1. SourceOrder[i] = Source /\ ByteOrder[j] = b
      BY <2>3 DEF Source
    <3>2. Source # LogicalStart /\ Label[Source] # NoTerminal => Fact(Source, Label[Source]) \in Range(facts')
      <4>1. CASE column = 1
        BY <1>8, <1>9, <4>1
      <4>2. CASE column # 1
        <5>1. 1 \in 1..Len(ByteOrder) /\ 1 < column
          BY <1>2, <4>2, Orders
        <5>2. Noted(SourceOrder[row], ByteOrder[1])
          BY <1>1, <1>2, <5>1 DEF FactsInv, AllNoted, Scanned
        <5> QED
          BY <1>8, <1>9, <5>2 DEF Noted, Source
      <4> QED
        BY <4>1, <4>2
    <3> QED
      BY <1>9, <1>10, <3>1, <3>2 DEF Noted, step
  <2> QED
    BY <1>11, <2>2, <2>3
<1> QED
  BY <1>12, <1>13, <1>14 DEF FactsInv
(* A fact is passed on to the predecessors of its source one by one.         *)
LEMMA FactsPropagate ==
    ASSUME TypeInv, FactsInv, BeginFact \/ PropagatePredecessor \/ EndPropagation, ~Failing
    PROVE  FactsInv'
<1> USE DEF built, worklist, inverted
<1>0. /\ facts \in Seq(Facts) /\ IsInjective(facts) /\ Len(facts) \in Nat
      /\ \A i \in 1..Len(facts) : facts[i].terminal \in Singletons[facts[i].source]
      /\ predecessors \in [Sources -> Seq(Sources)]
      /\ row \in Nat /\ inner \in Nat
      /\ \A i \in 1..Len(facts) : \A k \in 1..Passed(i) :
           Fact(predecessors[facts[i].source][k], facts[i].terminal) \in Range(facts)
  BY DEF TypeInv, TypeOK, FactsInv, WorklistIsSound
<1>1. CASE BeginFact
  <2>1. /\ stage = "propagate" /\ stage' = "propagate" /\ inner = 0 /\ row <= Len(facts) /\ NextFact
        /\ UNCHANGED <<facts, predecessors>>
    BY <1>1 DEF BeginFact, Spend, Refuse, Fails, Failing
  <2>2. row \in 1..Len(facts)
    BY <2>1 DEF TypeInv, TypeOK
  <2>3. Len(Before) \in Nat
    BY <2>2, FactHere DEF TypeInv
  <2>4. \A i \in 1..Len(facts) : Passed(i)' = Passed(i)
    <3> SUFFICES ASSUME NEW i \in 1..Len(facts) PROVE Passed(i)' = Passed(i)
      OBVIOUS
    <3>1. CASE i = row
      BY <2>1, <2>2, <2>3, <3>1 DEF Passed, NextFact, Collected, Before
    <3>2. CASE i # row
      <4>1. i < row' <=> i < row
        BY <2>1, <2>2, <2>3, <3>2 DEF NextFact
      <4>2. i = row' => inner' = 0
        BY <2>1, <2>2, <2>3, <3>2 DEF NextFact
      <4> QED
        BY <2>1, <3>2, <4>1, <4>2 DEF Passed, Collected
    <3> QED
      BY <3>1, <3>2
  <2>5. WorklistIsSound'
    BY <1>0, <2>1, <2>4 DEF WorklistIsSound
  <2>6. PredecessorsMove' /\ AllNoted'
    BY <2>1 DEF FactsInv, PredecessorsMove, AllNoted, Noted, Scanned, AfterScan
  <2> QED
    BY <2>5, <2>6 DEF FactsInv
<1>2. CASE PropagatePredecessor
  <2> DEFINE s == Before[inner]
             d == facts[row].source
             t == facts[row].terminal
  <2>1. /\ stage = "propagate" /\ stage' = "propagate" /\ inner > 0 /\ NextFact
        /\ facts' = AddFact(facts, Fact(s, t))
        /\ UNCHANGED predecessors
    BY <1>2 DEF PropagatePredecessor
  <2>2. row \in 1..Len(facts) /\ inner \in 1..Len(Before) /\ Len(Before) \in Nat
        /\ s \in Sources /\ d \in Sources /\ t \in LexerTerminals /\ Before = predecessors[d]
        /\ Before \in Seq(Sources)
    BY <2>1, FactHere DEF TypeInv, Position, Before
  <2>3. t \in Singletons[s]
    <3>1. s \in Range(predecessors[d])
      BY <2>2 DEF Range
    <3>2. d \in Moves(s) /\ t \in Singletons[d]
      BY <1>0, <2>2, <3>1 DEF FactsInv, PredecessorsMove
    <3> QED
      BY <2>2, <3>2, SingletonsHold
  <2>4. /\ facts' \in Seq(Facts) /\ IsInjective(facts')
        /\ \A i \in 1..Len(facts') : facts'[i].terminal \in Singletons[facts'[i].source]
        /\ Range(facts') = Range(facts) \cup {Fact(s, t)}
    <3> HIDE DEF s, t
    <3> QED
      BY <1>0, <2>1, <2>2, <2>3, AddedFactIsSound
  <2>5. /\ Len(facts') >= Len(facts) /\ Len(facts') \in Nat
        /\ \A i \in 1..Len(facts) : facts'[i] = facts[i]
    <3> DEFINE new == AddFact(facts, Fact(s, t))
    <3> HIDE DEF s, t
    <3>1. Len(new) >= Len(facts) /\ \A i \in 1..Len(facts) : new[i] = facts[i]
      BY <1>0, <2>2, AddFactType
    <3>2. facts' = new
      BY <2>1
    <3> HIDE DEF new
    <3> QED
      BY <2>4, <3>1, <3>2
  <2>6. \A i \in 1..Len(facts') : i > Len(facts) => Passed(i)' = 0
    <3>1. row' <= Len(facts) + 1 /\ (row' = Len(facts) + 1 => inner' = 0)
      BY <1>0, <2>1, <2>2 DEF NextFact
    <3> SUFFICES ASSUME NEW i \in 1..Len(facts'), i > Len(facts) PROVE Passed(i)' = 0
      OBVIOUS
    <3>2. stage' = "propagate" /\ row \in Nat /\ row' \in Nat /\ i \in Nat /\ Len(facts) \in Nat
      BY <1>0, <2>1, <2>2, <2>5 DEF NextFact
    <3>3. ~(i < row') /\ ~(i = row' /\ inner' > 0)
      BY <3>1, <3>2
    <3> QED
      BY <3>2, <3>3 DEF Passed, Collected
  <2>7. \A i \in 1..Len(facts) : i # row => Passed(i)' = Passed(i)
    <3> SUFFICES ASSUME NEW i \in 1..Len(facts), i # row PROVE Passed(i)' = Passed(i)
      OBVIOUS
    <3>1. (i < row' <=> i < row) /\ (i = row' => inner' = 0)
      BY <2>1, <2>2 DEF NextFact
    <3> QED
      BY <2>1, <2>5, <3>1 DEF Passed, Collected
  <2>8. ASSUME NEW i \in 1..Len(facts), i = row
        PROVE  Passed(i) = inner - 1 /\ Passed(i)' = inner
    <3>1. Passed(i) = inner - 1
      BY <2>1, <2>2, <2>8 DEF Passed, Collected
    <3>2. CASE inner < Len(Before)
      <4>1. inner' = inner + 1 /\ row' = i
        BY <2>1, <2>8, <3>2 DEF NextFact
      <4> QED
        BY <2>1, <2>2, <3>1, <4>1 DEF Passed, Collected
    <3>3. CASE ~(inner < Len(Before))
      <4>1. row' = i + 1 /\ inner = Len(predecessors[d])
        BY <2>1, <2>2, <2>8, <3>3 DEF NextFact
      <4>2. facts'[i].source = d
        BY <2>5, <2>8
      <4> HIDE DEF d
      <4>3. i < i + 1
        OBVIOUS
      <4> QED
        BY <2>1, <3>1, <4>1, <4>2, <4>3 DEF Passed
    <3> QED
      BY <3>2, <3>3
  <2>9. WorklistIsSound'
    <3> SUFFICES ASSUME NEW i \in 1..Len(facts'), NEW k \in 1..Passed(i)'
                 PROVE  Fact(predecessors[facts'[i].source][k], facts'[i].terminal) \in Range(facts')
      BY <2>1, <2>4 DEF WorklistIsSound
    <3>1. i \in 1..Len(facts)
      BY <1>0, <2>5, <2>6
    <3>2. CASE i # row
      BY <1>0, <2>4, <2>5, <2>7, <3>1, <3>2
    <3>3. CASE i = row
      <4>1. facts'[i] = facts[row] /\ k \in 1..inner
        BY <2>5, <2>8, <3>1, <3>3
      <4>2. CASE k = inner
        BY <2>2, <2>4, <4>1, <4>2
      <4>3. CASE k # inner
        <5>1. k \in 1..Passed(i)
          BY <2>2, <2>8, <3>1, <3>3, <4>1, <4>3
        <5> QED
          BY <1>0, <2>2, <2>4, <3>1, <3>3, <4>1, <5>1
      <4> QED
        BY <4>2, <4>3
    <3> QED
      BY <3>2, <3>3
  <2>10. PredecessorsMove'
    BY <2>1 DEF FactsInv, PredecessorsMove
  <2>11. AllNoted'
    BY <2>1, <2>4 DEF FactsInv, AllNoted, Noted, Scanned, AfterScan
  <2> QED
    BY <2>9, <2>10, <2>11 DEF FactsInv
<1>3. CASE EndPropagation
  <2>1. /\ stage = "propagate" /\ stage' = "collect" /\ row > Len(facts) /\ UNCHANGED worklist
    BY <1>3 DEF EndPropagation, Enter
  <2>2. \A i \in 1..Len(facts) : Passed(i)' = Passed(i)
    BY <1>0, <2>1 DEF Passed, Collected
  <2>3. WorklistIsSound'
    BY <1>0, <2>1, <2>2 DEF WorklistIsSound
  <2>4. PredecessorsMove' /\ AllNoted'
    BY <2>1 DEF FactsInv, PredecessorsMove, AllNoted, Noted, Scanned, AfterScan
  <2> QED
    BY <2>3, <2>4 DEF FactsInv
<1> QED
  BY <1>1, <1>2, <1>3

(* The other stages leave the worklist alone.                                *)
LEMMA FactsKept ==
    ASSUME FactsInv, UNCHANGED worklist,
           \/ stage' = "failed"
           \/ stage \notin AfterScan \cup {"scan"} /\ stage' \notin AfterScan \cup {"scan"}
           \/ stage \notin AfterScan /\ stage' = "scan" /\ row' = 1 /\ column' = 1
           \/ stage \in AfterScan \ {"propagate"} /\ stage' \in AfterScan \ {"propagate"}
           \/ UNCHANGED loop
    PROVE  FactsInv'
<1> USE DEF worklist, loop, AfterScan, Collected
<1>1. \A i : Passed(i)' = 0 \/ Passed(i)' = Passed(i)
  BY DEF Passed
<1>2. WorklistIsSound'
  BY <1>1 DEF FactsInv, WorklistIsSound
<1>3. PredecessorsMove'
  BY DEF FactsInv, PredecessorsMove
<1>4. \A i \in 1..Len(SourceOrder), j \in 1..Len(ByteOrder) : Scanned(i, j)' => Scanned(i, j)
  BY Orders DEF Scanned
<1>5. AllNoted'
  BY <1>4 DEF FactsInv, AllNoted, Noted
<1> QED
  BY <1>2, <1>3, <1>5 DEF FactsInv

(* Where a step leads that the stages of its kind take.                      *)
LEMMA StageMoves ==
    ASSUME TypeInv, Within, [Next]_vars, ~Failing
    PROVE  /\ BeginTable => stage = "prepare_token_table" /\ stage' = "table"
           /\ AppendTokenCell => stage = "table" /\ stage' \in {"table", "build_singletons"}
           /\ BeginScan => stage = "build_singletons" /\ stage' = "scan" /\ row' = 1 /\ column' = 1
           /\ ScanByte => stage = "scan" /\ stage' \in {"scan", "propagate"}
           /\ BeginFact \/ PropagatePredecessor => stage = "propagate" /\ stage' = "propagate"
           /\ EndPropagation => stage = "propagate" /\ stage' = "collect" /\ row' = 1 /\ column' = 1
           /\ CollectSingleton => stage = "collect" /\ stage' \in {"collect", "invert"}
           /\ BeginToken \/ AppendContinuation => stage = "invert" /\ stage' \in {"invert", "prepare_parser"}
           /\ BeginClassify => stage = "prepare_parser" /\ stage' \in {"classify", "done"}
           /\ ClassifyHead => stage = "classify" /\ stage' \in {"classify", "done"}
<1>0. ASSUME NEW charges, NEW items PROVE ~Refuse(charges, items)
  BY DEF Refuse, Fails, Failing
<1>1. ASSUME NEW rows, NEW columns, NEW next, NextCell(rows, columns, next)
      PROVE  stage' \in {stage, next}
  BY <1>1 DEF NextCell
<1>2. BeginTable => stage = "prepare_token_table" /\ stage' = "table"
  BY <1>0 DEF BeginTable, Enter
<1>3. AppendTokenCell => stage = "table" /\ stage' \in {"table", "build_singletons"}
  BY <1>0, <1>1, Zenon DEF AppendTokenCell
<1>4. BeginScan => stage = "build_singletons" /\ stage' = "scan" /\ row' = 1 /\ column' = 1
  BY <1>0 DEF BeginScan, Enter
<1>5. ScanByte => stage = "scan" /\ stage' \in {"scan", "propagate"}
  BY <1>0, <1>1, Zenon DEF ScanByte
<1>6. BeginFact \/ PropagatePredecessor => stage = "propagate" /\ stage' = "propagate"
  BY <1>0 DEF BeginFact, PropagatePredecessor
<1>7. EndPropagation => stage = "propagate" /\ stage' = "collect" /\ row' = 1 /\ column' = 1
  BY DEF EndPropagation, Enter
<1>8. CollectSingleton => stage = "collect" /\ stage' \in {"collect", "invert"}
  BY <1>0, <1>1, Zenon DEF CollectSingleton
<1>9. NextContinuation => stage' \in {stage, "prepare_parser"}
  BY <1>1 DEF NextContinuation
<1>10. BeginToken => stage = "invert" /\ stage' \in {"invert", "prepare_parser"}
  BY <1>0, <1>9, Zenon DEF BeginToken
<1>11. AppendContinuation => stage = "invert" /\ stage' \in {"invert", "prepare_parser"}
  BY <1>0, <1>9, Zenon DEF AppendContinuation
<1>12. BeginClassify => stage = "prepare_parser" /\ stage' \in {"classify", "done"}
  BY <1>0 DEF BeginClassify, Enter
<1>13. ClassifyHead => stage = "classify" /\ stage' \in {"classify", "done"}
  BY <1>1, Zenon DEF ClassifyHead, Fails, Failing
<1> QED
  BY <1>2, <1>3, <1>4, <1>5, <1>6, <1>7, <1>8, <1>10, <1>11, <1>12, <1>13
LEMMA FactsStep ==
    ASSUME TypeInv, Within, FactsInv, [Next]_vars
    PROVE  FactsInv'
<1> USE DEF AfterScan, Collected
<1>1. CASE UNCHANGED vars
  BY <1>1, FactsKept DEF vars, worklist, loop
<1>2. CASE Failing
  BY <1>2, FactsKept DEF Failing
<1>3. CASE ~Failing /\ ScanByte
  BY <1>3, FactsScan
<1>4. CASE ~Failing /\ (BeginFact \/ PropagatePredecessor \/ EndPropagation)
  BY <1>4, FactsPropagate
<1>5. ASSUME NEW charges, NEW items, ~Failing PROVE ~Refuse(charges, items)
  BY <1>5 DEF Refuse, Fails, Failing
<1>6. CASE ~Failing /\ (BeginTable \/ AppendTokenCell \/ BeginScan \/ CollectSingleton)
  <2>1. UNCHANGED worklist
    BY <1>5, <1>6, Zenon DEF BeginTable, AppendTokenCell, BeginScan, CollectSingleton
  <2> QED
    BY <1>6, <2>1, StageMoves, FactsKept
<1>7. CASE ~Failing /\ (BeginToken \/ AppendContinuation \/ BeginClassify \/ ClassifyHead)
  <2>1. UNCHANGED worklist
    BY <1>5, <1>7, Zenon DEF BeginToken, AppendContinuation, BeginClassify, ClassifyHead, Fails, Failing
  <2> QED
    BY <1>7, <2>1, StageMoves, FactsKept
<1> QED
  BY <1>1, <1>2, <1>3, <1>4, <1>6, <1>7 DEF Next

LEMMA FactsInit ==
    ASSUME Init
    PROVE  FactsInv
<1>1. facts = <<>> /\ \A d \in Sources : predecessors[d] = <<>>
  BY DEF Init
<1>2. WorklistIsSound
  BY <1>1 DEF WorklistIsSound, IsInjective
<1>3. PredecessorsMove
  BY <1>1 DEF PredecessorsMove, Range
<1>4. AllNoted
  BY DEF Init, AllNoted, Scanned, AfterScan, Collected
<1> QED
  BY <1>2, <1>3, <1>4 DEF FactsInv

(* Before the cursor of the worklist everything has been passed on, whatever *)
(* the grammar and however the sources lead to each other.                   *)
THEOREM WorklistStaysSound == Spec => []WorklistIsSound
<1>1. Init => TypeInv /\ Within /\ FactsInv
  BY TypeInit, FactsInit
<1>2. TypeInv /\ Within /\ FactsInv /\ [Next]_vars => (TypeInv /\ Within /\ FactsInv)'
  BY TypeStep, WithinStep, FactsStep
<1>3. FactsInv => WorklistIsSound
  BY DEF FactsInv
<1> QED
  BY <1>1, <1>2, <1>3, PTL DEF Spec

(* When the worklist is done, the facts of a source are its singletons.      *)
LEMMA FactsAreSingletons ==
    ASSUME TypeInv, FactsInv, stage \in {"collect"} \cup Collected,
           NEW s \in Sources, NEW t \in LexerTerminals
    PROVE  Fact(s, t) \in Range(facts) <=> t \in Singletons[s]
<1> DEFINE T == [x \in Sources |-> {y \in LexerTerminals : Fact(x, y) \in Range(facts)}]
<1>1. facts \in Seq(Facts) /\ predecessors \in [Sources -> Seq(Sources)]
  BY DEF TypeInv, TypeOK
<1>2. ASSUME NEW x \in Sources PROVE Emits(x) \subseteq T[x]
  <2> SUFFICES ASSUME NEW y \in Emits(x) PROVE Fact(x, y) \in Range(facts)
    BY DEF Emits
  <2>1. PICK i \in 1..Len(SourceOrder) : SourceOrder[i] = x
    BY Listed
  <2>2. \A b \in Bytes : Noted(x, b)
    <3> SUFFICES ASSUME NEW b \in Bytes PROVE Noted(x, b)
      OBVIOUS
    <3>1. PICK j \in 1..Len(ByteOrder) : ByteOrder[j] = b
      BY Listed
    <3> QED
      BY <2>1, <3>1 DEF FactsInv, AllNoted, Scanned, AfterScan
  <2>3. CASE x # LogicalStart /\ Label[x] = y
    <3>1. y # NoTerminal
      BY LexerAssumption DEF Emits
    <3>2. Bytes # {}
      BY Orders, OrderPlaces
    <3> QED
      BY <2>2, <2>3, <3>1, <3>2 DEF Noted
  <2>4. CASE \E b \in Bytes : ByteStep(x, b).emitted = <<y>>
    <3>1. PICK b \in Bytes : ByteStep(x, b).emitted = <<y>>
      BY <2>4
    <3>2. ByteStep(x, b).emitted # <<>> /\ ByteStep(x, b).emitted[1] = y
      BY <3>1
    <3> QED
      BY <2>2, <3>2 DEF Noted
  <2> QED
    BY <2>3, <2>4 DEF Emits
<1>3. ASSUME NEW x \in Sources, NEW d \in Moves(x) PROVE T[d] \subseteq T[x]
  <2>1. d \in Sources
    BY SingletonsHold
  <2>2. x \in Range(predecessors[d])
    <3>1. PICK b \in Bytes : /\ ByteStep(x, b) # Rejection /\ ByteStep(x, b).emitted = <<>>
                             /\ ByteStep(x, b).state = d
      BY DEF Moves
    <3>2. PICK i \in 1..Len(SourceOrder) : SourceOrder[i] = x
      BY Listed
    <3>3. PICK j \in 1..Len(ByteOrder) : ByteOrder[j] = b
      BY Listed
    <3>4. Noted(x, b)
      BY <3>2, <3>3 DEF FactsInv, AllNoted, Scanned, AfterScan
    <3> QED
      BY <3>1, <3>4 DEF Noted
  <2> SUFFICES ASSUME NEW y \in LexerTerminals, Fact(d, y) \in Range(facts)
               PROVE  Fact(x, y) \in Range(facts)
    BY <2>1
  <2>3. PICK i \in 1..Len(facts) : facts[i] = Fact(d, y)
    BY <1>1 DEF Range
  <2>4. facts[i].source = d /\ facts[i].terminal = y
    BY <2>3 DEF Fact
  <2>5. PICK k \in 1..Len(predecessors[d]) : predecessors[d][k] = x
    <3>1. predecessors[d] \in Seq(Sources) /\ DOMAIN predecessors[d] = 1..Len(predecessors[d])
      BY <1>1, <2>1
    <3> QED
      BY <2>2, <3>1 DEF Range
  <2>6. Passed(i) = Len(predecessors[d])
    BY <2>4 DEF Passed
  <2> QED
    BY <2>3, <2>4, <2>5, <2>6 DEF FactsInv, WorklistIsSound
<1> HIDE DEF T
<1>4. Singletons[s] \subseteq T[s]
  BY <1>2, <1>3, SingletonsLeast
<1>5. ASSUME Fact(s, t) \in Range(facts) PROVE t \in Singletons[s]
  <2>1. PICK i \in 1..Len(facts) : facts[i] = Fact(s, t)
    BY <1>1, <1>5 DEF Range
  <2>2. facts[i].source = s /\ facts[i].terminal = t
    BY <2>1 DEF Fact
  <2> QED
    BY <2>2 DEF FactsInv, WorklistIsSound
<1> QED
  BY <1>4, <1>5 DEF T

-----------------------------------------------------------------------------
(* Values in an order.                                                       *)

LEMMA OrderGrows ==
    ASSUME NEW S, NEW order, IsOrder(order, S), NEW s \in Seq(S), InOrder(s, order), NEW x \in S,
           \A y \in Range(s) : PlaceIn(order, y) < PlaceIn(order, x)
    PROVE  InOrder(Append(s, x), order)
<1> DEFINE t == Append(s, x)
           at(y) == PlaceIn(order, y)
<1>1. /\ Len(t) = Len(s) + 1 /\ Len(s) \in Nat /\ t[Len(s) + 1] = x
      /\ \A i \in 1..Len(s) : t[i] = s[i]
  BY Grown
<1> HIDE DEF t, at
<1>2. \A i, j \in 1..Len(s) : i < j => at(s[i]) < at(s[j])
  BY DEF InOrder, at
<1>3. \A i \in 1..Len(s) : at(s[i]) < at(x)
  BY DEF Range, at
<1>4. \A i, j \in 1..Len(t) : i < j => at(t[i]) < at(t[j])
  <2> SUFFICES ASSUME NEW i \in 1..Len(t), NEW j \in 1..Len(t), i < j
               PROVE  at(t[i]) < at(t[j])
    OBVIOUS
  <2>1. i \in 1..Len(s)
    BY <1>1
  <2>2. CASE j \in 1..Len(s)
    BY <1>1, <1>2, <2>1, <2>2
  <2>3. CASE j = Len(s) + 1
    BY <1>1, <1>3, <2>1, <2>3
  <2> QED
    BY <1>1, <2>2, <2>3
<1> QED
  BY <1>4 DEF InOrder, at, t

LEMMA InOrderOnce ==
    ASSUME NEW S, NEW order, IsOrder(order, S), NEW s \in Seq(S), InOrder(s, order)
    PROVE  IsInjective(s)
<1>1. \A i \in 1..Len(s) : PlaceIn(order, s[i]) \in Nat
  BY OrderPlaces
<1> QED
  BY <1>1 DEF InOrder, IsInjective
-----------------------------------------------------------------------------
(* The collected singletons.                                                 *)

BeforeCollect == {"prepare_token_table", "table", "build_singletons", "scan", "propagate"}
Gathered(i, n) ==
    LET s == SourceOrder[i] IN
    /\ Range(singletons[s]) = {TerminalOrder[j] : j \in {k \in 1..n : TerminalOrder[k] \in Singletons[s]}}
    /\ InOrder(singletons[s], TerminalOrder)
CollectInv ==
    /\ stage \in BeforeCollect => \A s \in Sources : singletons[s] = <<>>
    /\ stage = "collect" =>
         \A i \in 1..Len(SourceOrder) : Gathered(i, Behind(row, column, Len(TerminalOrder), i))
    /\ stage \in Collected => \A i \in 1..Len(SourceOrder) : Gathered(i, Len(TerminalOrder))

(* Nothing is gathered of no terminals.                                      *)
LEMMA GatheredNone ==
    ASSUME NEW i \in 1..Len(SourceOrder), singletons[SourceOrder[i]] = <<>>
    PROVE  Gathered(i, 0)
<1>1. Range(<<>>) = {}
  BY DEF Range
<1>2. InOrder(<<>>, TerminalOrder)
  BY DEF InOrder
<1> QED
  BY <1>1, <1>2 DEF Gathered

(* One terminal more: it is appended when it is a singleton.                 *)
LEMMA GatheredMore ==
    ASSUME TypeInv, NEW i \in 1..Len(SourceOrder), NEW n \in 1..Len(TerminalOrder), Gathered(i, n - 1),
           singletons'[SourceOrder[i]] =
             IF TerminalOrder[n] \in Singletons[SourceOrder[i]]
             THEN Append(singletons[SourceOrder[i]], TerminalOrder[n])
             ELSE singletons[SourceOrder[i]]
    PROVE  Gathered(i, n)'
<1> DEFINE s == SourceOrder[i]
           x == TerminalOrder[n]
           old == singletons[s]
           grown == Append(old, x)
           Chosen(m) == {TerminalOrder[j] : j \in {k \in 1..m : TerminalOrder[k] \in Singletons[s]}}
<1>1. s \in Sources
  BY SourceApart
<1>2. n \in Nat /\ n - 1 \in Nat /\ 1..n = 1..(n - 1) \cup {n}
  BY Orders
<1>3. old \in Seq(LexerTerminals) /\ LexerTerminals \subseteq Terminals /\ x \in Terminals
  BY <1>1, Orders, OrderPlaces, PreparedAssumption DEF TypeInv, TypeOK
<1>4. Range(old) = Chosen(n - 1) /\ InOrder(old, TerminalOrder)
  BY DEF Gathered
<1>5. Chosen(n) = IF x \in Singletons[s] THEN Chosen(n - 1) \cup {x} ELSE Chosen(n - 1)
  BY <1>2
<1>6. CASE x \in Singletons[s]
  <2>1. old \in Seq(Terminals)
    BY <1>3
  <2>2. Range(grown) = Range(old) \cup {x}
    BY <1>3, <2>1, Grown
  <2>3. \A y \in Range(old) : PlaceIn(TerminalOrder, y) < PlaceIn(TerminalOrder, x)
    <3> SUFFICES ASSUME NEW y \in Range(old)
                 PROVE  PlaceIn(TerminalOrder, y) < PlaceIn(TerminalOrder, x)
      OBVIOUS
    <3>1. PICK k \in 1..n - 1 : y = TerminalOrder[k]
      BY <1>4
    <3>2. IsOrder(TerminalOrder, Terminals) /\ Len(TerminalOrder) \in Nat
      BY Orders
    <3>3. k \in 1..Len(TerminalOrder)
      BY <3>1, <3>2
    <3>4. PlaceIn(TerminalOrder, y) = k /\ PlaceIn(TerminalOrder, x) = n
      BY <3>1, <3>2, <3>3, OrderPlaces
    <3> QED
      BY <1>2, <3>1, <3>4
  <2>4. InOrder(grown, TerminalOrder)
    <3> HIDE DEF x, old
    <3> QED
      BY <1>3, <1>4, <2>1, <2>3, Orders, OrderGrows
  <2>5. singletons'[s] = grown
    BY <1>6
  <2> HIDE DEF grown, Chosen
  <2>6. Range(singletons'[s]) = Chosen(n) /\ InOrder(singletons'[s], TerminalOrder)
    BY <1>4, <1>5, <1>6, <2>2, <2>4, <2>5
  <2> QED
    BY <2>6 DEF Gathered, Chosen
<1>7. CASE x \notin Singletons[s]
  <2>1. singletons'[s] = old
    BY <1>7
  <2> HIDE DEF old, Chosen
  <2>2. Range(singletons'[s]) = Chosen(n) /\ InOrder(singletons'[s], TerminalOrder)
    BY <1>4, <1>5, <1>7, <2>1
  <2> QED
    BY <2>2 DEF Gathered, Chosen
<1> QED
  BY <1>6, <1>7

LEMMA CollectMore ==
    ASSUME TypeInv, Within, FactsInv, CollectInv, CollectSingleton, ~Failing
    PROVE  CollectInv'
<1> DEFINE t == TerminalOrder[column]
           n == Len(TerminalOrder)
<1>1. /\ stage = "collect"
      /\ singletons' = IF Fact(Source, t) \in Range(facts)
                       THEN [singletons EXCEPT ![Source] = Append(@, t)]
                       ELSE singletons
      /\ NextCell(Len(SourceOrder), Len(TerminalOrder), "invert")
  BY DEF CollectSingleton, Spend, Refuse, Fails, Failing
<1>2. /\ row \in 1..Len(SourceOrder) /\ column \in 1..Len(TerminalOrder) /\ Source \in Sources
      /\ n \in Nat
  BY <1>1, SourceHere, Orders DEF TypeInv, Position
<1>3. Fact(Source, t) \in Range(facts) <=> t \in Singletons[Source]
  <2>1. CASE t \in LexerTerminals
    BY <1>1, <1>2, <2>1, FactsAreSingletons
  <2>2. CASE t \notin LexerTerminals
    <3>1. Range(facts) \subseteq Facts
      BY DEF TypeInv, TypeOK, Range
    <3> QED
      BY <1>2, <2>2, <3>1, SingletonsHold DEF Facts, Fact
  <2> QED
    BY <2>1, <2>2
<1>4. \A i \in 1..Len(SourceOrder) : Gathered(i, Behind(row, column, n, i))
  BY <1>1 DEF CollectInv
<1>5. ASSUME NEW i \in 1..Len(SourceOrder), NEW m,
             m = IF i = row THEN column ELSE Behind(row, column, n, i)
      PROVE  Gathered(i, m)'
  <2>1. singletons \in [Sources -> Seq(LexerTerminals)]
    BY DEF TypeInv, TypeOK
  <2>2. CASE i = row
    <3>1. Gathered(i, m - 1) /\ m = column /\ m \in 1..Len(TerminalOrder)
      BY <1>2, <1>4, <1>5, <2>2 DEF Behind
    <3>2. Source = SourceOrder[i]
      BY <2>2 DEF Source
    <3>3. singletons'[SourceOrder[i]] = IF TerminalOrder[m] \in Singletons[SourceOrder[i]]
             THEN Append(singletons[SourceOrder[i]], TerminalOrder[m]) ELSE singletons[SourceOrder[i]]
      BY <1>1, <1>2, <1>3, <2>1, <3>1, <3>2
    <3> QED
      BY <3>1, <3>3, GatheredMore
  <2>3. CASE i # row
    <3>1. SourceOrder[i] # Source
      BY <1>2, <2>3, SourceApart DEF Source
    <3>2. singletons'[SourceOrder[i]] = singletons[SourceOrder[i]]
      BY <1>1, <2>1, <3>1
    <3>3. Gathered(i, m)
      BY <1>4, <1>5, <2>3
    <3> QED
      BY <3>2, <3>3 DEF Gathered
  <2> QED
    BY <2>2, <2>3
<1>6. \/ /\ stage' = "collect"
         /\ \A i \in 1..Len(SourceOrder) : Behind(row', column', n, i)
              = IF i = row THEN column ELSE Behind(row, column, n, i)
      \/ /\ stage' = "invert"
         /\ \A i \in 1..Len(SourceOrder) : (IF i = row THEN column ELSE Behind(row, column, n, i)) = n
  BY <1>1, <1>2, CellDone, Orders
<1> QED
  BY <1>5, <1>6 DEF CollectInv, BeforeCollect, Collected
LEMMA CollectKept ==
    ASSUME CollectInv, UNCHANGED singletons,
           \/ stage' = "failed"
           \/ stage \in BeforeCollect /\ stage' \in BeforeCollect
           \/ stage = "propagate" /\ stage' = "collect" /\ row' = 1 /\ column' = 1
           \/ stage \in Collected /\ stage' \in Collected
           \/ UNCHANGED loop
    PROVE  CollectInv'
<1> USE DEF BeforeCollect, Collected
<1>1. CASE stage = "propagate" /\ stage' = "collect" /\ row' = 1 /\ column' = 1
  <2>1. ASSUME NEW i \in 1..Len(SourceOrder)
        PROVE  Gathered(i, 0)' /\ Behind(row', column', Len(TerminalOrder), i) = 0
    <3>1. singletons[SourceOrder[i]] = <<>>
      BY <1>1, SourceApart DEF CollectInv
    <3>2. Gathered(i, 0)
      BY <3>1, GatheredNone
    <3>3. Gathered(i, 0)'
      BY <3>2 DEF Gathered
    <3> QED
      BY <1>1, <3>3, Orders DEF Behind
  <2> QED
    BY <1>1, <2>1 DEF CollectInv
<1>2. CASE ~(stage = "propagate" /\ stage' = "collect" /\ row' = 1 /\ column' = 1)
  <2>1. ASSUME NEW i, NEW n, Gathered(i, n) PROVE Gathered(i, n)'
    BY <2>1 DEF Gathered
  <2>2. UNCHANGED loop => UNCHANGED <<stage, row, column>>
    BY DEF loop
  <2> QED
    BY <1>2, <2>1, <2>2 DEF CollectInv
<1> QED
  BY <1>1, <1>2

LEMMA CollectStep ==
    ASSUME TypeInv, Within, FactsInv, CollectInv, [Next]_vars
    PROVE  CollectInv'
<1> USE DEF BeforeCollect, Collected
<1>1. CASE UNCHANGED vars
  BY <1>1, CollectKept DEF vars
<1>2. CASE Failing
  BY <1>2, CollectKept DEF Failing
<1>3. CASE ~Failing /\ CollectSingleton
  BY <1>3, CollectMore
<1>4. ASSUME NEW charges, NEW items, ~Failing PROVE ~Refuse(charges, items)
  BY <1>4 DEF Refuse, Fails, Failing
<1>5. CASE ~Failing /\ (BeginTable \/ AppendTokenCell \/ BeginScan \/ ScanByte)
  <2>1. UNCHANGED singletons
    BY <1>4, <1>5, Zenon DEF BeginTable, AppendTokenCell, BeginScan, ScanByte
  <2> QED
    BY <1>5, <2>1, StageMoves, CollectKept
<1>6. CASE ~Failing /\ (BeginFact \/ PropagatePredecessor \/ EndPropagation)
  <2>1. UNCHANGED singletons
    BY <1>4, <1>6, Zenon DEF BeginFact, PropagatePredecessor, EndPropagation
  <2> QED
    BY <1>6, <2>1, StageMoves, CollectKept
<1>7. CASE ~Failing /\ (BeginToken \/ AppendContinuation \/ BeginClassify \/ ClassifyHead)
  <2>1. UNCHANGED singletons
    BY <1>4, <1>7, Zenon DEF BeginToken, AppendContinuation, BeginClassify, ClassifyHead, Fails, Failing
  <2> QED
    BY <1>7, <2>1, StageMoves, CollectKept
<1> QED
  BY <1>1, <1>2, <1>3, <1>5, <1>6, <1>7 DEF Next

LEMMA CollectInit ==
    ASSUME Init
    PROVE  CollectInv
  BY DEF Init, CollectInv, BeforeCollect, Collected

(* What is collected is what the lexer can make come first, in order.        *)
LEMMA CollectedAreExact ==
    ASSUME CollectInv, stage \in Collected, NEW s \in Sources
    PROVE  Range(singletons[s]) = Singletons[s] /\ InOrder(singletons[s], TerminalOrder)
<1>1. PICK i \in 1..Len(SourceOrder) : SourceOrder[i] = s
  BY Listed
<1>2. Gathered(i, Len(TerminalOrder))
  BY DEF CollectInv
<1>3. Singletons[s] \subseteq Terminals
  BY SingletonsHold, PreparedAssumption
<1>4. {TerminalOrder[j] : j \in {k \in 1..Len(TerminalOrder) : TerminalOrder[k] \in Singletons[s]}}
        = Singletons[s]
  BY <1>3, Listed
<1> QED
  BY <1>1, <1>2, <1>4 DEF Gathered

(* The worklist collects the least fixed point, in terminal order.           *)
THEOREM WorklistCollectsSingletons == Spec => []SingletonsAreExact
<1>1. Init => TypeInv /\ Within /\ FactsInv /\ CollectInv
  BY TypeInit, FactsInit, CollectInit
<1>2. /\ TypeInv /\ Within /\ FactsInv /\ CollectInv /\ [Next]_vars
      => (TypeInv /\ Within /\ FactsInv /\ CollectInv)'
  BY TypeStep, WithinStep, FactsStep, CollectStep
<1>3. CollectInv => SingletonsAreExact
  BY CollectedAreExact DEF SingletonsAreExact
<1> QED
  BY <1>1, <1>2, <1>3, PTL DEF Spec
-----------------------------------------------------------------------------
(* The buckets.                                                              *)

(* What becomes of the buckets of a source when a token joins one.           *)
LEMMA MemberAdded ==
    ASSUME NEW buckets \in Seq(InverseBuckets), NEW id \in Nat \ {0}, NEW token \in Tokens
    PROVE  LET new == WithMember(buckets, id, token) IN
           /\ new \in Seq(InverseBuckets) /\ Len(new) \in Nat
           /\ \A b \in 1..Len(buckets) :
                /\ b \in 1..Len(new) /\ new[b].sequence = buckets[b].sequence
                /\ Range(buckets[b].tokens) \subseteq Range(new[b].tokens)
           /\ \A b \in 1..Len(new) : \A y \in Range(new[b].tokens) :
                \/ b \in 1..Len(buckets) /\ y \in Range(buckets[b].tokens)
                \/ y = token /\ new[b].sequence = id
           /\ \A b \in 1..Len(new) : new[b].sequence = id \/ b \in 1..Len(buckets)
           /\ \E b \in 1..Len(new) : new[b].sequence = id /\ token \in Range(new[b].tokens)
           /\ (\A a, b \in 1..Len(buckets) : buckets[a].sequence = buckets[b].sequence => a = b)
                => (\A a, b \in 1..Len(new) : new[a].sequence = new[b].sequence => a = b)
           /\ /\ \A b \in 1..Len(buckets) : InOrder(buckets[b].tokens, TokenOrder)
              /\ \A b \in 1..Len(buckets) : buckets[b].sequence = id =>
                   \A y \in Range(buckets[b].tokens) : PlaceIn(TokenOrder, y) < PlaceIn(TokenOrder, token)
              => \A b \in 1..Len(new) : InOrder(new[b].tokens, TokenOrder)
<1> DEFINE new == WithMember(buckets, id, token)
           known == Known(buckets, id)
           opened == [sequence |-> id, tokens |-> <<token>>]
           InPlace(b) == InOrder(b.tokens, TokenOrder)
           Earlier(b) == \A y \in Range(b.tokens) : PlaceIn(TokenOrder, y) < PlaceIn(TokenOrder, token)
<1>0. \A x \in InverseBuckets : x.tokens \in Seq(Tokens)
  BY DEF InverseBuckets
<1>1. /\ Len(buckets) \in Nat /\ new \in Seq(InverseBuckets) /\ Len(new) \in Nat
      /\ \A b \in 1..Len(buckets) : buckets[b] \in InverseBuckets
  <2>1. Len(buckets) \in Nat /\ \A b \in 1..Len(buckets) : buckets[b] \in InverseBuckets
    OBVIOUS
  <2>2. new \in Seq(InverseBuckets)
    BY BucketGrows
  <2> HIDE DEF new
  <2> QED
    BY <2>1, <2>2
<1>2. CASE ~known
  <2>1. new = Append(buckets, opened)
    BY <1>2, BucketGrows
  <2>2. opened \in InverseBuckets
    BY DEF InverseBuckets
  <2>3. /\ Len(new) = Len(buckets) + 1 /\ new[Len(buckets) + 1] = opened
        /\ \A b \in 1..Len(buckets) : new[b] = buckets[b]
    BY <2>1, <2>2, Grown
  <2>4. opened.sequence = id /\ Range(opened.tokens) = {token} /\ InPlace(opened)
    BY DEF Range, InOrder
  <2> HIDE DEF new, opened
  <2>5. \A b \in 1..Len(new) : b \in 1..Len(buckets) \/ b = Len(buckets) + 1
    BY <1>1, <2>3
  <2>6. Len(buckets) + 1 \in 1..Len(new) /\ \A b \in 1..Len(buckets) : b \in 1..Len(new)
    BY <1>1, <2>3
  <2>7. \A a, b \in 1..Len(new) : new[a].sequence = new[b].sequence =>
           \/ a = b
           \/ a \in 1..Len(buckets) /\ b \in 1..Len(buckets) /\ buckets[a].sequence = buckets[b].sequence
    BY <1>2, <2>3, <2>4, <2>5 DEF Known
  <2>8. /\ \A b \in 1..Len(buckets) :
             /\ b \in 1..Len(new) /\ new[b].sequence = buckets[b].sequence
             /\ Range(buckets[b].tokens) \subseteq Range(new[b].tokens)
        /\ \A b \in 1..Len(new) : \A y \in Range(new[b].tokens) :
             \/ b \in 1..Len(buckets) /\ y \in Range(buckets[b].tokens)
             \/ y = token /\ new[b].sequence = id
        /\ \A b \in 1..Len(new) : new[b].sequence = id \/ b \in 1..Len(buckets)
        /\ \E b \in 1..Len(new) : new[b].sequence = id /\ token \in Range(new[b].tokens)
    BY <2>3, <2>4, <2>5, <2>6
  <2>9. (\A b \in 1..Len(buckets) : InPlace(buckets[b])) => \A b \in 1..Len(new) : InPlace(new[b])
    BY <2>3, <2>4, <2>5
  <2> QED
    BY <1>1, <2>7, <2>8, <2>9 DEF new
<1>3. CASE known
  <2>0. \E k \in 1..Len(buckets) : JoinedAt(buckets, new, k, id, token)
    BY <1>3, BucketGrows
  <2>1. PICK k \in 1..Len(buckets) :
          /\ Len(new) = Len(buckets) /\ buckets[k].sequence = id
          /\ \A b \in 1..Len(buckets) : new[b] = IF b = k THEN Joined(buckets[b], token) ELSE buckets[b]
    BY <2>0 DEF JoinedAt
  <2> DEFINE bumped == Joined(buckets[k], token)
  <2>2. buckets[k].tokens \in Seq(Tokens) /\ buckets[k] \in InverseBuckets
    BY <1>0, <1>1
  <2>3. bumped.sequence = id /\ bumped.tokens = Append(buckets[k].tokens, token)
    BY <2>1, <2>2 DEF InverseBuckets, Joined
  <2>4. Range(bumped.tokens) = Range(buckets[k].tokens) \cup {token}
    BY <2>2, <2>3, Grown
  <2>5. InPlace(buckets[k]) /\ Earlier(buckets[k]) => InPlace(bumped)
    BY <2>2, <2>3, Orders, OrderGrows
  <2>6. new[k] = bumped /\ \A b \in 1..Len(buckets) : b # k => new[b] = buckets[b]
    BY <2>1
  <2> HIDE DEF new, bumped, InPlace, Earlier
  <2>7. /\ \A b \in 1..Len(buckets) :
             /\ b \in 1..Len(new) /\ new[b].sequence = buckets[b].sequence
             /\ Range(buckets[b].tokens) \subseteq Range(new[b].tokens)
        /\ \A b \in 1..Len(new) : \A y \in Range(new[b].tokens) :
             \/ b \in 1..Len(buckets) /\ y \in Range(buckets[b].tokens)
             \/ y = token /\ new[b].sequence = id
        /\ \A b \in 1..Len(new) : new[b].sequence = id \/ b \in 1..Len(buckets)
        /\ \E b \in 1..Len(new) : new[b].sequence = id /\ token \in Range(new[b].tokens)
    BY <2>1, <2>3, <2>4, <2>6
  <2>8. (\A a, b \in 1..Len(buckets) : buckets[a].sequence = buckets[b].sequence => a = b)
          => (\A a, b \in 1..Len(new) : new[a].sequence = new[b].sequence => a = b)
    BY <2>1, <2>7
  <2>9. /\ \A b \in 1..Len(buckets) : InPlace(buckets[b])
        /\ \A b \in 1..Len(buckets) : buckets[b].sequence = id => Earlier(buckets[b])
        => \A b \in 1..Len(new) : InPlace(new[b])
    BY <2>1, <2>5, <2>6
  <2> QED
    BY <1>1, <2>7, <2>8, <2>9 DEF new, InPlace, Earlier
<1> QED
  BY <1>2, <1>3

(* The ids of the heads when one is interned.                                *)
LEMMA HeadInterned ==
    ASSUME NEW seqs \in Seq(Seq(Terminals) \ {<<>>}), IsInjective(seqs),
           NEW h \in Seq(Terminals) \ {<<>>}
    PROVE  LET id == PlaceIn(seqs, h)
               new == IF id > Len(seqs) THEN Append(seqs, h) ELSE seqs
           IN /\ new \in Seq(Seq(Terminals) \ {<<>>}) /\ IsInjective(new)
              /\ id \in 1..Len(new) /\ new[id] = h /\ Len(new) \in Nat
              /\ Range(new) = Range(seqs) \cup {h}
              /\ \A i \in 1..Len(seqs) : i \in 1..Len(new) /\ new[i] = seqs[i]
<1> DEFINE id == PlaceIn(seqs, h)
           S == Seq(Terminals) \ {<<>>}
           new == IF id > Len(seqs) THEN Append(seqs, h) ELSE seqs
<1>1. /\ h \in S /\ seqs \in Seq(S) /\ Len(seqs) \in Nat
      /\ h \in Range(seqs) => id \in 1..Len(seqs) /\ seqs[id] = h
      /\ h \notin Range(seqs) => id = Len(seqs) + 1
  BY PlaceFound
<1> HIDE DEF id, S
<1>2. CASE h \in Range(seqs)
  <2>1. new = seqs
    BY <1>1, <1>2
  <2> HIDE DEF new
  <2> QED
    BY <1>1, <1>2, <2>1 DEF id, new, S
<1>3. CASE h \notin Range(seqs)
  <2>1. new = Append(seqs, h) /\ id = Len(seqs) + 1
    BY <1>1, <1>3
  <2>2. /\ new \in Seq(S) /\ Len(new) = Len(seqs) + 1
        /\ \A i \in 1..Len(seqs) : new[i] = seqs[i]
        /\ new[Len(seqs) + 1] = h
        /\ Range(new) = Range(seqs) \cup {h}
        /\ IsInjective(new)
    BY <1>1, <1>3, <2>1, Grown
  <2> HIDE DEF new
  <2>3. \A i \in 1..Len(seqs) : i \in 1..Len(new)
    BY <1>1, <2>2
  <2>4. id \in 1..Len(new) /\ new[id] = h /\ Len(new) \in Nat
    BY <1>1, <2>1, <2>2
  <2> QED
    BY <2>2, <2>3, <2>4 DEF id, new, S
<1> QED
  BY <1>2, <1>3
(* What the sequences and the buckets hold when just the filings of F have   *)
(* been made, each of a token in the bucket of a head at a source.           *)
Filing(s, token, h) == [source |-> s, token |-> token, head |-> h]
Filings == [source : Sources, token : Tokens, head : Seq(Terminals) \ {<<>>}]

HeadsNumbered(seqs, F) ==
    /\ IsInjective(seqs)
    /\ \A id \in 1..Len(seqs) : \E f \in F : f.head = seqs[id]
BucketsHold(seqs, buckets, s, F) ==
    /\ \A b \in 1..Len(buckets) :
         /\ buckets[b].sequence \in 1..Len(seqs)
         /\ InOrder(buckets[b].tokens, TokenOrder)
         /\ \A y \in Range(buckets[b].tokens) : Filing(s, y, seqs[buckets[b].sequence]) \in F
    /\ \A a, b \in 1..Len(buckets) : buckets[a].sequence = buckets[b].sequence => a = b
    /\ \A f \in F : f.source = s =>
         \E b \in 1..Len(buckets) : /\ seqs[buckets[b].sequence] = f.head
                                    /\ f.token \in Range(buckets[b].tokens)

(* One filing more, of a head that no later token of the source has.         *)
LEMMA FilingMade ==
    ASSUME NEW seqs \in Seq(Seq(Terminals) \ {<<>>}), NEW buckets \in Seq(InverseBuckets),
           NEW F \in SUBSET Filings,
           NEW s \in Sources, NEW token \in Tokens, NEW h \in Seq(Terminals) \ {<<>>},
           HeadsNumbered(seqs, F), BucketsHold(seqs, buckets, s, F),
           \A y \in Tokens : Filing(s, y, h) \in F => PlaceIn(TokenOrder, y) < PlaceIn(TokenOrder, token)
    PROVE  LET id == PlaceIn(seqs, h)
               heads == IF id > Len(seqs) THEN Append(seqs, h) ELSE seqs
               G == F \cup {Filing(s, token, h)}
           IN HeadsNumbered(heads, G) /\ BucketsHold(heads, WithMember(buckets, id, token), s, G)
<1> DEFINE id == PlaceIn(seqs, h)
           heads == IF id > Len(seqs) THEN Append(seqs, h) ELSE seqs
           G == F \cup {Filing(s, token, h)}
           new == WithMember(buckets, id, token)
           at(y) == PlaceIn(TokenOrder, y)
           Ordered(b) == InOrder(b.tokens, TokenOrder)
<1>1. /\ heads \in Seq(Seq(Terminals) \ {<<>>}) /\ IsInjective(heads)
      /\ id \in 1..Len(heads) /\ heads[id] = h /\ Len(heads) \in Nat
      /\ Range(heads) = Range(seqs) \cup {h}
      /\ \A i \in 1..Len(seqs) : i \in 1..Len(heads) /\ heads[i] = seqs[i]
  BY HeadInterned DEF HeadsNumbered
<1>2. Filing(s, token, h).head = h /\ Filing(s, token, h).source = s /\ Filing(s, token, h).token = token
  BY DEF Filing
<1> HIDE DEF heads, id
<1>3. id \in Nat \ {0}
  BY <1>1
<1>4. /\ \A b \in 1..Len(buckets) :
           /\ buckets[b].sequence \in 1..Len(seqs) /\ Ordered(buckets[b])
           /\ \A y \in Range(buckets[b].tokens) : Filing(s, y, seqs[buckets[b].sequence]) \in F
      /\ \A a, b \in 1..Len(buckets) : buckets[a].sequence = buckets[b].sequence => a = b
      /\ \A f \in F : f.source = s =>
           \E b \in 1..Len(buckets) : /\ seqs[buckets[b].sequence] = f.head
                                      /\ f.token \in Range(buckets[b].tokens)
  BY DEF BucketsHold
<1>5. \A b \in 1..Len(buckets) : buckets[b].sequence = id =>
         \A y \in Range(buckets[b].tokens) : at(y) < at(token)
  <2> SUFFICES ASSUME NEW b \in 1..Len(buckets), buckets[b].sequence = id,
                      NEW y \in Range(buckets[b].tokens)
               PROVE  at(y) < at(token)
    OBVIOUS
  <2>1. seqs[id] = h
    BY <1>1, <1>4
  <2>2. Filing(s, y, h) \in F
    BY <1>4, <2>1
  <2>3. y \in Tokens
    BY <2>2 DEF Filings, Filing
  <2> QED
    BY <2>2, <2>3
<1>6. /\ Len(new) \in Nat
      /\ \A b \in 1..Len(buckets) :
           /\ b \in 1..Len(new) /\ new[b].sequence = buckets[b].sequence
           /\ Range(buckets[b].tokens) \subseteq Range(new[b].tokens)
      /\ \A b \in 1..Len(new) : \A y \in Range(new[b].tokens) :
           \/ b \in 1..Len(buckets) /\ y \in Range(buckets[b].tokens)
           \/ y = token /\ new[b].sequence = id
      /\ \A b \in 1..Len(new) : new[b].sequence = id \/ b \in 1..Len(buckets)
      /\ \E b \in 1..Len(new) : new[b].sequence = id /\ token \in Range(new[b].tokens)
  BY <1>3, MemberAdded, Zenon
<1>7. \A a, b \in 1..Len(new) : new[a].sequence = new[b].sequence => a = b
  BY <1>3, <1>4, MemberAdded, Zenon
<1>8. \A b \in 1..Len(new) : Ordered(new[b])
  BY <1>3, <1>4, <1>5, MemberAdded, Zenon
<1> HIDE DEF new, at, Ordered
<1>9. HeadsNumbered(heads, G)
  <2>1. \A i \in 1..Len(heads) : \E f \in G : f.head = heads[i]
    <3> SUFFICES ASSUME NEW i \in 1..Len(heads) PROVE \E f \in G : f.head = heads[i]
      OBVIOUS
    <3>0. DOMAIN heads = 1..Len(heads)
      BY <1>1
    <3>1. heads[i] \in Range(seqs) \cup {h}
      BY <1>1, <3>0 DEF Range
    <3>2. CASE heads[i] = h
      BY <1>2, <3>2
    <3>3. CASE heads[i] \in Range(seqs)
      <4>1. PICK k \in 1..Len(seqs) : seqs[k] = heads[i]
        BY <3>3 DEF Range
      <4> QED
        BY <4>1 DEF HeadsNumbered
    <3> QED
      BY <3>1, <3>2, <3>3
  <2> QED
    BY <1>1, <2>1 DEF HeadsNumbered
<1>10. \A b \in 1..Len(new) : /\ new[b].sequence \in 1..Len(heads)
                              /\ b \in 1..Len(buckets) => heads[new[b].sequence] = seqs[buckets[b].sequence]
  BY <1>1, <1>4, <1>6
<1>11. ASSUME NEW b \in 1..Len(new), NEW y \in Range(new[b].tokens)
       PROVE  Filing(s, y, heads[new[b].sequence]) \in G
  <2>1. CASE b \in 1..Len(buckets) /\ y \in Range(buckets[b].tokens)
    <3>1. Filing(s, y, seqs[buckets[b].sequence]) \in F
      BY <1>4, <2>1
    <3>2. heads[new[b].sequence] = seqs[buckets[b].sequence]
      BY <1>10, <2>1
    <3> QED
      BY <3>1, <3>2
  <2>2. CASE y = token /\ new[b].sequence = id
    BY <1>1, <2>2
  <2> QED
    BY <1>6, <2>1, <2>2
<1>12. \A f \in G : f.source = s =>
          \E b \in 1..Len(new) : heads[new[b].sequence] = f.head /\ f.token \in Range(new[b].tokens)
  <2> SUFFICES ASSUME NEW f \in G, f.source = s
               PROVE  \E b \in 1..Len(new) : heads[new[b].sequence] = f.head /\ f.token \in Range(new[b].tokens)
    OBVIOUS
  <2>1. CASE f = Filing(s, token, h)
    BY <1>1, <1>2, <1>6, <2>1
  <2>2. CASE f \in F
    <3>1. PICK b \in 1..Len(buckets) :
            seqs[buckets[b].sequence] = f.head /\ f.token \in Range(buckets[b].tokens)
      BY <1>4, <2>2
    <3>2. b \in 1..Len(new) /\ f.token \in Range(new[b].tokens)
      BY <1>6, <3>1
    <3>3. heads[new[b].sequence] = f.head
      BY <1>10, <3>1, <3>2
    <3> QED
      BY <3>2, <3>3
  <2> QED
    BY <2>1, <2>2
<1>13. BucketsHold(heads, new, s, G)
  BY <1>7, <1>8, <1>10, <1>11, <1>12 DEF BucketsHold, Ordered
<1> QED
  BY <1>9, <1>13 DEF heads, new, id

(* The buckets of another source stay as they are.                           *)
LEMMA FilingElsewhere ==
    ASSUME NEW seqs \in Seq(Seq(Terminals) \ {<<>>}), NEW buckets \in Seq(InverseBuckets),
           NEW F \in SUBSET Filings,
           NEW s \in Sources, NEW r \in Sources \ {s}, NEW token \in Tokens,
           NEW h \in Seq(Terminals) \ {<<>>},
           HeadsNumbered(seqs, F), BucketsHold(seqs, buckets, r, F)
    PROVE  LET id == PlaceIn(seqs, h)
               heads == IF id > Len(seqs) THEN Append(seqs, h) ELSE seqs
           IN BucketsHold(heads, buckets, r, F \cup {Filing(s, token, h)})
<1> DEFINE id == PlaceIn(seqs, h)
           heads == IF id > Len(seqs) THEN Append(seqs, h) ELSE seqs
<1>1. /\ Len(heads) \in Nat /\ \A i \in 1..Len(seqs) : i \in 1..Len(heads) /\ heads[i] = seqs[i]
  BY HeadInterned DEF HeadsNumbered
<1> HIDE DEF heads
<1>2. Filing(s, token, h).source = s
  BY DEF Filing
<1>3. \A b \in 1..Len(buckets) : /\ buckets[b].sequence \in 1..Len(heads)
                                 /\ heads[buckets[b].sequence] = seqs[buckets[b].sequence]
  BY <1>1 DEF BucketsHold
<1>4. BucketsHold(heads, buckets, r, F \cup {Filing(s, token, h)})
  BY <1>2, <1>3 DEF BucketsHold
<1> QED
  BY <1>4 DEF heads
-----------------------------------------------------------------------------
(* The filings made so far: of every cell that is done the heads in the      *)
(* order of its continuations, of the current cell those before the next.    *)
After(s, token) ==
    IF Cell(s, token).kind = "Continue" THEN singletons[Cell(s, token).state] ELSE <<>>
HeadAt(s, token, k) == Append(Cell(s, token).emitted, After(s, token)[k])
FiledOf(s, token) ==
    LET i == PlaceIn(SourceOrder, s)
        j == PlaceIn(TokenOrder, token)
    IN IF stage # "invert" \/ i < row \/ (i = row /\ j < column) THEN Len(After(s, token))
       ELSE IF i = row /\ j = column /\ inner > 0 THEN inner - 1 ELSE 0
Filed ==
    {f \in Filings : \E k \in 1..FiledOf(f.source, f.token) : f.head = HeadAt(f.source, f.token, k)}

BeforeInvert == BeforeCollect \cup {"collect"}
InvertInv ==
    /\ stage \in BeforeInvert => sequences = <<>> /\ \A s \in Sources : inverse[s] = <<>>
    /\ stage \in Collected =>
         HeadsNumbered(sequences, Filed) /\ \A s \in Sources : BucketsHold(sequences, inverse[s], s, Filed)

(* The heads of a cell, and what they are at the cell that is filed.         *)
LEMMA HeadsAfter ==
    ASSUME TypeInv, CollectInv, stage \in Collected, NEW s \in Sources, NEW token \in Tokens
    PROVE  /\ Cell(s, token) = TokenTable[s][token]
           /\ After(s, token) \in Seq(LexerTerminals) /\ Len(After(s, token)) \in Nat
           /\ IsInjective(After(s, token))
           /\ \A h : h \in HeadsOf(s, token) <=> \E k \in 1..Len(After(s, token)) : h = HeadAt(s, token, k)
           /\ \A k \in 1..Len(After(s, token)) : HeadAt(s, token, k) \in Seq(Terminals) \ {<<>>}
           /\ \A k, m \in 1..Len(After(s, token)) : HeadAt(s, token, k) = HeadAt(s, token, m) => k = m
<1> DEFINE cell == Cell(s, token)
           after == After(s, token)
<1>1. cell = Execute(s, token) /\ cell \in Executions
  <2>1. PICK i \in 1..Len(SourceOrder) : SourceOrder[i] = s
    BY Listed
  <2>2. PlaceIn(TokenOrder, token) \in 1..Len(TokenOrder) /\ TokenOrder[PlaceIn(TokenOrder, token)] = token
    BY Orders, OrderPlaces
  <2>3. RowFilled(i) /\ stage \in AfterTable
    BY DEF TypeInv, TableFilled, Collected, AfterTable
  <2>4. cell = Execute(s, token)
    BY <2>1, <2>2, <2>3 DEF RowFilled, Cell
  <2> QED
    BY <2>4, ExecutionType
<1>2. cell = TokenTable[s][token]
  BY <1>1 DEF TokenTable
<1> HIDE DEF cell
<1>3. CASE cell.kind # "Continue"
  <2>1. after = <<>> /\ HeadsOf(s, token) = {}
    BY <1>2, <1>3 DEF After, HeadsOf, Heads, cell
  <2> QED
    BY <1>2, <2>1 DEF IsInjective, cell
<1>4. CASE cell.kind = "Continue"
  <2>1. cell.state \in Sources /\ cell.emitted \in Seq(LexerTerminals)
    BY <1>1, <1>4 DEF Executions
  <2>2. after = singletons[cell.state] /\ after \in Seq(LexerTerminals)
    BY <1>4, <2>1 DEF After, cell, TypeInv, TypeOK
  <2>3. Range(after) = Singletons[cell.state] /\ InOrder(after, TerminalOrder)
    BY <2>1, <2>2, CollectedAreExact
  <2>4. LexerTerminals \subseteq Terminals
    BY PreparedAssumption
  <2>5. after \in Seq(Terminals) /\ cell.emitted \in Seq(Terminals)
    BY <2>1, <2>2, <2>4
  <2>6. IsInjective(after)
    BY <2>3, <2>5, Orders, InOrderOnce
  <2>7. HeadsOf(s, token) = {Append(cell.emitted, t) : t \in Singletons[cell.state]}
    BY <1>2, <1>4 DEF HeadsOf, Heads
  <2>8. \A k : HeadAt(s, token, k) = Append(cell.emitted, after[k])
    BY DEF HeadAt, cell
  <2>9. /\ DOMAIN after = 1..Len(after) /\ Len(after) \in Nat
        /\ \A k \in 1..Len(after) : after[k] \in Terminals
    BY <2>5
  <2> HIDE DEF after
  <2>10. \A h : h \in HeadsOf(s, token) <=> \E k \in 1..Len(after) : h = HeadAt(s, token, k)
    BY <2>3, <2>7, <2>8, <2>9 DEF Range
  <2>11. ASSUME NEW k \in 1..Len(after) PROVE HeadAt(s, token, k) \in Seq(Terminals) \ {<<>>}
    <3>1. after[k] \in Terminals /\ cell.emitted \in Seq(Terminals)
      BY <2>5, <2>9
    <3>2. Append(cell.emitted, after[k]) \in Seq(Terminals) \ {<<>>}
      BY <3>1, Grown
    <3> QED
      BY <2>8, <3>2
  <2>12. ASSUME NEW k \in 1..Len(after), NEW m \in 1..Len(after), HeadAt(s, token, k) = HeadAt(s, token, m)
         PROVE  k = m
    <3>1. /\ Append(cell.emitted, after[k])[Len(cell.emitted) + 1] = after[k]
          /\ Append(cell.emitted, after[m])[Len(cell.emitted) + 1] = after[m]
      BY <2>5, <2>9, Grown
    <3>2. after[k] = after[m]
      BY <2>8, <2>12, <3>1
    <3> QED
      BY <2>6, <2>9, <3>2 DEF IsInjective
  <2> QED
    BY <1>2, <2>2, <2>6, <2>9, <2>10, <2>11, <2>12 DEF after, cell
<1> QED
  BY <1>3, <1>4

(* When every cell is done, all heads of all tokens are filed.               *)
LEMMA FiledAll ==
    ASSUME TypeInv, CollectInv, stage \in Collected \ {"invert"}
    PROVE  /\ Filed \in SUBSET Filings
           /\ \A s \in Sources, token \in Tokens : \A h :
                Filing(s, token, h) \in Filed <=> h \in HeadsOf(s, token)
<1> SUFFICES ASSUME NEW s \in Sources, NEW token \in Tokens, NEW h
             PROVE  Filing(s, token, h) \in Filed <=> h \in HeadsOf(s, token)
  BY DEF Filed
<1>1. /\ Filing(s, token, h).head = h /\ Filing(s, token, h).source = s
      /\ Filing(s, token, h).token = token
  BY DEF Filing
<1>2. FiledOf(s, token) = Len(After(s, token))
  BY DEF FiledOf
<1>3. /\ h \in HeadsOf(s, token) <=> \E k \in 1..Len(After(s, token)) : h = HeadAt(s, token, k)
      /\ \A k \in 1..Len(After(s, token)) : HeadAt(s, token, k) \in Seq(Terminals) \ {<<>>}
  BY HeadsAfter
<1>4. h \in HeadsOf(s, token) => Filing(s, token, h) \in Filings
  BY <1>3 DEF Filing, Filings
<1> QED
  BY <1>1, <1>2, <1>3, <1>4 DEF Filed
(* The cell that is filed, by its places.                                    *)
LEMMA CellHere ==
    ASSUME TypeInv, stage = "invert"
    PROVE  /\ row \in 1..Len(SourceOrder) /\ column \in 1..Len(TokenOrder)
           /\ Source \in Sources /\ Token \in Tokens
           /\ PlaceIn(SourceOrder, Source) = row /\ PlaceIn(TokenOrder, Token) = column
           /\ \A s \in Sources : PlaceIn(SourceOrder, s) = row => s = Source
           /\ \A token \in Tokens : PlaceIn(TokenOrder, token) = column => token = Token
           /\ Cell(Source, Token) = Execution /\ After(Source, Token) = Continuations
           /\ \A k : HeadAt(Source, Token, k) = Append(Execution.emitted, Continuations[k])
<1>1. row \in 1..Len(SourceOrder) /\ column \in 1..Len(TokenOrder)
  BY DEF TypeInv, Position
<1>2. Source \in Sources /\ Token \in Tokens
  BY <1>1, SourceHere, TokenHere
<1>3. PlaceIn(SourceOrder, Source) = row /\ PlaceIn(TokenOrder, Token) = column
  BY <1>1, Orders, OrderPlaces DEF Source, Token
<1>4. /\ \A s \in Sources : PlaceIn(SourceOrder, s) = row => s = Source
      /\ \A token \in Tokens : PlaceIn(TokenOrder, token) = column => token = Token
  BY Orders, OrderPlaces DEF Source, Token
<1>5. Cell(Source, Token) = Execution
  BY <1>3 DEF Cell, Execution
<1>6. After(Source, Token) = Continuations
  BY <1>5 DEF After, Continuations
<1>7. \A k : HeadAt(Source, Token, k) = Append(Execution.emitted, Continuations[k])
  BY <1>5, <1>6 DEF HeadAt
<1> QED
  BY <1>1, <1>2, <1>3, <1>4, <1>5, <1>6, <1>7

LEMMA FiledMoves ==
    ASSUME TypeInv, stage = "invert", NextContinuation, UNCHANGED <<table, singletons>>,
           inner \in 0..Len(Continuations),
           NEW s \in Sources, NEW token \in Tokens
    PROVE  /\ FiledOf(s, token)' = IF s = Source /\ token = Token THEN inner ELSE FiledOf(s, token)
           /\ FiledOf(Source, Token) = IF inner > 0 THEN inner - 1 ELSE 0
           /\ FiledOf(s, token) \in Nat /\ inner \in Nat
           /\ \A k : HeadAt(s, token, k)' = HeadAt(s, token, k)
<1> DEFINE i == PlaceIn(SourceOrder, s)
           j == PlaceIn(TokenOrder, token)
           rows == Len(SourceOrder)
           columns == Len(TokenOrder)
           all == Len(After(s, token))
<1>1. /\ i \in 1..rows /\ j \in 1..columns /\ rows \in Nat /\ columns \in Nat
      /\ row \in 1..rows /\ column \in 1..columns
      /\ (i = row /\ j = column) <=> (s = Source /\ token = Token)
  <2>1. i \in 1..rows /\ j \in 1..columns /\ rows \in Nat /\ columns \in Nat
    BY Orders, OrderPlaces
  <2> HIDE DEF rows, columns
  <2> QED
    BY <2>1, CellHere DEF rows, columns
<1>2. Cell(s, token)' = Cell(s, token)
  BY DEF Cell
<1>3. After(s, token)' = After(s, token)
  BY <1>2 DEF After
<1>4. \A k : HeadAt(s, token, k)' = HeadAt(s, token, k)
  BY <1>2, <1>3 DEF HeadAt
<1>5. (s = Source /\ token = Token) => all = Len(Continuations)
  BY CellHere
<1>6. /\ FiledOf(s, token) = IF i < row \/ (i = row /\ j < column) THEN all
                             ELSE IF i = row /\ j = column /\ inner > 0 THEN inner - 1 ELSE 0
      /\ FiledOf(s, token)' = IF stage' # "invert" \/ i < row' \/ (i = row' /\ j < column') THEN all
                              ELSE IF i = row' /\ j = column' /\ inner' > 0 THEN inner' - 1 ELSE 0
  BY <1>3 DEF FiledOf
<1>7. FiledOf(Source, Token) = IF inner > 0 THEN inner - 1 ELSE 0
  BY <1>1, CellHere DEF FiledOf
<1>8. all \in Nat /\ Len(Continuations) \in Nat /\ inner \in Nat
  <2>1. TypeInv => Len(Continuations) \in Nat
    BY ExecutionHere
  <2>2. Cell(s, token) = Execute(s, token) /\ Execute(s, token) \in Executions
    <3>1. PICK k \in 1..Len(SourceOrder) : SourceOrder[k] = s
      BY Listed
    <3>2. j \in 1..Len(TokenOrder) /\ TokenOrder[j] = token
      BY Orders, OrderPlaces
    <3>3. RowFilled(k)
      BY DEF TypeInv, TableFilled
    <3> QED
      BY <3>1, <3>2, <3>3, ExecutionType DEF RowFilled, Cell, AfterTable
  <2>3. Cell(s, token).kind = "Continue" => Cell(s, token).state \in Sources
    BY <2>2 DEF Executions
  <2>4. After(s, token) \in Seq(LexerTerminals)
    BY <2>3 DEF After, TypeInv, TypeOK
  <2> QED
    BY <2>1, <2>4
<1> HIDE DEF i, j, all, rows, columns
<1>9. FiledOf(s, token)' = IF i = row /\ j = column THEN inner ELSE FiledOf(s, token)
  <2>1. CASE inner < Len(Continuations)
    <3>1. inner' = inner + 1 /\ UNCHANGED <<stage, row, column>>
      BY <2>1 DEF NextContinuation
    <3> QED
      BY <1>1, <1>6, <1>8, <3>1
  <2>2. CASE ~(inner < Len(Continuations))
    <3>1. NextCell(rows, columns, "prepare_parser") /\ inner = Len(Continuations)
      BY <1>8, <2>2 DEF NextContinuation, rows, columns
    <3>2. i = row /\ j = column => all = inner
      BY <1>1, <1>5, <3>1
    <3>3. /\ stage' = IF row = rows /\ column = columns THEN "prepare_parser" ELSE "invert"
          /\ row' = IF column < columns THEN row ELSE IF row < rows THEN row + 1 ELSE 1
          /\ column' = IF column < columns THEN column + 1 ELSE 1
          /\ inner' = 0
      BY <3>1 DEF NextCell
    <3>4. CASE row = rows /\ column = columns
      BY <1>1, <1>6, <3>2, <3>3, <3>4
    <3>5. CASE ~(row = rows /\ column = columns)
      BY <1>1, <1>6, <3>2, <3>3, <3>5
    <3> QED
      BY <3>4, <3>5
  <2> QED
    BY <2>1, <2>2
<1>10. FiledOf(s, token) \in Nat
  BY <1>6, <1>8
<1> QED
  BY <1>1, <1>4, <1>7, <1>8, <1>9, <1>10
LEMMA InvertBegins ==
    ASSUME TypeInv, InvertInv, CollectSingleton, ~Failing
    PROVE  InvertInv'
<1>1. /\ stage = "collect" /\ UNCHANGED <<sequences, inverse>>
      /\ NextCell(Len(SourceOrder), Len(TerminalOrder), "invert")
  BY DEF CollectSingleton, Refuse, Fails, Failing, inverted
<1>2. sequences = <<>> /\ \A s \in Sources : inverse[s] = <<>>
  BY <1>1 DEF InvertInv, BeforeInvert
<1>3. /\ inner' = 0
      /\ (stage' = "collect" \/ (stage' = "invert" /\ row' = 1 /\ column' = 1))
  BY <1>1, Orders, CellDone DEF TypeInv, Position
<1>4. CASE stage' = "collect"
  BY <1>1, <1>2, <1>4 DEF InvertInv, BeforeInvert, Collected
<1>5. CASE stage' = "invert" /\ row' = 1 /\ column' = 1
  <2>1. ASSUME NEW s \in Sources, NEW token \in Tokens PROVE FiledOf(s, token)' = 0
    <3>1. /\ PlaceIn(SourceOrder, s) \in 1..Len(SourceOrder)
          /\ PlaceIn(TokenOrder, token) \in 1..Len(TokenOrder)
      BY Orders, OrderPlaces
    <3> QED
      BY <1>3, <1>5, <3>1, Orders DEF FiledOf
  <2>2. Filed' = {}
    BY <2>1 DEF Filed, Filings
  <2>3. HeadsNumbered(<<>>, {}) /\ \A s \in Sources : BucketsHold(<<>>, <<>>, s, {})
    BY DEF HeadsNumbered, BucketsHold, IsInjective
  <2>4. sequences' = <<>> /\ \A s \in Sources : inverse'[s] = <<>>
    BY <1>1, <1>2
  <2>5. HeadsNumbered(sequences', Filed') /\ \A s \in Sources : BucketsHold(sequences', inverse'[s], s, Filed')
    BY <2>2, <2>3, <2>4
  <2> QED
    BY <1>5, <2>5 DEF InvertInv, BeforeInvert, BeforeCollect
<1> QED
  BY <1>3, <1>4, <1>5

(* Charging a token files nothing.                                           *)
LEMMA InvertBeginsToken ==
    ASSUME TypeInv, InvertInv, BeginToken, ~Failing, stage' \in {"invert", "prepare_parser"}
    PROVE  InvertInv'
<1>1. /\ stage = "invert" /\ inner = 0 /\ NextContinuation
      /\ UNCHANGED <<table, singletons, sequences, inverse>>
  BY DEF BeginToken, Spend, Refuse, Fails, Failing, built
<1>2. Len(Continuations) \in Nat
  BY <1>1, ExecutionHere
<1>3. ASSUME NEW s \in Sources, NEW token \in Tokens
      PROVE  /\ FiledOf(s, token)' = FiledOf(s, token)
             /\ \A k : HeadAt(s, token, k)' = HeadAt(s, token, k)
  <2>1. inner \in 0..Len(Continuations)
    BY <1>1, <1>2
  <2>2. /\ FiledOf(s, token)' = IF s = Source /\ token = Token THEN inner ELSE FiledOf(s, token)
        /\ FiledOf(Source, Token) = IF inner > 0 THEN inner - 1 ELSE 0
        /\ \A k : HeadAt(s, token, k)' = HeadAt(s, token, k)
    BY <1>1, <2>1, FiledMoves
  <2> QED
    BY <1>1, <2>2
<1>4. Filed' = Filed
  BY <1>3 DEF Filed, Filings
<1>5. HeadsNumbered(sequences, Filed) /\ \A s \in Sources : BucketsHold(sequences, inverse[s], s, Filed)
  BY <1>1 DEF InvertInv, Collected
<1>6. HeadsNumbered(sequences', Filed') /\ \A s \in Sources : BucketsHold(sequences', inverse'[s], s, Filed')
  BY <1>1, <1>4, <1>5
<1> QED
  BY <1>6 DEF InvertInv, BeforeInvert, BeforeCollect

(* The filings after a head is appended.                                     *)
LEMMA FiledNext ==
    ASSUME TypeInv, CollectInv, AppendContinuation, ~Failing
    PROVE  /\ Filed' = Filed \cup {Filing(Source, Token, NextHead)}
           /\ \A y \in Tokens : Filing(Source, y, NextHead) \in Filed =>
                PlaceIn(TokenOrder, y) < PlaceIn(TokenOrder, Token)
<1>1. /\ stage = "invert" /\ inner > 0 /\ NextContinuation
      /\ UNCHANGED <<table, singletons>>
  BY AppendsHead DEF built
<1>2. /\ inner \in 1..Len(Continuations) /\ NextHead \in Seq(Terminals) \ {<<>>}
      /\ NextHead = Append(Execution.emitted, Continuations[inner])
  BY <1>1, HeadHere
<1>3. /\ Source \in Sources /\ Token \in Tokens /\ NextHead = HeadAt(Source, Token, inner)
      /\ PlaceIn(SourceOrder, Source) = row /\ PlaceIn(TokenOrder, Token) = column
      /\ \A token \in Tokens : PlaceIn(TokenOrder, token) = column => token = Token
      /\ After(Source, Token) = Continuations
      /\ row \in Nat /\ column \in Nat
  BY <1>1, <1>2, CellHere DEF TypeInv, TypeOK
<1>4. inner \in 0..Len(Continuations) /\ Len(Continuations) \in Nat
  BY <1>1, <1>2, ExecutionHere
<1>5. ASSUME NEW s \in Sources, NEW token \in Tokens
      PROVE  /\ FiledOf(s, token)' = IF s = Source /\ token = Token THEN inner ELSE FiledOf(s, token)
             /\ FiledOf(Source, Token) = inner - 1 /\ FiledOf(s, token) \in Nat
             /\ \A k : HeadAt(s, token, k)' = HeadAt(s, token, k)
  <2>1. /\ FiledOf(s, token)' = IF s = Source /\ token = Token THEN inner ELSE FiledOf(s, token)
        /\ FiledOf(Source, Token) = IF inner > 0 THEN inner - 1 ELSE 0
        /\ FiledOf(s, token) \in Nat
        /\ \A k : HeadAt(s, token, k)' = HeadAt(s, token, k)
    BY <1>1, <1>4, FiledMoves
  <2> QED
    BY <1>1, <2>1
<1>6. Filing(Source, Token, NextHead) \in Filings
  BY <1>2, <1>3 DEF Filing, Filings
<1>7. ASSUME NEW f \in Filings
      PROVE  f \in Filed' <=> f \in Filed \/ f = Filing(Source, Token, NextHead)
  <2>1. /\ f.source \in Sources /\ f.token \in Tokens
        /\ f = Filing(f.source, f.token, f.head)
    BY DEF Filings, Filing
  <2>2. f \in Filed' <=> \E k \in 1..FiledOf(f.source, f.token)' : f.head = HeadAt(f.source, f.token, k)'
    BY DEF Filed
  <2>3. f \in Filed <=> \E k \in 1..FiledOf(f.source, f.token) : f.head = HeadAt(f.source, f.token, k)
    BY DEF Filed
  <2>4. CASE f.source = Source /\ f.token = Token
    <3>1. FiledOf(f.source, f.token)' = inner /\ FiledOf(f.source, f.token) = inner - 1
      BY <1>5, <2>1, <2>4
    <3>2. 1..inner = 1..(inner - 1) \cup {inner}
      BY <1>2, <1>4
    <3>3. f.head = HeadAt(f.source, f.token, inner) <=> f = Filing(Source, Token, NextHead)
      BY <1>3, <2>1, <2>4 DEF Filing
    <3>4. \A k : HeadAt(f.source, f.token, k)' = HeadAt(f.source, f.token, k)
      BY <1>5, <2>1
    <3> QED
      BY <2>2, <2>3, <3>1, <3>2, <3>3, <3>4
  <2>5. CASE ~(f.source = Source /\ f.token = Token)
    <3>1. FiledOf(f.source, f.token)' = FiledOf(f.source, f.token)
      BY <1>5, <2>1, <2>5
    <3>2. f # Filing(Source, Token, NextHead)
      BY <2>5 DEF Filing
    <3>3. \A k : HeadAt(f.source, f.token, k)' = HeadAt(f.source, f.token, k)
      BY <1>5, <2>1
    <3> QED
      BY <2>2, <2>3, <3>1, <3>2, <3>3
  <2> QED
    BY <2>4, <2>5
<1>8. Filed' \subseteq Filings /\ Filed \subseteq Filings
  BY DEF Filed
<1>9. ASSUME NEW y \in Tokens, Filing(Source, y, NextHead) \in Filed
      PROVE  PlaceIn(TokenOrder, y) < PlaceIn(TokenOrder, Token)
  <2>1. PICK k \in 1..FiledOf(Source, y) : NextHead = HeadAt(Source, y, k)
    BY <1>9 DEF Filed, Filing
  <2>2. FiledOf(Source, y) \in Nat /\ FiledOf(Source, y) # 0
    BY <1>3, <1>5, <2>1
  <2>3. PlaceIn(TokenOrder, y) \in Nat
    BY Orders, OrderPlaces
  <2>4. PlaceIn(TokenOrder, y) <= column
    BY <1>1, <1>3, <2>2, <2>3 DEF FiledOf
  <2>5. y # Token
    <3>1. SUFFICES ASSUME y = Token PROVE FALSE
      OBVIOUS
    <3>2. k \in 1..inner - 1 /\ HeadAt(Source, Token, k) = HeadAt(Source, Token, inner)
      BY <1>3, <1>5, <2>1, <3>1
    <3>3. k \in 1..Len(After(Source, Token)) /\ inner \in 1..Len(After(Source, Token)) /\ k # inner
      BY <1>2, <1>3, <1>4, <3>2
    <3>4. stage \in Collected
      BY <1>1 DEF Collected
    <3> QED
      BY <1>3, <3>2, <3>3, <3>4, HeadsAfter
  <2> QED
    BY <1>3, <2>3, <2>4, <2>5
<1> QED
  BY <1>6, <1>7, <1>8, <1>9
LEMMA InvertAppends ==
    ASSUME TypeInv, CollectInv, InvertInv, AppendContinuation, ~Failing,
           stage' \in {"invert", "prepare_parser"}
    PROVE  InvertInv'
<1> DEFINE new == IF HeadId > Len(sequences) THEN Append(sequences, NextHead) ELSE sequences
           F == Filed \cup {Filing(Source, Token, NextHead)}
<1>1. /\ stage = "invert" /\ inner > 0 /\ sequences' = new
      /\ inverse' = [inverse EXCEPT ![Source] = WithMember(inverse[Source], HeadId, Token)]
  BY AppendsHead
<1>2. NextHead \in Seq(Terminals) \ {<<>>} /\ HeadId = PlaceIn(sequences, NextHead)
  BY <1>1, HeadHere DEF HeadId, Interned
<1>3. Source \in Sources /\ Token \in Tokens
  BY <1>1, CellHere
<1>4. /\ HeadsNumbered(sequences, Filed) /\ \A s \in Sources : BucketsHold(sequences, inverse[s], s, Filed)
  BY <1>1 DEF InvertInv, Collected
<1>5. /\ sequences \in Seq(Seq(Terminals) \ {<<>>}) /\ Filed \in SUBSET Filings
      /\ inverse \in [Sources -> Seq(InverseBuckets)]
      /\ \A s \in Sources : inverse[s] \in Seq(InverseBuckets)
  BY DEF TypeInv, TypeOK, Filed
<1>6. /\ Filed' = F
      /\ \A y \in Tokens : Filing(Source, y, NextHead) \in Filed =>
           PlaceIn(TokenOrder, y) < PlaceIn(TokenOrder, Token)
  BY FiledNext
<1>7. /\ HeadsNumbered(new, F)
      /\ BucketsHold(new, WithMember(inverse[Source], HeadId, Token), Source, F)
  BY <1>2, <1>3, <1>4, <1>5, <1>6, FilingMade
<1>8. ASSUME NEW r \in Sources \ {Source} PROVE BucketsHold(new, inverse[r], r, F)
  BY <1>2, <1>3, <1>4, <1>5, FilingElsewhere
<1> HIDE DEF new, F
<1>9. ASSUME NEW s \in Sources PROVE BucketsHold(new, inverse'[s], s, F)
  <2>1. CASE s = Source
    <3>1. inverse'[s] = WithMember(inverse[Source], HeadId, Token)
      BY <1>1, <1>3, <1>5, <2>1
    <3> QED
      BY <1>7, <2>1, <3>1
  <2>2. CASE s # Source
    <3>1. inverse'[s] = inverse[s]
      BY <1>1, <1>5, <2>2
    <3> QED
      BY <1>8, <2>2, <3>1
  <2> QED
    BY <2>1, <2>2
<1>10. HeadsNumbered(sequences', Filed') /\ \A s \in Sources : BucketsHold(sequences', inverse'[s], s, Filed')
  BY <1>1, <1>6, <1>7, <1>9
<1> QED
  BY <1>10 DEF InvertInv, BeforeInvert, BeforeCollect

LEMMA InvertKept ==
    ASSUME InvertInv, UNCHANGED <<sequences, inverse>>,
           \/ stage' = "failed"
           \/ stage \in BeforeInvert /\ stage' \in BeforeInvert
           \/ UNCHANGED <<table, singletons>> /\
                \/ stage \in Collected \ {"invert"} /\ stage' \in Collected \ {"invert"}
                \/ UNCHANGED loop
    PROVE  InvertInv'
<1> USE DEF BeforeInvert, BeforeCollect, Collected
<1>1. CASE stage' = "failed"
  BY <1>1 DEF InvertInv
<1>2. CASE stage \in BeforeInvert /\ stage' \in BeforeInvert
  BY <1>2 DEF InvertInv
<1>3. ASSUME UNCHANGED <<table, singletons>>,
             \/ stage \in Collected \ {"invert"} /\ stage' \in Collected \ {"invert"}
             \/ UNCHANGED loop
      PROVE  InvertInv'
  <2>1. ASSUME NEW s \in Sources, NEW token \in Tokens
        PROVE  /\ FiledOf(s, token)' = FiledOf(s, token)
               /\ \A k : HeadAt(s, token, k)' = HeadAt(s, token, k)
    <3>1. Cell(s, token)' = Cell(s, token)
      BY <1>3 DEF Cell
    <3>2. After(s, token)' = After(s, token)
      BY <1>3, <3>1 DEF After
    <3> QED
      BY <1>3, <3>1, <3>2 DEF FiledOf, HeadAt, loop
  <2>2. Filed' = Filed
    BY <2>1 DEF Filed, Filings
  <2>3. \/ stage' \in Collected /\ stage \in Collected
        \/ UNCHANGED stage
    BY <1>3 DEF loop
  <2> QED
    BY <2>2, <2>3 DEF InvertInv
<1> QED
  BY <1>1, <1>2, <1>3

LEMMA InvertStep ==
    ASSUME TypeInv, Within, CollectInv, InvertInv, [Next]_vars
    PROVE  InvertInv'
<1>1. CASE UNCHANGED vars
  BY <1>1, InvertKept DEF vars, built, inverted
<1>2. CASE Failing
  BY <1>2, InvertKept DEF Failing, inverted
<1>3. ASSUME NEW charges, NEW items, ~Failing PROVE ~Refuse(charges, items)
  BY <1>3 DEF Refuse, Fails, Failing
<1>4. CASE ~Failing /\ (BeginTable \/ AppendTokenCell \/ BeginScan \/ ScanByte)
  <2>1. UNCHANGED inverted
    BY <1>3, <1>4, Zenon DEF BeginTable, AppendTokenCell, BeginScan, ScanByte
  <2> QED
    BY <1>4, <2>1, StageMoves, InvertKept DEF BeforeInvert, BeforeCollect, inverted
<1>5. CASE ~Failing /\ (BeginFact \/ PropagatePredecessor \/ EndPropagation)
  <2>1. UNCHANGED inverted
    BY <1>3, <1>5, Zenon DEF BeginFact, PropagatePredecessor, EndPropagation
  <2> QED
    BY <1>5, <2>1, StageMoves, InvertKept DEF BeforeInvert, BeforeCollect, inverted
<1>6. CASE ~Failing /\ CollectSingleton
  BY <1>6, InvertBegins
<1>7. CASE ~Failing /\ BeginToken
  BY <1>7, StageMoves, InvertBeginsToken
<1>8. CASE ~Failing /\ AppendContinuation
  BY <1>8, StageMoves, InvertAppends
<1>9. CASE ~Failing /\ (BeginClassify \/ ClassifyHead)
  <2>1. UNCHANGED <<built, singletons, inverted>>
    BY <1>3, <1>9, Zenon DEF BeginClassify, ClassifyHead, Fails, Failing
  <2>2. stage \in Collected \ {"invert"} /\ stage' \in Collected \ {"invert"}
    BY <1>9, StageMoves DEF Collected
  <2> QED
    BY <2>1, <2>2, InvertKept DEF built, inverted
<1> QED
  BY <1>1, <1>2, <1>4, <1>5, <1>6, <1>7, <1>8, <1>9 DEF Next

LEMMA InvertInit ==
    ASSUME Init
    PROVE  InvertInv
  BY DEF Init, InvertInv, BeforeInvert, BeforeCollect, Collected
(* When the buckets are built, they and the heads are those a matcher takes  *)
(* them to be.                                                               *)
LEMMA InverseBuilt ==
    ASSUME TypeInv, CollectInv, InvertInv, stage \in Collected \ {"invert"}
    PROVE  /\ IsInjective(sequences) /\ Range(sequences) = SequenceHeads
           /\ \A s \in Sources : InverseIsExact(s)
<1>1. /\ Filed \in SUBSET Filings
      /\ \A s \in Sources, token \in Tokens : \A h :
           Filing(s, token, h) \in Filed <=> h \in HeadsOf(s, token)
  BY FiledAll
<1>2. HeadsNumbered(sequences, Filed) /\ \A s \in Sources : BucketsHold(sequences, inverse[s], s, Filed)
  BY DEF InvertInv
<1>3. /\ sequences \in Seq(Seq(Terminals) \ {<<>>}) /\ DOMAIN sequences = 1..Len(sequences)
      /\ \A s \in Sources : inverse[s] \in Seq(InverseBuckets)
  BY DEF TypeInv, TypeOK
<1>4. ASSUME NEW f \in Filed
      PROVE  f.source \in Sources /\ f.token \in Tokens /\ f.head \in HeadsOf(f.source, f.token)
  <2>1. f.source \in Sources /\ f.token \in Tokens /\ f = Filing(f.source, f.token, f.head)
    BY <1>1 DEF Filings, Filing
  <2> QED
    BY <1>1, <2>1
<1>5. ASSUME NEW s \in Sources, NEW token \in Tokens, NEW h \in HeadsOf(s, token)
      PROVE  \E b \in 1..Len(inverse[s]) : /\ sequences[inverse[s][b].sequence] = h
                                           /\ token \in Range(inverse[s][b].tokens)
  <2>1. Filing(s, token, h) \in Filed
    BY <1>1
  <2> QED
    BY <1>2, <2>1 DEF BucketsHold, Filing
<1>6. ASSUME NEW s \in Sources, NEW b \in 1..Len(inverse[s]), NEW token \in Range(inverse[s][b].tokens)
      PROVE  token \in Tokens /\ sequences[inverse[s][b].sequence] \in HeadsOf(s, token)
  <2>1. Filing(s, token, sequences[inverse[s][b].sequence]) \in Filed
    BY <1>2 DEF BucketsHold
  <2>2. token \in Tokens
    BY <1>1, <2>1 DEF Filings, Filing
  <2> QED
    BY <1>1, <2>1, <2>2
<1>7. ASSUME NEW s \in Sources, NEW b \in 1..Len(inverse[s])
      PROVE  /\ inverse[s][b].sequence \in 1..Len(sequences)
             /\ \E token \in Tokens : token \in Range(inverse[s][b].tokens)
  <2>1. inverse[s][b] \in InverseBuckets
    BY <1>3
  <2>2. inverse[s][b].tokens \in Seq(Tokens) \ {<<>>}
    BY <2>1 DEF InverseBuckets
  <2>3. inverse[s][b].tokens[1] \in Tokens /\ inverse[s][b].tokens[1] \in Range(inverse[s][b].tokens)
    BY <2>2 DEF Range
  <2> QED
    BY <1>2, <2>3 DEF BucketsHold
<1>8. \A s \in Sources : DOMAIN Buckets[s] = UNION {HeadsOf(s, token) : token \in Tokens}
  BY DEF Buckets
<1>9. \A s \in Sources : \A h : h \in DOMAIN Buckets[s] <=> \E token \in Tokens : h \in HeadsOf(s, token)
  BY <1>8
<1>10. SequenceHeads \subseteq Range(sequences)
  <2> SUFFICES ASSUME NEW h \in SequenceHeads PROVE h \in Range(sequences)
    OBVIOUS
  <2>1. PICK s \in Sources : h \in DOMAIN Buckets[s]
    BY DEF SequenceHeads
  <2>2. PICK token \in Tokens : h \in HeadsOf(s, token)
    BY <1>9, <2>1
  <2> QED
    BY <1>3, <1>5, <1>7, <2>2 DEF Range
<1>11. Range(sequences) \subseteq SequenceHeads
  <2> SUFFICES ASSUME NEW id \in 1..Len(sequences) PROVE sequences[id] \in SequenceHeads
    BY <1>3 DEF Range
  <2>1. PICK f \in Filed : f.head = sequences[id]
    BY <1>2 DEF HeadsNumbered
  <2> QED
    BY <1>4, <1>9, <2>1 DEF SequenceHeads
<1>12. ASSUME NEW s \in Sources PROVE InverseIsExact(s)
  <2> DEFINE buckets == inverse[s]
             ids == [i \in 1..Len(buckets) |-> buckets[i].sequence]
  <2>1. buckets \in Seq(InverseBuckets) /\ DOMAIN buckets = 1..Len(buckets)
    BY <1>3
  <2>2. IsInjective(ids)
    BY <1>2 DEF BucketsHold, IsInjective
  <2>3. {sequences[bucket.sequence] : bucket \in Range(buckets)} = DOMAIN Buckets[s]
    <3>1. ASSUME NEW bucket \in Range(buckets) PROVE sequences[bucket.sequence] \in DOMAIN Buckets[s]
      <4>1. PICK b \in 1..Len(buckets) : bucket = buckets[b]
        BY <2>1 DEF Range
      <4> QED
        BY <1>6, <1>7, <1>9, <4>1
    <3>2. ASSUME NEW h \in DOMAIN Buckets[s]
          PROVE  \E bucket \in Range(buckets) : sequences[bucket.sequence] = h
      <4>1. PICK token \in Tokens : h \in HeadsOf(s, token)
        BY <1>9
      <4>2. PICK b \in 1..Len(buckets) : sequences[buckets[b].sequence] = h
        BY <1>5, <4>1
      <4> QED
        BY <2>1, <4>2 DEF Range
    <3> HIDE DEF buckets
    <3> QED
      BY <3>1, <3>2
  <2>4. ASSUME NEW bucket \in Range(buckets)
        PROVE  /\ Range(bucket.tokens) = Buckets[s][sequences[bucket.sequence]]
               /\ InOrder(bucket.tokens, TokenOrder)
    <3>1. PICK b \in 1..Len(buckets) : bucket = buckets[b]
      BY <2>1 DEF Range
    <3> DEFINE h == sequences[bucket.sequence]
    <3>2. h \in DOMAIN Buckets[s]
      BY <2>3
    <3>3. Buckets[s][h] = {token \in Tokens : h \in HeadsOf(s, token)}
      BY <3>2 DEF Buckets
    <3>4. \A token \in Range(bucket.tokens) : token \in Tokens /\ h \in HeadsOf(s, token)
      BY <1>6, <3>1
    <3>5. ASSUME NEW token \in Tokens, h \in HeadsOf(s, token) PROVE token \in Range(bucket.tokens)
      <4>1. PICK c \in 1..Len(buckets) : /\ sequences[buckets[c].sequence] = h
                                         /\ token \in Range(buckets[c].tokens)
        BY <1>5, <3>5
      <4>2. buckets[c].sequence \in 1..Len(sequences) /\ buckets[b].sequence \in 1..Len(sequences)
        BY <1>7
      <4>3. buckets[c].sequence = buckets[b].sequence
        BY <1>2, <1>3, <3>1, <4>1, <4>2 DEF HeadsNumbered, IsInjective
      <4>4. c = b
        BY <1>2, <4>3 DEF BucketsHold
      <4> QED
        BY <3>1, <4>1, <4>4
    <3>6. InOrder(bucket.tokens, TokenOrder)
      BY <1>2, <3>1 DEF BucketsHold
    <3> QED
      BY <3>3, <3>4, <3>5, <3>6
  <2> QED
    BY <2>2, <2>3, <2>4 DEF InverseIsExact
<1> QED
  BY <1>2, <1>10, <1>11, <1>12 DEF HeadsNumbered
-----------------------------------------------------------------------------
(* The classification table.                                                 *)

BeforeClassify == BeforeInvert \cup {"invert", "prepare_parser"}
Decided(state, h) == Run(h, BeginSymbolic(state, Unbounded)).decision \in Decisions
ClassRow(i, n) ==
    /\ Len(classes[StateOrder[i]]) = n
    /\ \A j \in 1..n : /\ classes[StateOrder[i]][j] = ClassTable[StateOrder[i]][sequences[j]]
                       /\ Decided(StateOrder[i], sequences[j])
ClassInv ==
    /\ stage \in BeforeClassify => \A state \in ParserStates : classes[state] = <<>>
    /\ stage = "classify" =>
         \A i \in 1..Len(StateOrder) : ClassRow(i, Behind(row, column, Len(sequences), i))
    /\ stage = "done" => \A i \in 1..Len(StateOrder) : ClassRow(i, Len(sequences))

LEMMA StateApart ==
    ASSUME NEW i \in 1..Len(StateOrder), NEW j \in 1..Len(StateOrder)
    PROVE  StateOrder[i] \in ParserStates /\ (StateOrder[i] = StateOrder[j] <=> i = j)
<1>1. /\ StateOrder[i] \in ParserStates /\ PlaceIn(StateOrder, StateOrder[i]) = i
      /\ PlaceIn(StateOrder, StateOrder[j]) = j
  BY Orders, OrderPlaces
<1> QED
  BY <1>1

(* What is appended to the table is what an unbounded run decides.           *)
LEMMA ClassHere ==
    ASSUME TypeInv, Within, CollectInv, InvertInv, ClassifyHead, ~Failing
    PROVE  /\ Classify(HeadRun.decision) = ClassTable[StateOrder[row]][sequences[column]]
           /\ Decided(StateOrder[row], sequences[column])
<1> DEFINE state == StateOrder[row]
           h == sequences[column]
           begin == BeginSymbolic(state, limits.max_work - work)
<1>1. /\ stage = "classify" /\ column \in 1..Len(sequences) /\ state \in ParserStates
      /\ h \in Seq(Terminals) \ {<<>>} /\ limits.max_work - work \in Nat
      /\ HeadRun.decision \in Decisions
  BY ClassifiesHead
<1>2. h \in SequenceHeads
  <2>1. Range(sequences) = SequenceHeads
    BY <1>1, InverseBuilt DEF Collected
  <2>2. DOMAIN sequences = 1..Len(sequences)
    BY DEF TypeInv, TypeOK
  <2> QED
    BY <1>1, <2>1, <2>2 DEF Range
<1>3. begin \in Configurations
  <2>1. <<state>> \in Seq(ParserStates) \ {<<>>} /\ Top(<<state>>) = state
    BY <1>1 DEF Top
  <2> QED
    BY <1>1, <2>1, BeginType
<1>4. Free(begin) = BeginSymbolic(state, Unbounded)
  <2> DEFINE free == BeginSymbolic(state, Unbounded)
  <2>1. free \in Configurations
    <3>1. <<state>> \in Seq(ParserStates) \ {<<>>} /\ Top(<<state>>) = state
      BY <1>1 DEF Top
    <3> QED
      BY <3>1, BeginType
  <2>2. Free(begin) \in Configurations /\ Free(begin).used = 0 /\ Free(begin).maximum = Unbounded
    <3>1. Free(begin).used = 0
      BY <1>3 DEF Free, Configurations
    <3> QED
      BY <1>3, <3>1, FreeType
  <2>3. /\ Free(begin).stack = begin.stack /\ Free(begin).index = begin.index
        /\ Free(begin).previous = begin.previous /\ Free(begin).underflow = begin.underflow
        /\ Free(begin).decision = begin.decision
    BY <1>3, FreeType
  <2>4. /\ begin.stack = free.stack /\ begin.index = free.index /\ begin.previous = free.previous
        /\ begin.underflow = free.underflow /\ begin.decision = free.decision
        /\ free.used = 0 /\ free.maximum = Unbounded
    BY DEF BeginSymbolic, Begin
  <2> HIDE DEF begin, free
  <2>5. ASSUME NEW c \in Configurations, NEW d \in Configurations,
               c.stack = d.stack, c.index = d.index, c.previous = d.previous, c.used = d.used,
               c.maximum = d.maximum, c.underflow = d.underflow, c.decision = d.decision
        PROVE  c = d
    BY <2>5 DEF Configurations
  <2>6. Free(begin) = free
    BY <2>1, <2>2, <2>3, <2>4, <2>5
  <2> QED
    BY <2>6 DEF free
<1>5. HeadRun = Run(h, begin)
  BY DEF HeadRun
<1> HIDE DEF begin, h
<1>6. Run(h, Free(begin)).decision = Run(h, begin).decision
  BY <1>1, <1>3, <1>5, BudgetsDecideNothing
<1>7. ClassTable[state][h] = Classify(Run(h, BeginSymbolic(state, Unbounded)).decision)
  BY <1>1, <1>2 DEF ClassTable
<1>8. Decided(state, h)
  BY <1>1, <1>4, <1>5, <1>6 DEF Decided
<1> QED
  BY <1>4, <1>5, <1>6, <1>7, <1>8 DEF h

LEMMA ClassMore ==
    ASSUME TypeInv, Within, CollectInv, InvertInv, ClassInv, ClassifyHead, ~Failing
    PROVE  ClassInv'
<1> DEFINE n == Len(sequences)
           class == Classify(HeadRun.decision)
<1>1. /\ stage = "classify" /\ row \in 1..Len(StateOrder) /\ column \in 1..n
      /\ class \in Classes
      /\ classes' = [classes EXCEPT ![StateOrder[row]] = Append(@, class)]
      /\ NextCell(Len(StateOrder), n, "done")
      /\ UNCHANGED sequences
  BY ClassifiesHead DEF inverted
<1>2. class = ClassTable[StateOrder[row]][sequences[column]] /\ Decided(StateOrder[row], sequences[column])
  BY ClassHere
<1> HIDE DEF class
<1>3. n \in Nat /\ classes \in [ParserStates -> Seq(Classes)]
  BY DEF TypeInv, TypeOK
<1>4. \A i \in 1..Len(StateOrder) : ClassRow(i, Behind(row, column, n, i))
  BY <1>1 DEF ClassInv
<1>5. ASSUME NEW i \in 1..Len(StateOrder), NEW m,
             m = IF i = row THEN column ELSE Behind(row, column, n, i)
      PROVE  ClassRow(i, m)'
  <2>1. StateOrder[i] \in ParserStates /\ (StateOrder[i] = StateOrder[row] <=> i = row)
    BY <1>1, StateApart
  <2>2. CASE i = row
    <3> DEFINE old == classes[StateOrder[i]]
    <3>1. ClassRow(i, column - 1) /\ m = column
      BY <1>1, <1>3, <1>4, <1>5, <2>2 DEF Behind
    <3>2. old \in Seq(Classes) /\ classes'[StateOrder[i]] = Append(old, class)
      BY <1>1, <1>3, <2>1, <2>2
    <3>3. /\ Len(Append(old, class)) = Len(old) + 1 /\ Append(old, class)[Len(old) + 1] = class
          /\ \A j \in 1..Len(old) : Append(old, class)[j] = old[j]
      BY <1>1, <3>2, Grown
    <3>4. /\ Len(old) = column - 1
          /\ \A j \in 1..column - 1 : /\ old[j] = ClassTable[StateOrder[i]][sequences[j]]
                                      /\ Decided(StateOrder[i], sequences[j])
      BY <3>1 DEF ClassRow
    <3>5. class = ClassTable[StateOrder[i]][sequences[column]] /\ Decided(StateOrder[i], sequences[column])
      BY <1>2, <2>2
    <3> DEFINE new == classes'[StateOrder[i]]
    <3> HIDE DEF old, new
    <3>6. Len(new) = column /\ new[column] = class /\ \A j \in 1..column - 1 : new[j] = old[j]
      <4>1. new = Append(old, class) /\ column \in Nat
        BY <1>1, <1>3, <3>2 DEF new
      <4> QED
        BY <3>3, <3>4, <4>1
    <3>7. \A j \in 1..column : /\ new[j] = ClassTable[StateOrder[i]][sequences[j]]
                               /\ Decided(StateOrder[i], sequences[j])
      BY <1>1, <1>3, <3>4, <3>5, <3>6
    <3> QED
      BY <1>1, <3>1, <3>6, <3>7 DEF ClassRow, new
  <2>3. CASE i # row
    <3>1. classes'[StateOrder[i]] = classes[StateOrder[i]]
      BY <1>1, <1>3, <2>1, <2>3
    <3>2. ClassRow(i, m)
      BY <1>4, <1>5, <2>3
    <3> QED
      BY <1>1, <3>1, <3>2 DEF ClassRow
  <2> QED
    BY <2>2, <2>3
<1>6. \/ /\ stage' = "classify"
         /\ \A i \in 1..Len(StateOrder) : Behind(row', column', n, i)
              = IF i = row THEN column ELSE Behind(row, column, n, i)
      \/ /\ stage' = "done"
         /\ \A i \in 1..Len(StateOrder) : (IF i = row THEN column ELSE Behind(row, column, n, i)) = n
  BY <1>1, <1>3, CellDone, Orders
<1>7. Len(sequences') = n
  BY <1>1
<1> HIDE DEF n
<1> QED
  BY <1>5, <1>6, <1>7 DEF ClassInv, BeforeClassify, BeforeInvert, BeforeCollect

LEMMA ClassBegins ==
    ASSUME TypeInv, ClassInv, BeginClassify, ~Failing
    PROVE  ClassInv'
<1>1. /\ stage = "prepare_parser" /\ row' = 1 /\ column' = 1
      /\ stage' = (IF sequences = <<>> THEN "done" ELSE "classify")
      /\ UNCHANGED <<sequences, classes>>
  BY DEF BeginClassify, Enter, Refuse, Fails, Failing, inverted
<1>2. \A state \in ParserStates : classes[state] = <<>>
  BY <1>1 DEF ClassInv, BeforeClassify
<1>3. ASSUME NEW i \in 1..Len(StateOrder) PROVE ClassRow(i, 0)'
  BY <1>1, <1>2, StateApart DEF ClassRow
<1>4. stage' = "done" => Len(sequences') = 0
  BY <1>1
<1>5. \A i \in 1..Len(StateOrder) : Behind(row', column', Len(sequences'), i) = 0
  BY <1>1, Orders DEF Behind
<1> QED
  BY <1>1, <1>3, <1>4, <1>5 DEF ClassInv, BeforeClassify, BeforeInvert, BeforeCollect

LEMMA ClassKept ==
    ASSUME ClassInv, UNCHANGED classes,
           \/ stage' = "failed"
           \/ stage \in BeforeClassify /\ stage' \in BeforeClassify
           \/ UNCHANGED loop /\ UNCHANGED sequences
    PROVE  ClassInv'
<1>1. CASE stage' = "failed"
  BY <1>1 DEF ClassInv, BeforeClassify, BeforeInvert, BeforeCollect
<1>2. CASE stage \in BeforeClassify /\ stage' \in BeforeClassify
  BY <1>2 DEF ClassInv, BeforeClassify, BeforeInvert, BeforeCollect
<1>3. CASE UNCHANGED loop /\ UNCHANGED sequences
  <2>1. ASSUME NEW i, NEW n, ClassRow(i, n) PROVE ClassRow(i, n)'
    BY <1>3, <2>1 DEF ClassRow
  <2> QED
    BY <1>3, <2>1 DEF ClassInv, loop
<1> QED
  BY <1>1, <1>2, <1>3

LEMMA ClassStep ==
    ASSUME TypeInv, Within, CollectInv, InvertInv, ClassInv, [Next]_vars
    PROVE  ClassInv'
<1> USE DEF BeforeClassify, BeforeInvert, BeforeCollect
<1>1. CASE UNCHANGED vars
  BY <1>1, ClassKept DEF vars, inverted
<1>2. CASE Failing
  BY <1>2, ClassKept DEF Failing
<1>3. ASSUME NEW charges, NEW items, ~Failing PROVE ~Refuse(charges, items)
  BY <1>3 DEF Refuse, Fails, Failing
<1>4. CASE ~Failing /\ (BeginTable \/ AppendTokenCell \/ BeginScan \/ ScanByte)
  <2>1. UNCHANGED classes
    BY <1>3, <1>4, Zenon DEF BeginTable, AppendTokenCell, BeginScan, ScanByte
  <2> QED
    BY <1>4, <2>1, StageMoves, ClassKept
<1>5. CASE ~Failing /\ (BeginFact \/ PropagatePredecessor \/ EndPropagation)
  <2>1. UNCHANGED classes
    BY <1>3, <1>5, Zenon DEF BeginFact, PropagatePredecessor, EndPropagation
  <2> QED
    BY <1>5, <2>1, StageMoves, ClassKept
<1>6. CASE ~Failing /\ (CollectSingleton \/ BeginToken \/ AppendContinuation)
  <2>1. UNCHANGED classes
    BY <1>3, <1>6, Zenon DEF CollectSingleton, BeginToken, AppendContinuation
  <2> QED
    BY <1>6, <2>1, StageMoves, ClassKept
<1>7. CASE ~Failing /\ BeginClassify
  BY <1>7, ClassBegins
<1>8. CASE ~Failing /\ ClassifyHead
  BY <1>8, ClassMore
<1> QED
  BY <1>1, <1>2, <1>4, <1>5, <1>6, <1>7, <1>8 DEF Next

(* What preparation relies on from its first loop to its last.               *)
PrepareInv == TypeInv /\ Within /\ FactsInv /\ CollectInv /\ InvertInv /\ ClassInv

LEMMA PrepareHolds == Spec => []PrepareInv
<1>1. Init => PrepareInv
  <2>1. Init => ClassInv
    BY DEF Init, ClassInv, BeforeClassify, BeforeInvert, BeforeCollect
  <2> QED
    BY <2>1, TypeInit, FactsInit, CollectInit, InvertInit DEF PrepareInv
<1>2. PrepareInv /\ [Next]_vars => PrepareInv'
  BY TypeStep, WithinStep, FactsStep, CollectStep, InvertStep, ClassStep DEF PrepareInv
<1> QED
  BY <1>1, <1>2, PTL DEF Spec

(* A preparation that is done holds the tables a matcher takes it to hold,   *)
(* for every grammar and vocabulary and within any limits (prepare).         *)
THEOREM FinishedTablesAreExact == Spec => []TablesAreExact
<1>1. ASSUME PrepareInv PROVE TablesAreExact
  <2> USE <1>1 DEF PrepareInv
  <2>1. SingletonsAreExact
    BY CollectedAreExact DEF SingletonsAreExact
  <2> SUFFICES ASSUME stage = "done"
               PROVE  /\ \A s \in Sources, token \in Tokens : Cell(s, token) = TokenTable[s][token]
                      /\ IsInjective(sequences) /\ Range(sequences) = SequenceHeads
                      /\ \A s \in Sources : InverseIsExact(s)
                      /\ \A state \in ParserStates :
                           classes[state] = [i \in 1..Len(sequences) |-> ClassTable[state][sequences[i]]]
    BY <2>1 DEF TablesAreExact
  <2>2. stage \in Collected \ {"invert"}
    BY DEF Collected
  <2>3. \A s \in Sources, token \in Tokens : Cell(s, token) = TokenTable[s][token]
    BY <2>2, HeadsAfter
  <2>4. IsInjective(sequences) /\ Range(sequences) = SequenceHeads /\ \A s \in Sources : InverseIsExact(s)
    BY <2>2, InverseBuilt
  <2>5. ASSUME NEW state \in ParserStates
        PROVE  classes[state] = [i \in 1..Len(sequences) |-> ClassTable[state][sequences[i]]]
    <3>1. PICK i \in 1..Len(StateOrder) : StateOrder[i] = state
      BY Listed
    <3>2. ClassRow(i, Len(sequences))
      BY DEF ClassInv
    <3>3. classes[state] \in Seq(Classes)
      BY DEF TypeInv, TypeOK
    <3> QED
      BY <3>1, <3>2, <3>3 DEF ClassRow
  <2> QED
    BY <2>3, <2>4, <2>5
<1>2. PrepareInv => TablesAreExact
  BY <1>1
<1> QED
  BY <1>2, PrepareHolds, PTL

(* And it has classified every parser state and head: what MasksGrant asks   *)
(* of the tables (prepare fails at the first inconsistency it meets).        *)
THEOREM FinishedIsClassified == Spec => [](stage = "done" => Classified)
<1>1. ASSUME PrepareInv, stage = "done" PROVE Classified
  <2> SUFFICES ASSUME NEW state \in ParserStates, NEW h \in SequenceHeads PROVE Decided(state, h)
    BY DEF Classified, Decided
  <2> USE <1>1 DEF PrepareInv
  <2>1. PICK i \in 1..Len(StateOrder) : StateOrder[i] = state
    BY Listed
  <2>2. Range(sequences) = SequenceHeads
    BY InverseBuilt DEF Collected
  <2>3. PICK j \in 1..Len(sequences) : sequences[j] = h
    BY <2>2 DEF Range, TypeInv, TypeOK
  <2>4. ClassRow(i, Len(sequences))
    BY DEF ClassInv
  <2> QED
    BY <2>1, <2>3, <2>4 DEF ClassRow
<1>2. PrepareInv => (stage = "done" => Classified)
  BY <1>1
<1> QED
  BY <1>2, PrepareHolds, PTL
-----------------------------------------------------------------------------
(* Totals.                                                                   *)

(* The partial sums of a sequence of numbers.                                *)
Sums(numbers, f) ==
    /\ f = [n \in 0..Len(numbers) |-> IF n = 0 THEN 0 ELSE f[n - 1] + numbers[n]]
    /\ \A n \in 0..Len(numbers) : f[n] \in Nat
(* The first m of t are those of s, but for the k-th, which is d more.       *)
Raised(s, t, m, k, d) == \A i \in 1..m : t[i] = IF i = k THEN s[i] + d ELSE s[i]

(* The recursive function of Total exists, and sums naturals to a natural.   *)
LEMMA TotalSums ==
    ASSUME NEW numbers \in Seq(Nat)
    PROVE  \E f : Sums(numbers, f) /\ Total(numbers) = f[Len(numbers)]
<1> DEFINE length == Len(numbers)
           Runs(f, n) == f = [k \in 0..n |-> IF k = 0 THEN 0 ELSE f[k - 1] + numbers[k]]
           S == {n \in Nat : \E f : Runs(f, n)}
           sum[n \in 0..length] == IF n = 0 THEN 0 ELSE sum[n - 1] + numbers[n]
<1>1. length \in Nat /\ \A n \in 1..length : numbers[n] \in Nat
  OBVIOUS
<1>2. Total(numbers) = sum[length]
  BY DEF Total
<1> HIDE DEF length
<1>3. Nat \subseteq S
  <2>1. Runs([k \in 0..0 |-> 0], 0)
    OBVIOUS
  <2>2. ASSUME NEW n \in Nat, NEW f, Runs(f, n) PROVE \E g : Runs(g, n + 1)
    <3> DEFINE g == [k \in 0..n + 1 |-> IF k = n + 1 THEN f[n] + numbers[n + 1] ELSE f[k]]
    <3>1. ASSUME NEW k \in 0..n + 1 PROVE g[k] = IF k = 0 THEN 0 ELSE g[k - 1] + numbers[k]
      <4>1. CASE k = 0
        <5>1. g[k] = f[k] /\ k \in 0..n
          BY <2>2, <4>1
        <5> QED
          BY <2>2, <4>1, <5>1
      <4>2. CASE k = n + 1
        <5>1. g[k] = f[n] + numbers[n + 1] /\ g[k - 1] = f[n]
          BY <2>2, <4>2
        <5> QED
          BY <2>2, <4>2, <5>1
      <4>3. CASE k \in 1..n
        <5>1. g[k] = f[k] /\ g[k - 1] = f[k - 1] /\ k \in 0..n /\ k # 0
          BY <2>2, <4>3
        <5>2. f[k] = f[k - 1] + numbers[k]
          BY <2>2, <5>1
        <5> QED
          BY <5>1, <5>2
      <4> QED
        BY <2>2, <4>1, <4>2, <4>3
    <3>2. DOMAIN g = 0..n + 1 /\ g = [k \in 0..n + 1 |-> g[k]]
      OBVIOUS
    <3> HIDE DEF g
    <3>3. Runs(g, n + 1)
      BY <3>1, <3>2
    <3> QED
      BY <3>3
  <2> HIDE DEF Runs
  <2>3. 0 \in S
    BY <2>1
  <2>4. \A n \in Nat : n \in S => n + 1 \in S
    BY <2>2
  <2> HIDE DEF S
  <2> QED
    BY <2>3, <2>4, SetInduction
<1>4. \E f : f = [n \in 0..length |-> IF n = 0 THEN 0 ELSE f[n - 1] + numbers[n]]
  BY <1>1, <1>3
<1>5. sum = [n \in 0..length |-> IF n = 0 THEN 0 ELSE sum[n - 1] + numbers[n]]
  BY <1>4
<1> HIDE DEF sum
<1> DEFINE T == {n \in Nat : n <= length => sum[n] \in Nat}
<1>6. 0 \in T
  BY <1>1, <1>5
<1>7. ASSUME NEW n \in Nat, n \in T PROVE n + 1 \in T
  <2> SUFFICES ASSUME n + 1 <= length PROVE sum[n + 1] \in Nat
    OBVIOUS
  <2>1. sum[n] \in Nat /\ n + 1 \in 1..length
    BY <1>1, <1>7
  <2>2. sum[n + 1] = sum[n] + numbers[n + 1]
    BY <1>1, <1>5, <2>1
  <2> QED
    BY <1>1, <2>1, <2>2
<1> HIDE DEF T
<1>8. Nat \subseteq T
  BY <1>6, <1>7, SetInduction
<1>9. \A n \in 0..length : sum[n] \in Nat
  BY <1>1, <1>8 DEF T
<1> QED
  BY <1>2, <1>5, <1>9 DEF Sums, length

(* Two sequences that differ at one place, up to there and beyond.           *)
LEMMA SumsDiffer ==
    ASSUME NEW s \in Seq(Nat), NEW t \in Seq(Nat), NEW f, NEW g, Sums(s, f), Sums(t, g),
           NEW m \in Nat, m <= Len(s), m <= Len(t), NEW k \in Nat \ {0}, NEW d \in Nat,
           Raised(s, t, m, k, d)
    PROVE  \A n \in 0..m : g[n] = IF n >= k THEN f[n] + d ELSE f[n]
<1> DEFINE T == {n \in Nat : n <= m => g[n] = IF n >= k THEN f[n] + d ELSE f[n]}
<1>1. Len(s) \in Nat /\ Len(t) \in Nat
  OBVIOUS
<1>2. 0 \in T
  BY <1>1 DEF Sums
<1>3. ASSUME NEW n \in Nat, n \in T PROVE n + 1 \in T
  <2> SUFFICES ASSUME n + 1 <= m PROVE g[n + 1] = IF n + 1 >= k THEN f[n + 1] + d ELSE f[n + 1]
    OBVIOUS
  <2>1. g[n] = IF n >= k THEN f[n] + d ELSE f[n]
    BY <1>3
  <2>2. n + 1 \in 0..Len(s) /\ n + 1 \in 0..Len(t) /\ (n + 1) - 1 = n /\ n \in 0..Len(s) /\ n + 1 # 0
    BY <1>1
  <2>3. f[n + 1] = f[n] + s[n + 1]
    BY <2>2 DEF Sums
  <2>4. g[n + 1] = g[n] + t[n + 1]
    BY <2>2 DEF Sums
  <2>5. s[n + 1] \in Nat /\ f[n] \in Nat /\ n + 1 \in 1..m
    <3>1. n + 1 \in 1..m /\ n + 1 \in 1..Len(s)
      BY <1>1
    <3>2. f[n] \in Nat
      BY <2>2 DEF Sums
    <3> QED
      BY <3>1, <3>2
  <2>6. t[n + 1] = IF n + 1 = k THEN s[n + 1] + d ELSE s[n + 1]
    BY <2>5 DEF Raised
  <2> DEFINE a == f[n]
             x == s[n + 1]
  <2>7. a \in Nat /\ x \in Nat /\ f[n + 1] = a + x
    BY <2>3, <2>5
  <2>8. g[n] = (IF n >= k THEN a + d ELSE a) /\ t[n + 1] = (IF n + 1 = k THEN x + d ELSE x)
    BY <2>1, <2>6
  <2> HIDE DEF a, x
  <2>9. CASE n >= k
    <3>1. n + 1 >= k /\ n + 1 # k
      BY <2>9
    <3>2. g[n + 1] = (a + d) + x
      BY <2>4, <2>8, <2>9, <3>1
    <3> QED
      BY <2>7, <3>1, <3>2
  <2>10. CASE n + 1 = k
    BY <2>4, <2>7, <2>8, <2>10
  <2>11. CASE n + 1 < k
    BY <2>4, <2>7, <2>8, <2>11
  <2> QED
    BY <2>9, <2>10, <2>11
<1> HIDE DEF T
<1>4. Nat \subseteq T
  BY <1>2, <1>3, SetInduction
<1> QED
  BY <1>4 DEF T

LEMMA TotalOfNone == Total(<<>>) = 0
<1>0. <<>> \in Seq(Nat) /\ Len(<<>>) = 0
  OBVIOUS
<1>1. PICK f : Sums(<<>>, f) /\ Total(<<>>) = f[0]
  BY <1>0, TotalSums
<1> QED
  BY <1>1 DEF Sums

LEMMA TotalAppended ==
    ASSUME NEW s \in Seq(Nat), NEW x \in Nat
    PROVE  Total(s) \in Nat /\ Total(Append(s, x)) = Total(s) + x
<1> DEFINE t == Append(s, x)
           n == Len(s)
<1>1. /\ t \in Seq(Nat) /\ Len(t) = n + 1 /\ n \in Nat /\ t[n + 1] = x
      /\ \A i \in 1..n : t[i] = s[i]
  BY Grown
<1>2. PICK f : Sums(s, f) /\ Total(s) = f[n]
  BY TotalSums
<1> HIDE DEF t
<1>3. PICK g : Sums(t, g) /\ Total(t) = g[Len(t)]
  BY <1>1, TotalSums
<1>4. Raised(s, t, n, n + 1, 0)
  BY <1>1 DEF Raised
<1>5. n <= Len(t) /\ n + 1 \in Nat \ {0} /\ n <= Len(s)
  BY <1>1
<1> HIDE DEF n
<1>6. f[n] \in Nat
  <2>1. n \in 0..n /\ n = Len(s)
    BY <1>1 DEF n
  <2> QED
    BY <1>2, <2>1 DEF Sums
<1>7. g[n] = f[n]
  <2>1. Sums(s, f) /\ Sums(t, g) /\ t \in Seq(Nat) /\ n \in Nat /\ 0 \in Nat
    BY <1>1, <1>2, <1>3
  <2> DEFINE k == n + 1
  <2>2. k \in Nat \ {0} /\ Raised(s, t, n, k, 0)
    BY <1>4, <1>5
  <2> HIDE DEF k
  <2>3. \A i \in 0..n : g[i] = IF i >= k THEN f[i] + 0 ELSE f[i]
    BY <1>5, <2>1, <2>2, SumsDiffer
  <2>4. n \in 0..n /\ ~(n >= k)
    BY <2>1 DEF k
  <2> QED
    BY <1>6, <2>3, <2>4
<1>8. g[n + 1] = g[n] + t[n + 1]
  <2>1. n + 1 \in 0..Len(t) /\ n + 1 # 0 /\ (n + 1) - 1 = n
    BY <1>1
  <2> QED
    BY <1>3, <2>1 DEF Sums
<1> QED
  BY <1>1, <1>2, <1>3, <1>6, <1>7, <1>8 DEF t, n

LEMMA TotalRaised ==
    ASSUME NEW s \in Seq(Nat), NEW t \in Seq(Nat), Len(t) = Len(s), NEW k \in 1..Len(s), NEW d \in Nat,
           Raised(s, t, Len(s), k, d)
    PROVE  Total(s) \in Nat /\ Total(t) = Total(s) + d
<1> DEFINE n == Len(s)
<1>1. PICK f : Sums(s, f) /\ Total(s) = f[n]
  BY TotalSums
<1>2. PICK g : Sums(t, g) /\ Total(t) = g[n]
  BY TotalSums
<1>3. n \in Nat /\ k \in Nat \ {0} /\ n <= Len(s) /\ n <= Len(t)
  OBVIOUS
<1>4. \A i \in 0..n : g[i] = IF i >= k THEN f[i] + d ELSE f[i]
  <2>1. Sums(s, f) /\ Sums(t, g) /\ Raised(s, t, n, k, d)
    BY <1>1, <1>2
  <2> HIDE DEF n
  <2> QED
    BY <1>3, <2>1, SumsDiffer
<1> HIDE DEF n
<1>5. n >= k /\ n \in 0..n
  BY <1>3 DEF n
<1> QED
  BY <1>1, <1>2, <1>4, <1>5 DEF Sums, n
-----------------------------------------------------------------------------
(* The limits.                                                               *)

(* What only some of the loops build.                                        *)
LEMMA BuiltBy ==
    ASSUME [Next]_vars
    PROVE  /\ UNCHANGED limits
           /\ UNCHANGED built \/ (AppendTokenCell /\ ~Failing)
           /\ UNCHANGED inverted \/ ((BeginToken \/ AppendContinuation) /\ ~Failing)
           /\ UNCHANGED classes \/ (ClassifyHead /\ ~Failing)
           /\ stage = "failed" => UNCHANGED vars
<1>0. ASSUME NEW goesOn, Fails(goesOn) PROVE Failing
  BY <1>0 DEF Fails, Failing
<1>1. CASE UNCHANGED vars
  BY <1>1 DEF vars, built, inverted
<1>2. CASE Failing /\ stage # "failed"
  BY <1>2 DEF Failing
<1>3. CASE BeginTable \/ AppendTokenCell
  <2>1. UNCHANGED <<limits, inverted, classes>> /\ (UNCHANGED built \/ (AppendTokenCell /\ ~Failing))
    BY <1>0, <1>3, Zenon DEF BeginTable, AppendTokenCell, Refuse, Failing
  <2>2. stage # "failed"
    BY <1>3 DEF BeginTable, AppendTokenCell
  <2> QED
    BY <2>1, <2>2
<1>4. CASE BeginScan \/ ScanByte
  <2>1. UNCHANGED <<limits, built, inverted, classes>>
    BY <1>0, <1>4, Zenon DEF BeginScan, ScanByte, Refuse, Failing
  <2>2. stage # "failed"
    BY <1>4 DEF BeginScan, ScanByte
  <2> QED
    BY <2>1, <2>2
<1>5. CASE BeginFact \/ PropagatePredecessor \/ EndPropagation
  <2>1. UNCHANGED <<limits, built, inverted, classes>>
    BY <1>0, <1>5, Zenon DEF BeginFact, PropagatePredecessor, EndPropagation, Refuse, Failing
  <2>2. stage # "failed"
    BY <1>5 DEF BeginFact, PropagatePredecessor, EndPropagation
  <2> QED
    BY <2>1, <2>2
<1>6. CASE CollectSingleton \/ BeginClassify
  <2>1. UNCHANGED <<limits, built, inverted, classes>>
    BY <1>0, <1>6, Zenon DEF CollectSingleton, BeginClassify, Refuse, Failing
  <2>2. stage # "failed"
    BY <1>6 DEF CollectSingleton, BeginClassify
  <2> QED
    BY <2>1, <2>2
<1>7. CASE BeginToken \/ AppendContinuation
  <2>1. UNCHANGED <<limits, built, classes>> /\ (UNCHANGED inverted \/ ~Failing)
    BY <1>0, <1>7, Zenon DEF BeginToken, AppendContinuation, Refuse, Failing
  <2>2. stage # "failed"
    BY <1>7 DEF BeginToken, AppendContinuation
  <2> QED
    BY <1>7, <2>1, <2>2
<1>8. CASE ClassifyHead
  <2>1. UNCHANGED <<limits, built, inverted>> /\ (UNCHANGED classes \/ ~Failing)
    BY <1>0, <1>8, Zenon DEF ClassifyHead, Failing
  <2>2. stage # "failed"
    BY <1>8 DEF ClassifyHead
  <2> QED
    BY <1>8, <2>1, <2>2
<1> QED
  BY <1>1, <1>3, <1>4, <1>5, <1>6, <1>7, <1>8 DEF Next

(* The tables of cells fit the limit, which is checked before their loops.   *)
CellsFit ==
    (stage \notin {"prepare_token_table", "failed"} \/ \E s \in Sources : table[s] # <<>>)
      => Len(SourceOrder) * Len(TokenOrder) <= limits.max_items
ClassesFit ==
    (stage \in {"classify", "done"} \/ \E state \in ParserStates : classes[state] # <<>>)
      => Len(StateOrder) * (Len(sequences) + 1) <= limits.max_items

LEMMA CellsFitStep ==
    ASSUME TypeInv, Within, CellsFit, [Next]_vars
    PROVE  CellsFit'
<1> DEFINE count == Len(SourceOrder) * Len(TokenOrder)
<1>1. UNCHANGED limits
  BY BuiltBy
<1>2. CASE count <= limits.max_items
  <2> HIDE DEF count
  <2>1. count <= limits'.max_items
    BY <1>1, <1>2
  <2> QED
    BY <2>1 DEF CellsFit, count
<1>3. CASE ~(count <= limits.max_items)
  <2>1. stage \in {"prepare_token_table", "failed"} /\ \A s \in Sources : table[s] = <<>>
    BY <1>3 DEF CellsFit
  <2>2. CASE UNCHANGED vars
    BY <1>3, <2>1, <2>2 DEF CellsFit, vars, loop, built
  <2>3. CASE Failing
    BY <1>3, <2>1, <2>3 DEF CellsFit, Failing, built
  <2>4. CASE ~Failing /\ ~UNCHANGED vars
    <3>1. stage = "prepare_token_table" /\ Next
      BY <2>1, <2>4, BuiltBy
    <3>2. BeginTable
      BY <2>4, <3>1, StageMoves DEF Next
    <3>3. Affords(count, {count})
      BY <2>4, <3>2 DEF BeginTable, Spend, Refuse, Fails, Failing
    <3> QED
      BY <1>3, <3>3 DEF Affords
  <2> QED
    BY <2>2, <2>3, <2>4
<1> QED
  BY <1>2, <1>3

LEMMA ClassesFitStep ==
    ASSUME TypeInv, Within, ClassInv, ClassesFit, [Next]_vars
    PROVE  ClassesFit'
<1> DEFINE size == Len(StateOrder) * (Len(sequences) + 1)
<1>1. CASE UNCHANGED vars
  BY <1>1 DEF ClassesFit, vars, loop, inverted
<1>2. CASE Failing
  BY <1>2 DEF ClassesFit, Failing, inverted
<1>3. CASE ~Failing /\ BeginClassify
  <2>1. UNCHANGED <<sequences, limits>>
    BY <1>3 DEF BeginClassify, Refuse, Fails, Failing, inverted
  <2>2. Len(StateOrder) * Len(sequences) + Len(StateOrder) <= limits.max_items
    BY <1>3 DEF BeginClassify, Spend, Affords, Refuse, Fails, Failing
  <2>3. ASSUME NEW a \in Nat, NEW b \in Nat PROVE a * (b + 1) = a * b + a
    OBVIOUS
  <2>4. size <= limits.max_items
    BY <2>2, <2>3, Orders DEF TypeInv, TypeOK
  <2>5. size' = size
    BY <2>1
  <2> HIDE DEF size
  <2>6. size' <= limits'.max_items
    BY <2>1, <2>4, <2>5
  <2> QED
    BY <2>6 DEF ClassesFit, size
<1>4. CASE ~Failing /\ ClassifyHead
  <2>1. stage = "classify" /\ UNCHANGED <<sequences, limits>>
    BY <1>4, ClassifiesHead DEF inverted
  <2> QED
    BY <2>1 DEF ClassesFit
<1>5. CASE Next /\ ~Failing /\ ~BeginClassify /\ ~ClassifyHead
  <2>1. stage \in BeforeClassify /\ stage' \in BeforeClassify
    BY <1>5, StageMoves DEF Next, BeforeClassify, BeforeInvert, BeforeCollect
  <2>2. \A state \in ParserStates : classes'[state] = <<>>
    BY <1>5, <2>1, BuiltBy DEF ClassInv
  <2> QED
    BY <2>1, <2>2 DEF ClassesFit, BeforeClassify, BeforeInvert, BeforeCollect
<1> QED
  BY <1>1, <1>2, <1>3, <1>4, <1>5
(* The counters are what they count, and within the limit.  inverse_members  *)
(* counts the continuations of a token before the first of them is appended. *)
HeadsCounted ==
    Total(Lengths(sequences)) = sequence_items /\ sequence_items <= limits.max_items

MembersOf(s) == Members(inverse[s])
AllMembers == [i \in 1..Len(SourceOrder) |-> MembersOf(SourceOrder[i])]
Ahead == IF stage = "invert" /\ inner > 0 THEN Len(Continuations) - (inner - 1) ELSE 0
MembersCounted ==
    /\ Total(AllMembers) \in Nat /\ Total(AllMembers) + Ahead <= inverse_members
    /\ inverse_members <= limits.max_items

LEMMA LengthsType ==
    ASSUME NEW S, NEW s \in Seq(Seq(S))
    PROVE  /\ Lengths(s) \in Seq(Nat) /\ Len(Lengths(s)) = Len(s) /\ Len(s) \in Nat
           /\ \A i \in 1..Len(s) : Lengths(s)[i] = Len(s[i])
<1>1. Len(s) \in Nat /\ \A i \in 1..Len(s) : s[i] \in Seq(S)
  OBVIOUS
<1>2. \A i \in 1..Len(s) : Len(s[i]) \in Nat
  BY <1>1, LenProperties
<1> QED
  BY <1>1, <1>2 DEF Lengths

LEMMA LengthsAppended ==
    ASSUME NEW S, NEW s \in Seq(Seq(S)), NEW x \in Seq(S)
    PROVE  Total(Lengths(Append(s, x))) = Total(Lengths(s)) + Len(x)
<1> DEFINE t == Append(s, x)
<1>1. /\ t \in Seq(Seq(S)) /\ Len(t) = Len(s) + 1 /\ t[Len(s) + 1] = x
      /\ \A i \in 1..Len(s) : t[i] = s[i]
  BY Grown
<1> HIDE DEF t
<1>2. /\ Lengths(s) \in Seq(Nat) /\ Len(Lengths(s)) = Len(s) /\ Len(s) \in Nat
      /\ \A i \in 1..Len(s) : Lengths(s)[i] = Len(s[i])
  BY LengthsType
<1>3. /\ Lengths(t) \in Seq(Nat) /\ Len(Lengths(t)) = Len(t)
      /\ \A i \in 1..Len(t) : Lengths(t)[i] = Len(t[i])
  BY <1>1, LengthsType
<1>4. Len(x) \in Nat
  OBVIOUS
<1> DEFINE a == Lengths(s)
           b == Lengths(t)
           n == Len(x)
           u == Append(a, n)
<1>5. /\ u \in Seq(Nat) /\ Len(u) = Len(a) + 1 /\ u[Len(a) + 1] = n
      /\ \A i \in 1..Len(a) : u[i] = a[i]
  BY <1>2, <1>4, Grown
<1> HIDE DEF a, b, u
<1>6. b = u
  <2>1. Len(b) = Len(u)
    BY <1>1, <1>2, <1>3, <1>5 DEF a, b
  <2>2. \A i \in 1..Len(b) : b[i] = u[i]
    <3> SUFFICES ASSUME NEW i \in 1..Len(b) PROVE b[i] = u[i]
      OBVIOUS
    <3>1. i \in 1..Len(t) /\ b[i] = Len(t[i])
      BY <1>3 DEF b
    <3>2. CASE i = Len(s) + 1
      BY <1>1, <1>2, <1>5, <3>1, <3>2 DEF a
    <3>3. CASE i \in 1..Len(s)
      BY <1>1, <1>2, <1>5, <3>1, <3>3 DEF a
    <3> QED
      BY <1>1, <1>2, <3>1, <3>2, <3>3
  <2>3. b \in Seq(Nat) /\ u \in Seq(Nat)
    BY <1>3, <1>5 DEF b
  <2>4. b = [i \in 1..Len(b) |-> b[i]] /\ u = [i \in 1..Len(u) |-> u[i]]
    BY <2>3
  <2> QED
    BY <2>1, <2>2, <2>4
<1>7. Total(u) = Total(a) + n
  BY <1>2, <1>4, TotalAppended DEF a, u
<1> QED
  BY <1>6, <1>7 DEF a, b, t

LEMMA HeadsCountedStep ==
    ASSUME TypeInv, HeadsCounted, [Next]_vars
    PROVE  HeadsCounted'
<1>1. UNCHANGED limits
  BY BuiltBy
<1>2. CASE UNCHANGED inverted
  BY <1>1, <1>2 DEF HeadsCounted, inverted
<1>3. CASE BeginToken /\ ~Failing
  BY <1>1, <1>3 DEF HeadsCounted, BeginToken, Refuse, Fails, Failing
<1>4. CASE AppendContinuation /\ ~Failing
  <2>1. /\ sequences' = IF HeadId > Len(sequences) THEN Append(sequences, NextHead) ELSE sequences
        /\ sequence_items' = IF HeadId > Len(sequences) THEN sequence_items + Len(NextHead)
                             ELSE sequence_items
        /\ HeadId > Len(sequences) => sequence_items + Len(NextHead) <= limits.max_items
    BY <1>4, AppendsHead
  <2>2. CASE HeadId > Len(sequences)
    <3>1. sequences \in Seq(Seq(Terminals)) /\ NextHead \in Seq(Terminals)
      <4>1. sequences \in Seq(Seq(Terminals) \ {<<>>}) /\ NextHead \in Seq(Terminals) \ {<<>>}
        BY <1>4, AppendsHead, HeadHere DEF TypeInv, TypeOK
      <4> QED
        BY <4>1
    <3>2. Total(Lengths(Append(sequences, NextHead))) = Total(Lengths(sequences)) + Len(NextHead)
      BY <3>1, LengthsAppended
    <3> QED
      BY <1>1, <2>1, <2>2, <3>2 DEF HeadsCounted
  <2>3. CASE ~(HeadId > Len(sequences))
    BY <1>1, <2>1, <2>3 DEF HeadsCounted
  <2> QED
    BY <2>2, <2>3
<1> QED
  BY <1>2, <1>3, <1>4, BuiltBy

LEMMA EmittedStep ==
    ASSUME emitted_items <= limits.max_items, [Next]_vars
    PROVE  (emitted_items <= limits.max_items)'
<1>1. UNCHANGED limits
  BY BuiltBy
<1>2. CASE UNCHANGED built
  BY <1>1, <1>2 DEF built
<1>3. CASE AppendTokenCell /\ ~Failing
  <2>1. /\ emitted_items' = emitted_items + Emitted(Execute(Source, Token))
        /\ emitted_items + Emitted(Execute(Source, Token)) <= limits.max_items
    BY <1>3 DEF AppendTokenCell, Spend, Affords, Refuse, Fails, Failing
  <2> QED
    BY <1>1, <2>1
<1> QED
  BY <1>2, <1>3, BuiltBy
TokensIn(buckets) == [i \in 1..Len(buckets) |-> Len(buckets[i].tokens)]

LEMMA TokensInType ==
    ASSUME NEW buckets \in Seq(InverseBuckets)
    PROVE  /\ TokensIn(buckets) \in Seq(Nat) /\ Len(TokensIn(buckets)) = Len(buckets)
           /\ Len(buckets) \in Nat /\ Members(buckets) = Total(TokensIn(buckets))
           /\ \A i \in 1..Len(buckets) : /\ TokensIn(buckets)[i] = Len(buckets[i].tokens)
                                         /\ buckets[i].tokens \in Seq(Tokens)
<1>1. \A x \in InverseBuckets : x.tokens \in Seq(Tokens)
  BY DEF InverseBuckets
<1>2. Len(buckets) \in Nat /\ \A i \in 1..Len(buckets) : buckets[i] \in InverseBuckets
  OBVIOUS
<1>3. \A i \in 1..Len(buckets) : Len(buckets[i].tokens) \in Nat
  BY <1>1, <1>2, LenProperties
<1>4. Members(buckets) = Total(TokensIn(buckets))
  BY DEF Members, TokensIn
<1> QED
  BY <1>1, <1>2, <1>3, <1>4 DEF TokensIn

(* A token that joins a bucket is one member more.                           *)
LEMMA MemberCounted ==
    ASSUME NEW buckets \in Seq(InverseBuckets), NEW id \in Nat \ {0}, NEW token \in Tokens
    PROVE  /\ Members(buckets) \in Nat
           /\ Members(WithMember(buckets, id, token)) = Members(buckets) + 1
<1> DEFINE new == WithMember(buckets, id, token)
           known == Known(buckets, id)
           opened == [sequence |-> id, tokens |-> <<token>>]
           a == TokensIn(buckets)
           b == TokensIn(new)
<1>1. /\ a \in Seq(Nat) /\ Len(a) = Len(buckets) /\ Len(buckets) \in Nat /\ Members(buckets) = Total(a)
      /\ \A i \in 1..Len(buckets) : a[i] = Len(buckets[i].tokens) /\ buckets[i].tokens \in Seq(Tokens)
  BY TokensInType
<1>2. new \in Seq(InverseBuckets)
  BY BucketGrows
<1>3. known => \E k \in 1..Len(buckets) : JoinedAt(buckets, new, k, id, token)
  BY BucketGrows
<1>4. ~known => new = Append(buckets, opened)
  BY BucketGrows
<1>5. /\ opened \in InverseBuckets /\ opened.tokens = <<token>> /\ Len(<<token>>) = 1
  BY DEF InverseBuckets
<1> HIDE DEF new, a, b, opened
<1>6. /\ b \in Seq(Nat) /\ Len(b) = Len(new) /\ Members(new) = Total(b)
      /\ \A i \in 1..Len(new) : b[i] = Len(new[i].tokens)
  BY <1>2, TokensInType DEF b
<1>7. CASE known
  <2>1. PICK k \in 1..Len(buckets) :
          /\ Len(new) = Len(buckets) /\ buckets[k].sequence = id
          /\ \A i \in 1..Len(buckets) : new[i] = IF i = k THEN Joined(buckets[i], token) ELSE buckets[i]
    BY <1>3, <1>7 DEF JoinedAt
  <2>2. Len(new[k].tokens) = Len(buckets[k].tokens) + 1
    <3>1. buckets[k] \in InverseBuckets
      OBVIOUS
    <3>2. new[k].tokens = Append(buckets[k].tokens, token)
      BY <2>1, <3>1 DEF Joined, InverseBuckets
    <3> QED
      BY <1>1, <3>2, Grown
  <2>3. Raised(a, b, Len(a), k, 1)
    <3> SUFFICES ASSUME NEW i \in 1..Len(a) PROVE b[i] = IF i = k THEN a[i] + 1 ELSE a[i]
      BY DEF Raised
    <3>1. a[i] = Len(buckets[i].tokens) /\ b[i] = Len(new[i].tokens)
      BY <1>1, <1>6, <2>1
    <3> QED
      BY <1>1, <2>1, <2>2, <3>1
  <2>4. Total(a) \in Nat /\ Total(b) = Total(a) + 1
    <3>1. Len(b) = Len(a) /\ k \in 1..Len(a) /\ 1 \in Nat
      BY <1>1, <1>6, <2>1
    <3> QED
      BY <1>1, <1>6, <2>3, <3>1, TotalRaised
  <2> QED
    BY <1>1, <1>6, <2>4 DEF new
<1>8. CASE ~known
  <2>1. /\ Len(new) = Len(buckets) + 1 /\ new[Len(buckets) + 1] = opened
        /\ \A i \in 1..Len(buckets) : new[i] = buckets[i]
    BY <1>4, <1>5, <1>8, Grown
  <2> DEFINE u == Append(a, 1)
  <2>2. /\ u \in Seq(Nat) /\ Len(u) = Len(a) + 1 /\ u[Len(a) + 1] = 1
        /\ \A i \in 1..Len(a) : u[i] = a[i]
    BY <1>1, Grown
  <2> HIDE DEF u
  <2>3. Len(b) = Len(u)
    BY <1>1, <1>6, <2>1, <2>2
  <2>4. ASSUME NEW i \in 1..Len(b) PROVE b[i] = u[i]
    <3>1. b[i] = Len(new[i].tokens)
      BY <1>6
    <3>2. CASE i = Len(buckets) + 1
      BY <1>1, <1>5, <2>1, <2>2, <3>1, <3>2
    <3>3. CASE i \in 1..Len(buckets)
      BY <1>1, <2>1, <2>2, <3>1, <3>3
    <3> QED
      BY <1>1, <1>6, <2>1, <3>2, <3>3
  <2>5. b = u
    <3>1. b = [i \in 1..Len(b) |-> b[i]] /\ u = [i \in 1..Len(u) |-> u[i]]
      BY <1>6, <2>2
    <3> QED
      BY <2>3, <2>4, <3>1
  <2>6. Total(a) \in Nat /\ Total(u) = Total(a) + 1
    BY <1>1, TotalAppended DEF u
  <2> QED
    BY <1>1, <1>6, <2>5, <2>6 DEF new
<1> QED
  BY <1>7, <1>8

LEMMA AllMembersType ==
    ASSUME TypeInv
    PROVE  /\ AllMembers \in Seq(Nat) /\ Len(AllMembers) = Len(SourceOrder)
           /\ \A i \in 1..Len(SourceOrder) : AllMembers[i] = Members(inverse[SourceOrder[i]])
<1>1. ASSUME NEW i \in 1..Len(SourceOrder) PROVE Members(inverse[SourceOrder[i]]) \in Nat
  <2>1. inverse[SourceOrder[i]] \in Seq(InverseBuckets)
    BY SourceApart DEF TypeInv, TypeOK
  <2>2. Members(inverse[SourceOrder[i]]) = Total(TokensIn(inverse[SourceOrder[i]]))
        /\ TokensIn(inverse[SourceOrder[i]]) \in Seq(Nat)
    BY <2>1, TokensInType
  <2> QED
    BY <2>2, TotalAppended
<1> QED
  BY <1>1, Orders DEF AllMembers, MembersOf

LEMMA AllMembersGrow ==
    ASSUME TypeInv, AppendContinuation, ~Failing
    PROVE  Total(AllMembers) \in Nat /\ Total(AllMembers') = Total(AllMembers) + 1
<1> DEFINE a == AllMembers
           b == [i \in 1..Len(SourceOrder) |-> Members(inverse'[SourceOrder[i]])]
<1>1. /\ stage = "invert" /\ inner > 0
      /\ inverse' = [inverse EXCEPT ![Source] = WithMember(inverse[Source], HeadId, Token)]
  BY AppendsHead
<1>2. /\ row \in 1..Len(SourceOrder) /\ Source \in Sources /\ Token \in Tokens
  BY <1>1, CellHere
<1>3. HeadId \in Nat \ {0} /\ inverse[Source] \in Seq(InverseBuckets)
  BY <1>1, HeadHere DEF HeadId
<1>4. /\ a \in Seq(Nat) /\ Len(a) = Len(SourceOrder)
      /\ \A i \in 1..Len(SourceOrder) : a[i] = Members(inverse[SourceOrder[i]])
  BY AllMembersType
<1>5. AllMembers' = b
  BY DEF AllMembers, MembersOf
<1>6. /\ b[row] = Members(WithMember(inverse[Source], HeadId, Token))
      /\ a[row] = Members(inverse[Source])
      /\ \A i \in 1..Len(SourceOrder) : i # row => b[i] = a[i]
  <2>1. inverse \in [Sources -> Seq(InverseBuckets)]
    BY DEF TypeInv, TypeOK
  <2>2. ASSUME NEW i \in 1..Len(SourceOrder)
        PROVE  inverse'[SourceOrder[i]] = IF i = row THEN WithMember(inverse[Source], HeadId, Token)
                                          ELSE inverse[SourceOrder[i]]
    <3>1. SourceOrder[i] \in Sources /\ (SourceOrder[i] = Source <=> i = row)
      BY <1>2, SourceApart DEF Source
    <3> QED
      BY <1>1, <2>1, <3>1
  <2> QED
    BY <1>2, <1>4, <2>2 DEF Source
<1>7. b[row] = a[row] + 1
  BY <1>2, <1>3, <1>6, MemberCounted
<1>8. Len(b) = Len(a) /\ b \in Seq(Nat)
  <2>1. \A i \in 1..Len(SourceOrder) : a[i] \in Nat
    BY <1>4
  <2>2. \A i \in 1..Len(SourceOrder) : b[i] = IF i = row THEN a[i] + 1 ELSE a[i]
    BY <1>6, <1>7
  <2>3. \A i \in 1..Len(SourceOrder) : b[i] \in Nat
    BY <2>1, <2>2
  <2> QED
    BY <1>4, <2>3, Orders
<1> HIDE DEF a, b
<1>9. Raised(a, b, Len(a), row, 1)
  BY <1>4, <1>6, <1>7 DEF Raised
<1>10. Total(a) \in Nat /\ Total(b) = Total(a) + 1
  BY <1>2, <1>4, <1>8, <1>9, TotalRaised
<1> QED
  BY <1>5, <1>10 DEF a

LEMMA AheadType ==
    ASSUME TypeInv
    PROVE  Ahead \in Nat
<1>1. CASE stage = "invert" /\ inner > 0
  <2>1. Len(Continuations) \in Nat /\ inner \in 1..Len(Continuations)
    BY <1>1, ExecutionHere DEF TypeInv, Position
  <2> QED
    BY <1>1, <2>1 DEF Ahead
<1>2. CASE ~(stage = "invert" /\ inner > 0)
  BY <1>2 DEF Ahead
<1> QED
  BY <1>1, <1>2

(* Of n continuations, those from the next on are still ahead.               *)
LEMMA AheadMoves ==
    ASSUME TypeInv, stage = "invert", NextContinuation, UNCHANGED <<table, singletons>>
    PROVE  LET n == Len(Continuations) IN Ahead' = IF inner < n THEN n - inner ELSE 0
<1> DEFINE n == Len(Continuations)
<1>1. n \in Nat /\ inner \in Nat
  BY ExecutionHere DEF TypeInv, TypeOK
<1>2. CASE inner < n
  <2>1. inner' = inner + 1 /\ UNCHANGED <<stage, row, column>>
    BY <1>2 DEF NextContinuation
  <2>2. Continuations' = Continuations
    BY <2>1 DEF Continuations, Execution, Source
  <2>3. Len(Continuations') = n
    BY <2>2
  <2> HIDE DEF n
  <2>4. Ahead' = n - (inner' - 1)
    BY <1>1, <2>1, <2>3 DEF Ahead
  <2> QED
    BY <1>1, <1>2, <2>1, <2>4 DEF n
<1>3. CASE ~(inner < n)
  <2>1. inner' = 0
    BY <1>3 DEF NextContinuation, NextCell
  <2> QED
    BY <1>3, <2>1 DEF Ahead
<1> QED
  BY <1>2, <1>3

LEMMA MembersCountedStep ==
    ASSUME TypeInv, Within, MembersCounted, [Next]_vars
    PROVE  MembersCounted'
<1> DEFINE n == Len(Continuations)
           total == Total(AllMembers)
<1>1. UNCHANGED limits /\ total \in Nat /\ inverse_members \in Nat /\ limits.max_items \in Nat
  BY BuiltBy DEF MembersCounted, TypeInv, TypeOK
<1>2. /\ Ahead \in Nat /\ total + Ahead <= inverse_members /\ inverse_members <= limits.max_items
  BY AheadType DEF MembersCounted
<1>3. UNCHANGED inverse => AllMembers' = AllMembers
  BY DEF AllMembers, MembersOf
<1>4. CASE UNCHANGED inverted /\ Ahead' \in Nat /\ Ahead' <= Ahead
  <2>1. AllMembers' = AllMembers /\ UNCHANGED inverse_members
    BY <1>3, <1>4 DEF inverted
  <2>2. Total(AllMembers') = total
    BY <2>1 DEF total
  <2>3. UNCHANGED inverse_members
    BY <2>1
  <2>4. Ahead' \in Nat /\ Ahead' <= Ahead
    BY <1>4
  <2> HIDE DEF total
  <2>5. ASSUME NEW a \in Nat, NEW b \in Nat, NEW c \in Nat, NEW d \in Nat, a + b <= c, d <= b
        PROVE  a + d <= c
    BY <2>5
  <2>6. total + Ahead' <= inverse_members
    BY <1>1, <1>2, <2>4, <2>5
  <2>7. inverse_members' <= limits'.max_items
    BY <1>1, <1>2, <2>3
  <2>8. Total(AllMembers') \in Nat /\ Total(AllMembers') + Ahead' <= inverse_members'
    BY <1>1, <2>2, <2>3, <2>6
  <2> QED
    BY <2>8, <2>7 DEF MembersCounted
<1>5. CASE UNCHANGED inverted /\ (stage' # "invert" \/ inner' = 0)
  <2>1. Ahead' = 0
    BY <1>5 DEF Ahead
  <2> QED
    BY <1>2, <1>4, <1>5, <2>1
<1>6. CASE UNCHANGED vars
  <2>1. UNCHANGED inverted
    BY <1>6, Zenon DEF vars
  <2>2. UNCHANGED <<stage, inner, row, column, table, singletons>>
    BY <1>6, Zenon DEF vars, loop, built
  <2>3. Ahead' = Ahead
    BY <2>2 DEF Ahead, Continuations, Execution, Source
  <2> QED
    BY <1>2, <1>4, <2>1, <2>3
<1>7. CASE Failing
  BY <1>5, <1>7 DEF Failing
<1>8. CASE ~Failing /\ CollectSingleton
  <2>1. UNCHANGED inverted /\ inner' = 0
    BY <1>8 DEF CollectSingleton, Refuse, Fails, Failing, NextCell
  <2> QED
    BY <1>5, <2>1
<1>9. CASE ~Failing /\ BeginToken
  <2>1. /\ stage = "invert" /\ inner = 0 /\ NextContinuation
        /\ inverse_members' = inverse_members + n
        /\ UNCHANGED <<table, singletons, inverse>>
        /\ Execution.kind = "Continue" => inverse_members + n <= limits.max_items
    BY <1>9 DEF BeginToken, Spend, Affords, Refuse, Fails, Failing, built
  <2>2. n \in Nat /\ (Execution.kind # "Continue" => n = 0)
    BY <2>1, ExecutionHere
  <2>3. Ahead' = IF inner < n THEN n - inner ELSE 0
    BY <2>1, AheadMoves, Zenon
  <2>4. AllMembers' = AllMembers
    BY <1>3, <2>1
  <2> HIDE DEF n, total
  <2>5. Total(AllMembers') = total /\ Ahead = 0
    BY <2>1, <2>4 DEF total, Ahead
  <2>6. Ahead' = n /\ inverse_members' <= limits.max_items
    BY <1>1, <1>2, <2>1, <2>2, <2>3
  <2> QED
    BY <1>1, <1>2, <2>1, <2>2, <2>5, <2>6 DEF MembersCounted
<1>10. CASE ~Failing /\ AppendContinuation
  <2>1. /\ stage = "invert" /\ inner > 0 /\ NextContinuation
        /\ UNCHANGED <<table, singletons, inverse_members>>
    BY <1>10, AppendsHead DEF built
  <2>2. n \in Nat /\ inner \in 1..n
    BY <2>1, ExecutionHere DEF TypeInv, Position
  <2>3. Ahead' = IF inner < n THEN n - inner ELSE 0
    BY <2>1, AheadMoves, Zenon
  <2>4. Total(AllMembers') = total + 1
    BY <1>10, AllMembersGrow
  <2> HIDE DEF n, total
  <2>5. Ahead = n - (inner - 1)
    BY <2>1 DEF Ahead, n
  <2>6. Ahead' = n - inner
    BY <2>2, <2>3
  <2> QED
    BY <1>1, <1>2, <2>1, <2>2, <2>4, <2>5, <2>6 DEF MembersCounted
<1>11. CASE ~Failing /\ Next /\ ~(CollectSingleton \/ BeginToken \/ AppendContinuation)
  <2>1. stage' # "invert"
    BY <1>11, StageMoves DEF Next
  <2>2. UNCHANGED inverted
    BY <1>11, BuiltBy
  <2> QED
    BY <1>5, <2>1, <2>2
<1> QED
  BY <1>6, <1>7, <1>8, <1>9, <1>10, <1>11

LEMMA TotalOfZeros ==
    ASSUME NEW s \in Seq(Nat), \A i \in 1..Len(s) : s[i] = 0
    PROVE  Total(s) = 0
<1>1. PICK f : Sums(s, f) /\ Total(s) = f[Len(s)]
  BY TotalSums
<1> DEFINE length == Len(s)
           T == {n \in Nat : n <= length => f[n] = 0}
<1>2. length \in Nat
  OBVIOUS
<1>3. 0 \in T
  BY <1>1, <1>2 DEF Sums
<1>4. ASSUME NEW n \in Nat, n \in T PROVE n + 1 \in T
  <2> SUFFICES ASSUME n + 1 <= length PROVE f[n + 1] = 0
    OBVIOUS
  <2>1. f[n] = 0 /\ n + 1 \in 1..length
    BY <1>2, <1>4
  <2>2. n + 1 \in 0..length /\ n + 1 # 0 /\ (n + 1) - 1 = n
    BY <2>1
  <2>3. f[n + 1] = f[n] + s[n + 1]
    BY <1>1, <2>2 DEF Sums
  <2>4. s[n + 1] = 0
    BY <2>1
  <2> QED
    BY <2>1, <2>3, <2>4
<1> HIDE DEF T
<1>5. Nat \subseteq T
  BY <1>3, <1>4, SetInduction
<1> QED
  BY <1>1, <1>2, <1>5 DEF T

LimitsInv ==
    /\ CellsFit /\ ClassesFit /\ HeadsCounted /\ MembersCounted
    /\ emitted_items <= limits.max_items

LEMMA LimitsInit ==
    ASSUME Init
    PROVE  LimitsInv
<1>1. limits.max_items \in Nat
  BY PreparationAssumption DEF Init
<1>2. CellsFit /\ ClassesFit
  BY DEF Init, CellsFit, ClassesFit
<1>3. HeadsCounted
  <2>1. Lengths(sequences) = <<>>
    BY DEF Init, Lengths
  <2> QED
    BY <1>1, <2>1, TotalOfNone DEF Init, HeadsCounted
<1>4. MembersCounted
  <2>1. TypeInv
    BY TypeInit
  <2>2. /\ AllMembers \in Seq(Nat) /\ Len(AllMembers) = Len(SourceOrder)
        /\ \A i \in 1..Len(SourceOrder) : AllMembers[i] = Members(inverse[SourceOrder[i]])
    BY <2>1, AllMembersType
  <2>3. ASSUME NEW i \in 1..Len(SourceOrder) PROVE AllMembers[i] = 0
    <3>1. inverse[SourceOrder[i]] = <<>>
      BY SourceApart DEF Init
    <3>2. TokensIn(<<>>) = <<>>
      BY DEF TokensIn
    <3>3. Members(<<>>) = 0
      BY <3>2, TotalOfNone DEF Members, TokensIn
    <3> QED
      BY <2>2, <3>1, <3>3
  <2>4. Total(AllMembers) = 0
    BY <2>2, <2>3, TotalOfZeros
  <2>5. Ahead = 0 /\ inverse_members = 0
    BY DEF Init, Ahead
  <2> QED
    BY <1>1, <2>4, <2>5 DEF MembersCounted
<1>5. emitted_items <= limits.max_items
  BY <1>1 DEF Init
<1> QED
  BY <1>2, <1>3, <1>4, <1>5 DEF LimitsInv

(* What is built never passes the limit on items, and what is spent on it    *)
(* never the limit on work, though the code compares counters of its own     *)
(* (check_items, charge): the counters count what is there.                  *)
THEOREM LimitsAreKept == Spec => []LimitsHold
<1>1. Init => LimitsInv
  BY LimitsInit
<1>2. ASSUME PrepareInv, LimitsInv, [Next]_vars PROVE LimitsInv'
  BY <1>2, CellsFitStep, ClassesFitStep, HeadsCountedStep, MembersCountedStep, EmittedStep
     DEF LimitsInv, PrepareInv
<1>3. PrepareInv /\ LimitsInv /\ [Next]_vars => LimitsInv'
  BY <1>2
<1>4. ASSUME PrepareInv, LimitsInv PROVE LimitsHold
  <2>1. work <= limits.max_work
    BY <1>4 DEF PrepareInv, Within
  <2>2. /\ \A s \in Sources : table[s] # <<>> => Len(SourceOrder) * Len(TokenOrder) <= limits.max_items
        /\ \A state \in ParserStates :
             classes[state] # <<>> => Len(StateOrder) * (Len(sequences) + 1) <= limits.max_items
    BY <1>4 DEF LimitsInv, CellsFit, ClassesFit
  <2>3. emitted_items <= limits.max_items /\ Total(Lengths(sequences)) <= limits.max_items
    BY <1>4 DEF LimitsInv, HeadsCounted
  <2>4. Total(AllMembers) <= limits.max_items
    <3>1. Ahead \in Nat /\ inverse_members \in Nat /\ limits.max_items \in Nat
      BY <1>4, AheadType DEF PrepareInv, TypeInv, TypeOK
    <3> QED
      BY <1>4, <3>1 DEF LimitsInv, MembersCounted
  <2>5. AllMembers = [i \in 1..Len(SourceOrder) |-> Members(inverse[SourceOrder[i]])]
    BY DEF AllMembers, MembersOf
  <2> QED
    BY <2>1, <2>2, <2>3, <2>4, <2>5, Zenon DEF LimitsHold
<1>5. PrepareInv /\ LimitsInv => LimitsHold
  BY <1>4
<1> QED
  BY <1>1, <1>3, <1>5, PrepareHolds, PTL DEF Spec
=============================================================================
