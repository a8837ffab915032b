--------------------------- MODULE ValidationProofs -------------------------
(* What the check of the tables promises, for every grammar and every limits:*)
(* that accepted tables can be run, that nothing of a table is read before   *)
(* its sizes are known to be within the limits, and that tokens are counted  *)
(* exactly and within the widths.                                            *)
(*                                                                           *)
(* The argument: the grammar and the limits never change, so what a stage    *)
(* has tested still holds when a later one is reached.                       *)
EXTENDS Validation, SequenceTheorems, FiniteSetTheorems, WellFoundedInduction, TLAPS

(* Every nonempty set of naturals has a least element.                       *)
LEMMA SmallestExists ==
    ASSUME NEW numbers, numbers \subseteq Nat, numbers # {}
    PROVE  Min(numbers) \in numbers
<1>1. PICK k \in numbers : \A j \in numbers : <<j, k>> \notin OpToRel(<, Nat)
    BY WFMin, NatLessThanWellFounded, Zenon
<1>2. \A j \in numbers : ~(j < k)
    BY <1>1, Zenon DEF OpToRel
<1>3. \A j \in numbers : k <= j
    BY <1>2
<1> QED
    BY <1>3 DEF Min

(* A stage goes on if all its tests hold, and ends with the error of one     *)
(* that does not.                                                            *)
LEMMA PassMeans ==
    ASSUME NEW tests, Len(tests) \in Nat, NEW next, Pass(tests, next)
    PROVE  \/ /\ \A i \in 1..Len(tests) : tests[i].holds
              /\ stage' = next /\ error' = error
           \/ \E i \in 1..Len(tests) :
                ~tests[i].holds /\ stage' = "refused" /\ error' = tests[i].why
<1> DEFINE failing == {i \in 1..Len(tests) : ~tests[i].holds}
<1>1. CASE failing = {}
    BY <1>1 DEF Pass
<1>2. CASE failing # {}
    <2>1. Min(failing) \in failing
        <3>1. failing \subseteq Nat
            OBVIOUS
        <3> QED
            BY <1>2, <3>1, SmallestExists
    <2>2. stage' = "refused" /\ error' = tests[Min(failing)].why
        BY <1>2 DEF Pass
    <2> QED
        BY <2>1, <2>2
<1> QED
    BY <1>1, <1>2

(* The cell of a row and a column is in the table, in that column.           *)
LEMMA CellInTable ==
    ASSUME NEW rows \in Nat, NEW columns \in Nat, NEW r \in 0..rows - 1, NEW c \in 0..columns - 1
    PROVE  /\ r * columns + c \in Nat /\ r * columns + c < rows * columns
           /\ (r * columns + c) % columns = c
<1>1. r * columns \in Nat /\ rows * columns \in Nat
    OBVIOUS
<1>2. (r + 1) * columns <= rows * columns
    <2>1. PICK k \in Nat : rows = r + 1 + k
        <3>1. rows - (r + 1) \in Nat /\ rows = r + 1 + (rows - (r + 1))
            OBVIOUS
        <3> QED
            BY <3>1
    <2>2. k * columns \in Nat
        OBVIOUS
    <2> QED
        BY <2>1, <2>2
<1>3. (r + 1) * columns = r * columns + columns
    OBVIOUS
<1>4. (r * columns + c) % columns = c
    OBVIOUS
<1> QED
    BY <1>1, <1>2, <1>3, <1>4
-----------------------------------------------------------------------------
(* The tokens.                                                               *)

(* The types of the grammar and the limits, which never change.              *)
Given == grammar \in Grammars /\ limits \in LimitsTried

LEMMA GivenTypes ==
    ASSUME Given
    PROVE  /\ Max32 \in Nat /\ Max64 \in Nat /\ ByteTable \in Nat
           /\ grammar.tokens \in Seq(Count64 \cup {Eos}) /\ Len(grammar.tokens) \in Nat
           /\ grammar.dfa_states \in Nat /\ grammar.classes \in Nat
           /\ grammar.parser_states \in Nat /\ grammar.terminals \in Nat
           /\ grammar.nonterminals \in Nat
           /\ Len(grammar.productions) \in Nat /\ Len(grammar.ignored) \in Nat
           /\ DfaCells \in Nat /\ ActionCells \in Nat /\ GotoCells \in Nat /\ BaseWork \in Nat
           /\ \A kind \in LimitKinds : limits[kind] \in Count64
<1>1. Max32 \in Nat /\ ByteTable \in Nat
    BY ValidationAssumption
<1>2. Max64 \in Nat
    BY ValidationAssumption
<1>3. /\ grammar.tokens \in Seq(Count64 \cup {Eos})
      /\ {grammar.dfa_states, grammar.classes, grammar.parser_states, grammar.terminals,
          grammar.nonterminals} \subseteq Count32
      /\ grammar.productions \in Seq(Count32) /\ grammar.ignored \in Seq(Count32)
    BY ValidationAssumption DEF Given
<1>4. /\ Len(grammar.tokens) \in Nat /\ Len(grammar.productions) \in Nat
      /\ Len(grammar.ignored) \in Nat
    BY <1>3
<1>5. /\ grammar.dfa_states \in Nat /\ grammar.classes \in Nat /\ grammar.parser_states \in Nat
      /\ grammar.terminals \in Nat /\ grammar.nonterminals \in Nat
    BY <1>1, <1>3 DEF Count32
<1>6. DfaCells \in Nat /\ ActionCells \in Nat /\ GotoCells \in Nat
    BY <1>5 DEF DfaCells, ActionCells, GotoCells
<1>7. BaseWork \in Nat
    <2>1. \A a \in Nat, b \in Nat : a + b \in Nat
        OBVIOUS
    <2>2. 2 * ActionCells \in Nat /\ 8 \in Nat
        BY <1>6
    <2> QED
        BY <1>1, <1>4, <1>5, <1>6, <2>1, <2>2, Zenon DEF BaseWork
<1>8. \A kind \in LimitKinds : limits[kind] \in Count64
    BY ValidationAssumption DEF Given
<1> QED
    BY <1>1, <1>2, <1>3, <1>4, <1>5, <1>6, <1>7, <1>8

(* The bytes of a token more.                                                *)
Places(n) == UNION {{i} \X (1..grammar.tokens[i]) : i \in 1..n}
BytesIn(entry) == IF entry = Eos THEN 0 ELSE entry

LEMMA NoBytesYet == BytesOf(0) = 0
<1>1. Places(0) = {}
    BY DEF Places
<1> QED
    BY <1>1, FS_EmptySet DEF BytesOf, Places

LEMMA OneTokenMore ==
    ASSUME Given, NEW n \in Nat, n < Len(grammar.tokens)
    PROVE  /\ BytesOf(n) \in Nat /\ BytesIn(grammar.tokens[n + 1]) \in Nat
           /\ BytesOf(n + 1) = BytesOf(n) + BytesIn(grammar.tokens[n + 1])
<1> DEFINE entry == grammar.tokens[n + 1]
           new == {n + 1} \X (1..entry)
<1>1. /\ Max64 \in Nat /\ Len(grammar.tokens) \in Nat
      /\ \A i \in 1..n + 1 : grammar.tokens[i] \in Count64 \cup {Eos}
    <2>1. /\ Max64 \in Nat /\ Len(grammar.tokens) \in Nat
          /\ grammar.tokens \in Seq(Count64 \cup {Eos})
        BY GivenTypes
    <2>2. \A i \in 1..Len(grammar.tokens) : grammar.tokens[i] \in Count64 \cup {Eos}
        BY <2>1
    <2>3. \A i \in 1..n + 1 : i \in 1..Len(grammar.tokens)
        BY <2>1
    <2> QED
        BY <2>1, <2>2, <2>3
<1>2. entry \in Count64 \cup {Eos}
    BY <1>1
<1>3. BytesIn(entry) \in Nat /\ 1..entry = 1..BytesIn(entry)
    BY <1>1, <1>2 DEF BytesIn, Count64, Eos
<1> HIDE DEF entry
<1>4. IsFiniteSet(Places(n))
    <2>1. Places(n) \subseteq (1..n) \X (1..Max64)
        <3> SUFFICES ASSUME NEW place \in Places(n) PROVE place \in (1..n) \X (1..Max64)
            OBVIOUS
        <3>1. PICK i \in 1..n : place \in {i} \X (1..grammar.tokens[i])
            BY Zenon DEF Places
        <3>2. \A j \in 1..grammar.tokens[i] : j \in 1..Max64
            BY <1>1 DEF Count64, Eos
        <3> QED
            BY <3>1, <3>2
    <2>2. IsFiniteSet((1..n) \X (1..Max64))
        <3>1. IsFiniteSet(1..n) /\ IsFiniteSet(1..Max64)
            BY <1>1, FS_Interval
        <3> QED
            BY <3>1, FS_Product
    <2> QED
        BY <2>1, <2>2, FS_Subset
<1>5. IsFiniteSet(new) /\ Cardinality(new) = BytesIn(entry)
    <2>1. IsFiniteSet({n + 1}) /\ Cardinality({n + 1}) = 1
        BY FS_Singleton
    <2>2. IsFiniteSet(1..BytesIn(entry)) /\ Cardinality(1..BytesIn(entry)) = BytesIn(entry)
        BY <1>3, FS_Interval
    <2>3. /\ IsFiniteSet({n + 1} \X (1..BytesIn(entry)))
          /\ Cardinality({n + 1} \X (1..BytesIn(entry)))
               = Cardinality({n + 1}) * Cardinality(1..BytesIn(entry))
        BY <2>1, <2>2, FS_Product
    <2>4. 1 * BytesIn(entry) = BytesIn(entry)
        BY <1>3
    <2> QED
        BY <1>3, <2>1, <2>2, <2>3, <2>4
<1> HIDE DEF new
<1>6. Places(n + 1) = Places(n) \cup new
    <2>1. 1..n + 1 = (1..n) \cup {n + 1}
        OBVIOUS
    <2> QED
        BY <2>1, Zenon DEF Places, entry, new
<1>7. Places(n) \cap new = {}
    BY DEF Places, new
<1>8. Cardinality(Places(n + 1)) = Cardinality(Places(n)) + Cardinality(new)
    <2>1. Cardinality(Places(n) \cap new) = 0
        BY <1>7, FS_EmptySet
    <2>2. Cardinality(Places(n) \cup new)
            = Cardinality(Places(n)) + Cardinality(new) - Cardinality(Places(n) \cap new)
        BY <1>4, <1>5, FS_Union
    <2>3. Cardinality(Places(n)) \in Nat
        BY <1>4, FS_CardinalityType
    <2>4. Cardinality(new) \in Nat
        BY <1>5, FS_CardinalityType
    <2>5. Cardinality(Places(n)) + Cardinality(new) - 0 = Cardinality(Places(n)) + Cardinality(new)
        BY <2>3, <2>4
    <2> QED
        BY <1>6, <2>1, <2>2, <2>5, Zenon
<1>9. Cardinality(Places(n)) \in Nat
    BY <1>4, FS_CardinalityType
<1> QED
    BY <1>3, <1>5, <1>8, <1>9 DEF BytesOf, Places, entry
-----------------------------------------------------------------------------
(* What each stage has found.                                                *)

SizesHold ==
    /\ Len(grammar.tokens) <= Max32 /\ Len(grammar.tokens) <= limits["Tokens"]
    /\ grammar.dfa_states <= limits["DfaStates"] /\ grammar.classes <= limits["DfaClasses"]
    /\ grammar.parser_states <= limits["ParserStates"]
    /\ grammar.terminals <= limits["Terminals"]
    /\ grammar.nonterminals <= limits["Nonterminals"]
    /\ Len(grammar.productions) <= Max32 /\ Len(grammar.ignored) <= Max32
    /\ Len(grammar.productions) <= limits["Productions"]
    /\ DfaCells <= Max32 /\ DfaCells <= limits["DfaCells"]
    /\ ActionCells + GotoCells <= Max32 /\ ActionCells + GotoCells <= limits["ParserCells"]
    /\ BaseWork <= Max64 /\ BaseWork <= limits["Work"]

LengthsHold ==
    /\ Len(grammar.byte_classes) = ByteTable /\ Len(grammar.transitions) = DfaCells
    /\ Len(grammar.labels) = grammar.dfa_states
    /\ Len(grammar.actions) = ActionCells /\ Len(grammar.gotos) = GotoCells

IdsHold ==
    /\ grammar.dfa_start < grammar.dfa_states /\ grammar.parser_start < grammar.parser_states
    /\ grammar.eof < grammar.terminals
    /\ WrongIgnored = {} /\ WrongLabels = {}
    /\ \A i \in 1..Len(grammar.byte_classes) : grammar.byte_classes[i] < grammar.classes
    /\ \A i \in 1..Len(grammar.transitions) : grammar.transitions[i] < grammar.dfa_states

ActionsHold ==
    /\ WrongActions = {}
    /\ \A i \in 1..Len(grammar.gotos) : grammar.gotos[i] < grammar.parser_states
    /\ \A i \in 1..Len(grammar.productions) : grammar.productions[i] < grammar.nonterminals

(* The errors that only a look at a table can give, and those found before.  *)
OfTables ==
    {"WrongTableLength", "IdOutOfRange", "ByteClassOutOfRange", "AcceptOnNonEof",
     "AllocationFailure"}
OfSizes ==
    {"EmptyTokenTable", "ArithmeticOverflow", "LimitExceeded", "EmptyTokenBytes",
     "MissingOrdinaryToken", "MissingEosToken"}

(* A stage that is reached after the sizes, the tokens, ...                  *)
PastActions == {"ignored", "accepted"}
PastIds == {"actions"} \cup PastActions
PastLengths == {"ids"} \cup PastIds
PastTokens == {"tables"} \cup PastLengths
PastSizes == {"tokens"} \cup PastTokens

Counted ==
    /\ bytes = BytesOf(index - 1) /\ bytes <= limits["TokenBytes"]
    /\ work = BaseWork + index - 1 + bytes /\ work <= limits["Work"]

Checked ==
    /\ Given /\ TypeOK
    /\ stage = "sizes" => index = 1 /\ bytes = 0 /\ work = 0
    /\ stage \in PastSizes => SizesHold /\ Counted
    /\ stage \in PastTokens => SizesAreGood
    /\ stage \in PastLengths => LengthsHold
    /\ stage \in PastIds => IdsHold
    /\ stage \in PastActions => ActionsHold
    /\ error[1] \in OfTables => SizesAreGood

LEMMA InitChecked == Init => Checked
<1> SUFFICES ASSUME Init PROVE Checked
    OBVIOUS
<1>1. Given
    BY DEF Init, Given
<1>2. TypeOK
    <2>1. 1 \in 1..Len(grammar.tokens) + 1 /\ 0 \in Count64
        BY <1>1, GivenTypes DEF Count64
    <2> QED
        BY <1>1, <2>1 DEF Init, TypeOK, Given
<1>3. error[1] \notin OfTables
    BY DEF Init, NoError, OfTables
<1> QED
    BY <1>1, <1>2, <1>3
       DEF Init, Checked, PastSizes, PastTokens, PastLengths, PastIds, PastActions

(* Nothing of this depends on the variables that change.                     *)
LEMMA SameGrammar ==
    ASSUME UNCHANGED <<grammar, limits>>
    PROVE  /\ Given' = Given /\ SizesHold' = SizesHold /\ SizesAreGood' = SizesAreGood
           /\ LengthsHold' = LengthsHold /\ IdsHold' = IdsHold /\ ActionsHold' = ActionsHold
           /\ BaseWork' = BaseWork /\ \A n : BytesOf(n)' = BytesOf(n)
<1>1. /\ DfaCells' = DfaCells /\ ActionCells' = ActionCells /\ GotoCells' = GotoCells
      /\ \A n : BytesOf(n)' = BytesOf(n)
    BY DEF DfaCells, ActionCells, GotoCells, BytesOf
<1>2. BaseWork' = BaseWork /\ TotalBytes' = TotalBytes
    BY <1>1 DEF BaseWork, TotalBytes
<1>3. \A kind, n : Within(kind, n)' = Within(kind, n)
    BY DEF Within
<1>4. SizesAreGood' = SizesAreGood
    BY <1>1, <1>2, <1>3 DEF SizesAreGood
<1>5. SizesHold' = SizesHold /\ LengthsHold' = LengthsHold
    BY <1>1, <1>2 DEF SizesHold, LengthsHold
<1>6. IdsHold' = IdsHold
    BY DEF IdsHold, WrongIgnored, WrongLabels
<1>7. ActionsHold' = ActionsHold
    BY DEF ActionsHold, WrongActions, ActionWrong, Column
<1> QED
    BY <1>1, <1>2, <1>4, <1>5, <1>6, <1>7 DEF Given
-----------------------------------------------------------------------------
(* The sizes.                                                                *)
LEMMA DeclaredTests ==
    /\ Len(DeclaredSizes) = 19
    /\ (\A i \in 1..19 : DeclaredSizes[i].holds) => SizesHold
    /\ \A i \in 1..19 : DeclaredSizes[i].why[1] \in OfSizes
<1> USE DEF Test, Fits, Limit
<1>1. Len(DeclaredSizes) = 19
    BY DEF DeclaredSizes
<1>2. ASSUME \A i \in 1..19 : DeclaredSizes[i].holds
      PROVE  SizesHold
    <2>1. /\ DeclaredSizes[2].holds /\ DeclaredSizes[3].holds /\ DeclaredSizes[4].holds
          /\ DeclaredSizes[5].holds /\ DeclaredSizes[6].holds /\ DeclaredSizes[7].holds
          /\ DeclaredSizes[8].holds
        BY <1>2
    <2>2. /\ DeclaredSizes[9].holds /\ DeclaredSizes[10].holds /\ DeclaredSizes[11].holds
          /\ DeclaredSizes[12].holds /\ DeclaredSizes[13].holds /\ DeclaredSizes[14].holds
        BY <1>2
    <2>3. /\ DeclaredSizes[16].holds /\ DeclaredSizes[17].holds /\ DeclaredSizes[18].holds
          /\ DeclaredSizes[19].holds
        BY <1>2
    <2>4. /\ Len(grammar.tokens) <= Max32 /\ Len(grammar.tokens) <= limits["Tokens"]
          /\ grammar.dfa_states <= limits["DfaStates"] /\ grammar.classes <= limits["DfaClasses"]
          /\ grammar.parser_states <= limits["ParserStates"]
          /\ grammar.terminals <= limits["Terminals"]
          /\ grammar.nonterminals <= limits["Nonterminals"]
        BY <2>1 DEF DeclaredSizes
    <2>5. /\ Len(grammar.productions) <= Max32 /\ Len(grammar.ignored) <= Max32
          /\ Len(grammar.productions) <= limits["Productions"]
          /\ DfaCells <= Max32 /\ DfaCells <= limits["DfaCells"]
        BY <2>2 DEF DeclaredSizes
    <2>6. /\ ActionCells + GotoCells <= Max32 /\ ActionCells + GotoCells <= limits["ParserCells"]
          /\ BaseWork <= Max64 /\ BaseWork <= limits["Work"]
        BY <2>3 DEF DeclaredSizes
    <2> QED
        BY <2>4, <2>5, <2>6 DEF SizesHold
<1>3. \A i \in 1..19 : DeclaredSizes[i].why[1] \in OfSizes
    <2> SUFFICES ASSUME NEW i \in 1..19 PROVE DeclaredSizes[i].why[1] \in OfSizes
        OBVIOUS
    <2>1. \/ i = 1 \/ i = 2 \/ i = 3 \/ i = 4 \/ i = 5 \/ i = 6 \/ i = 7 \/ i = 8 \/ i = 9 \/ i = 10
          \/ i = 11 \/ i = 12 \/ i = 13 \/ i = 14 \/ i = 15 \/ i = 16 \/ i = 17 \/ i = 18 \/ i = 19
        OBVIOUS
    <2>2. CASE i = 1 \/ i = 2 \/ i = 3 \/ i = 4 \/ i = 5
        BY <2>2 DEF DeclaredSizes, OfSizes
    <2>3. CASE i = 6 \/ i = 7 \/ i = 8 \/ i = 9 \/ i = 10
        BY <2>3 DEF DeclaredSizes, OfSizes
    <2>4. CASE i = 11 \/ i = 12 \/ i = 13 \/ i = 14 \/ i = 15
        BY <2>4 DEF DeclaredSizes, OfSizes
    <2>5. CASE i = 16 \/ i = 17 \/ i = 18 \/ i = 19
        BY <2>5 DEF DeclaredSizes, OfSizes
    <2> QED
        BY <2>1, <2>2, <2>3, <2>4, <2>5
<1> QED
    BY <1>1, <1>2, <1>3

LEMMA ChecksSizes ==
    ASSUME Checked, CheckSizes
    PROVE  Checked'
<1>1. /\ Given /\ TypeOK /\ stage = "sizes" /\ index = 1 /\ bytes = 0 /\ BytesOf(0) = 0
      /\ UNCHANGED <<grammar, limits, index, bytes, kinds>>
    BY NoBytesYet DEF Checked, CheckSizes, Unread
<1>2. /\ Given' /\ SizesHold' = SizesHold /\ BaseWork' = BaseWork /\ \A n : BytesOf(n)' = BytesOf(n)
    BY <1>1, SameGrammar
<1>3. /\ BaseWork \in Nat /\ Len(grammar.tokens) \in Nat /\ Max64 \in Nat
      /\ limits["Work"] \in Nat /\ limits["TokenBytes"] \in Nat
    <2>1. "Work" \in LimitKinds /\ "TokenBytes" \in LimitKinds
        BY DEF LimitKinds
    <2>2. limits["Work"] \in Count64 /\ limits["TokenBytes"] \in Count64
        BY <1>1, <2>1, GivenTypes
    <2> QED
        BY <1>1, <2>2, GivenTypes DEF Count64
<1>4. error = NoError
    BY <1>1 DEF TypeOK
<1>5. CASE /\ SizesHold /\ stage' = "tokens" /\ error' = error
    <2>1. work' = BaseWork
        BY <1>5 DEF CheckSizes
    <2>2. work' \in Count64 /\ work' <= limits["Work"]
        BY <1>3, <1>5, <2>1 DEF SizesHold, Count64
    <2>3. TypeOK'
        BY <1>1, <1>4, <1>5, <2>2 DEF TypeOK
    <2>4. Counted'
        BY <1>1, <1>2, <1>3, <2>1, <2>2 DEF Counted
    <2>5. error'[1] \notin OfTables
        BY <1>4, <1>5 DEF NoError, OfTables
    <2> QED
        BY <1>2, <1>5, <2>3, <2>4, <2>5
           DEF Checked, PastTokens, PastLengths, PastIds, PastActions
<1>6. CASE stage' = "refused" /\ error'[1] \in OfSizes
    <2>1. work' = 0
        BY <1>6 DEF CheckSizes
    <2>2. error' # NoError /\ error'[1] \notin OfTables
        BY <1>6 DEF NoError, OfSizes, OfTables
    <2>3. TypeOK'
        BY <1>1, <1>3, <1>6, <2>1, <2>2 DEF TypeOK, Count64
    <2> QED
        BY <1>2, <1>6, <2>2, <2>3
           DEF Checked, PastSizes, PastTokens, PastLengths, PastIds, PastActions
<1> QED
    <2>1. Pass(DeclaredSizes, "tokens") /\ Len(DeclaredSizes) \in Nat
        BY DeclaredTests DEF CheckSizes
    <2>2. \/ /\ \A i \in 1..Len(DeclaredSizes) : DeclaredSizes[i].holds
             /\ stage' = "tokens" /\ error' = error
          \/ \E i \in 1..Len(DeclaredSizes) :
                ~DeclaredSizes[i].holds /\ stage' = "refused" /\ error' = DeclaredSizes[i].why
        BY <2>1, PassMeans
    <2> QED
        BY <1>5, <1>6, <2>2, DeclaredTests
-----------------------------------------------------------------------------
(* The tokens.                                                               *)
LEMMA TestsOfAToken ==
    /\ Len(TokenTests) \in Nat
    /\ (\A i \in 1..Len(TokenTests) : TokenTests[i].holds) =>
         IF Entry = Eos
         THEN work + 1 <= Max64 /\ work + 1 <= limits["Work"]
         ELSE /\ bytes + Entry <= Max64 /\ bytes + Entry <= limits["TokenBytes"]
              /\ work + TokenCost <= Max64 /\ work + TokenCost <= limits["Work"]
    /\ \A i \in 1..Len(TokenTests) : TokenTests[i].why[1] \in OfSizes
<1> DEFINE a == Fits(work + 1, Max64, "Work")
           b == Limit("Work", work + 1)
           c == Test(Entry # 0, <<"EmptyTokenBytes">>)
           d == Fits(bytes + Entry, Max64, "TokenBytes")
           e == Limit("TokenBytes", bytes + Entry)
           f == Fits(work + TokenCost, Max64, "Work")
           g == Limit("Work", work + TokenCost)
<1>1. /\ a.holds <=> work + 1 <= Max64
      /\ b.holds <=> work + 1 <= limits["Work"]
      /\ d.holds <=> bytes + Entry <= Max64
      /\ e.holds <=> bytes + Entry <= limits["TokenBytes"]
      /\ f.holds <=> work + TokenCost <= Max64
      /\ g.holds <=> work + TokenCost <= limits["Work"]
    BY DEF Fits, Limit, Test
<1>2. /\ a.why[1] \in OfSizes /\ b.why[1] \in OfSizes /\ c.why[1] \in OfSizes
      /\ d.why[1] \in OfSizes /\ e.why[1] \in OfSizes /\ f.why[1] \in OfSizes
      /\ g.why[1] \in OfSizes
    BY DEF Fits, Limit, Test, OfSizes
<1>3. TokenTests = <<a, b>> \o IF Entry = Eos THEN <<>> ELSE <<c, d, e, f, g>>
    BY DEF TokenTests
<1> HIDE DEF a, b, c, d, e, f, g
<1>4. CASE Entry = Eos
    <2>1. TokenTests = <<a, b>>
        BY <1>3, <1>4
    <2> QED
        BY <1>1, <1>2, <1>4, <2>1
<1>5. CASE Entry # Eos
    <2> DEFINE all == {a, b, c, d, e, f, g}
    <2>1. /\ Len(TokenTests) = 7
          /\ TokenTests[1] = a /\ TokenTests[2] = b /\ TokenTests[3] = c /\ TokenTests[4] = d
          /\ TokenTests[5] = e /\ TokenTests[6] = f /\ TokenTests[7] = g
        <3>1. <<a, b>> \in Seq(all) /\ <<c, d, e, f, g>> \in Seq(all)
            OBVIOUS
        <3>2. Len(<<a, b>>) = 2 /\ Len(<<c, d, e, f, g>>) = 5
            OBVIOUS
        <3> HIDE DEF all
        <3>3. /\ Len(TokenTests) = 7
              /\ \A i \in 1..7 : TokenTests[i] = IF i <= 2 THEN <<a, b>>[i] ELSE <<c, d, e, f, g>>[i - 2]
            BY <1>3, <1>5, <3>1, <3>2, ConcatProperties
        <3> QED
            BY <3>3
    <2>2. Len(TokenTests) = 7
        BY <2>1
    <2>3. \A i \in 1..7 : TokenTests[i].why[1] \in OfSizes
        BY <1>2, <2>1
    <2>4. /\ TokenTests[4].holds <=> bytes + Entry <= Max64
          /\ TokenTests[5].holds <=> bytes + Entry <= limits["TokenBytes"]
          /\ TokenTests[6].holds <=> work + TokenCost <= Max64
          /\ TokenTests[7].holds <=> work + TokenCost <= limits["Work"]
        BY <1>1, <2>1
    <2> QED
        BY <1>5, <2>2, <2>3, <2>4
<1> QED
    BY <1>4, <1>5

LEMMA Refusing ==
    ASSUME Checked, UNCHANGED <<grammar, limits, index, work, bytes, kinds>>,
           stage' = "refused", error' # NoError, error'[1] \in OfTables => SizesAreGood
    PROVE  Checked'
<1>1. /\ Given /\ Given' /\ SizesAreGood' = SizesAreGood /\ TypeOK
    BY SameGrammar DEF Checked
<1>2. TypeOK'
    BY <1>1 DEF TypeOK
<1> QED
    BY <1>1, <1>2
       DEF Checked, PastSizes, PastTokens, PastLengths, PastIds, PastActions

LEMMA ChecksToken ==
    ASSUME Checked, CheckToken
    PROVE  Checked'
<1>1. /\ Given /\ TypeOK /\ SizesHold /\ Counted /\ stage = "tokens"
      /\ index \in 1..Len(grammar.tokens) /\ UNCHANGED <<grammar, limits>>
    BY DEF Checked, CheckToken, TypeOK, PastSizes
<1>2. /\ Given' /\ SizesHold' = SizesHold /\ BaseWork' = BaseWork /\ \A n : BytesOf(n)' = BytesOf(n)
    BY <1>1, SameGrammar
<1>3. /\ BaseWork \in Nat /\ Len(grammar.tokens) \in Nat /\ Max64 \in Nat
    BY <1>1, GivenTypes
<1>4. error = NoError /\ bytes \in Nat /\ work \in Nat
    BY <1>1, <1>3 DEF TypeOK, Count64
<1>5. /\ BytesOf(index) = BytesOf(index - 1) + BytesIn(Entry) /\ BytesIn(Entry) \in Nat
    <2>1. index - 1 \in Nat /\ index - 1 < Len(grammar.tokens) /\ (index - 1) + 1 = index
        BY <1>1, <1>3
    <2> QED
        BY <1>1, <2>1, OneTokenMore DEF Entry
<1>6. TokenCost = 1 + BytesIn(Entry)
    BY DEF TokenCost, BytesIn
<1>7. /\ \/ /\ \A i \in 1..Len(TokenTests) : TokenTests[i].holds
            /\ stage' = "tokens" /\ error' = error
         \/ \E i \in 1..Len(TokenTests) :
               ~TokenTests[i].holds /\ stage' = "refused" /\ error' = TokenTests[i].why
    <2>1. Pass(TokenTests, "tokens") /\ Len(TokenTests) \in Nat
        BY TestsOfAToken DEF CheckToken
    <2> QED
        BY <2>1, PassMeans
<1>8. CASE /\ \A i \in 1..Len(TokenTests) : TokenTests[i].holds
           /\ stage' = "tokens" /\ error' = error
    <2>1. /\ index' = index + 1 /\ work' = work + TokenCost
          /\ bytes' = (IF Entry = Eos THEN bytes ELSE bytes + Entry)
          /\ kinds' = kinds \cup {IF Entry = Eos THEN "eos" ELSE "ordinary"}
        BY <1>8 DEF CheckToken
    <2>2. bytes' = bytes + BytesIn(Entry)
        BY <1>4, <2>1 DEF BytesIn
    <2>3. bytes' <= limits["TokenBytes"] /\ bytes' \in Count64
        <3>1. CASE Entry = Eos
            BY <1>1, <2>1, <3>1 DEF Counted, TypeOK
        <3>2. CASE Entry # Eos
            BY <1>4, <1>5, <1>8, <2>1, <2>2, <3>2, TestsOfAToken DEF Count64
        <3> QED
            BY <3>1, <3>2
    <2>4. work' <= limits["Work"] /\ work' \in Count64
        <3>1. work + TokenCost <= Max64 /\ work + TokenCost <= limits["Work"]
            BY <1>6, <1>8, TestsOfAToken DEF TokenCost
        <3>2. work + TokenCost \in Nat
            BY <1>4, <1>5, <1>6
        <3> QED
            BY <2>1, <3>1, <3>2 DEF Count64
    <2>5. kinds' \subseteq {"ordinary", "eos"}
        BY <1>1, <2>1 DEF TypeOK
    <2>6. index' \in 1..Len(grammar.tokens) + 1
        BY <1>1, <1>3, <2>1
    <2>7. TypeOK'
        BY <1>1, <1>4, <1>8, <2>3, <2>4, <2>5, <2>6 DEF TypeOK
    <2>8. Counted'
        <3>1. index' - 1 = index
            BY <1>1, <1>3, <2>1
        <3>2. bytes' = BytesOf(index)
            BY <1>1, <1>5, <2>2 DEF Counted
        <3>3. work' = BaseWork + index + bytes'
            <4>1. \A base \in Nat, i \in Nat, b \in Nat, e \in Nat :
                    (base + i - 1 + b) + (1 + e) = base + i + (b + e)
                OBVIOUS
            <4>2. work = BaseWork + index - 1 + bytes /\ index \in Nat
                BY <1>1, <1>3 DEF Counted
            <4>3. work' = (BaseWork + index - 1 + bytes) + (1 + BytesIn(Entry))
                BY <1>6, <2>1, <4>2
            <4>4. (BaseWork + index - 1 + bytes) + (1 + BytesIn(Entry))
                    = BaseWork + index + (bytes + BytesIn(Entry))
                BY <1>3, <1>4, <1>5, <4>1, <4>2
            <4> QED
                BY <2>2, <4>3, <4>4
        <3> QED
            BY <1>1, <1>2, <2>3, <2>4, <3>1, <3>2, <3>3 DEF Counted
    <2>9. error'[1] \notin OfTables
        BY <1>4, <1>8 DEF NoError, OfTables
    <2> QED
        BY <1>1, <1>2, <1>8, <2>7, <2>8, <2>9
           DEF Checked, PastTokens, PastLengths, PastIds, PastActions
<1>9. CASE \E i \in 1..Len(TokenTests) :
             ~TokenTests[i].holds /\ stage' = "refused" /\ error' = TokenTests[i].why
    <2>1. stage' = "refused" /\ error'[1] \in OfSizes
        BY <1>9, TestsOfAToken
    <2>2. UNCHANGED <<grammar, limits, index, work, bytes, kinds>>
        <3>1. stage' = "refused"
            BY <2>1
        <3> QED
            BY <3>1, Zenon DEF CheckToken
    <2> QED
        <3>1. error' # NoError /\ error'[1] \notin OfTables
            BY <2>1 DEF OfSizes, OfTables, NoError
        <3> QED
            BY <2>1, <2>2, <3>1, Refusing
<1> QED
    BY <1>7, <1>8, <1>9

(* Once the tokens are counted, the sizes are what SizesAreGood says.        *)
LEMMA SizesSuffice ==
    ASSUME Given, SizesHold, Counted, index = Len(grammar.tokens) + 1,
           LogicalBytes <= limits["LogicalBytes"]
    PROVE  SizesAreGood
<1>1. /\ Max32 \in Nat /\ ByteTable \in Nat /\ Len(grammar.tokens) \in Nat
      /\ grammar.dfa_states \in Nat /\ Len(grammar.productions) \in Nat
      /\ Len(grammar.ignored) \in Nat
      /\ DfaCells \in Nat /\ ActionCells \in Nat /\ GotoCells \in Nat /\ BaseWork \in Nat
    BY GivenTypes
<1>2. bytes = TotalBytes /\ bytes <= limits["TokenBytes"]
    <2>1. index - 1 = Len(grammar.tokens)
        BY <1>1
    <2> QED
        BY <2>1 DEF Counted, TotalBytes
<1>3. bytes \in Nat
    <2>1. CASE Len(grammar.tokens) = 0
        BY <1>2, <2>1, NoBytesYet DEF TotalBytes
    <2>2. CASE Len(grammar.tokens) # 0
        <3> DEFINE n == Len(grammar.tokens) - 1
        <3>1. n \in Nat /\ n < Len(grammar.tokens) /\ n + 1 = Len(grammar.tokens)
            BY <1>1, <2>2
        <3>2. BytesOf(n + 1) \in Nat
            BY <3>1, OneTokenMore
        <3> QED
            BY <1>2, <3>1, <3>2 DEF TotalBytes
    <2> QED
        BY <2>1, <2>2
<1>4. 8 + ByteTable + grammar.dfa_states + DfaCells + ActionCells + ActionCells + GotoCells
        + Len(grammar.productions) + Len(grammar.ignored) + Len(grammar.tokens) + bytes
      = BaseWork + Len(grammar.tokens) + bytes
    BY <1>1, <1>3 DEF BaseWork
<1>5. Len(grammar.tokens) + bytes + 8 * Len(grammar.productions)
        + 4 * (8 + ByteTable + DfaCells + grammar.dfa_states)
        + 4 * (3 * ActionCells + GotoCells + Len(grammar.ignored))
      = LogicalBytes
    <2> DEFINE fixed == 8 + ByteTable + DfaCells + grammar.dfa_states
    <2>1. fixed \in Nat
        BY <1>1
    <2>2. 4 * (3 * ActionCells + GotoCells + Len(grammar.ignored))
            = 12 * ActionCells + 4 * (GotoCells + Len(grammar.ignored))
        <3> DEFINE actions == 3 * ActionCells
                   ignored == Len(grammar.ignored)
        <3>1. actions \in Nat /\ 4 * actions = 12 * ActionCells /\ ignored \in Nat
            BY <1>1
        <3> HIDE DEF actions, ignored
        <3>2. 4 * (actions + GotoCells + ignored) = 4 * actions + 4 * (GotoCells + ignored)
            BY <1>1, <3>1
        <3> QED
            BY <3>1, <3>2 DEF actions, ignored
    <2>3. 4 * (fixed + GotoCells + Len(grammar.ignored))
            = 4 * fixed + 4 * (GotoCells + Len(grammar.ignored))
        BY <1>1, <2>1
    <2> HIDE DEF fixed
    <2> DEFINE counts == Len(grammar.tokens) + bytes
    <2>4. counts \in Nat
        BY <1>1, <1>3
    <2> HIDE DEF counts
    <2>5. counts + 8 * Len(grammar.productions) + 4 * fixed
            + (12 * ActionCells + 4 * (GotoCells + Len(grammar.ignored)))
          = counts + (4 * fixed + 4 * (GotoCells + Len(grammar.ignored)))
              + 12 * ActionCells + 8 * Len(grammar.productions)
        <3>1. \A c \in Nat, p \in Nat, x \in Nat, y \in Nat, a \in Nat :
                c + p + x + (a + y) = c + (x + y) + a + p
            OBVIOUS
        <3>2. /\ 8 * Len(grammar.productions) \in Nat /\ 4 * fixed \in Nat
              /\ 12 * ActionCells \in Nat /\ 4 * (GotoCells + Len(grammar.ignored)) \in Nat
            BY <1>1, <2>1
        <3> QED
            BY <2>4, <3>1, <3>2
    <2> QED
        BY <2>2, <2>3, <2>5 DEF LogicalBytes, fixed, counts
<1>6. BaseWork + Len(grammar.tokens) + bytes <= limits["Work"]
    <2>1. work = BaseWork + Len(grammar.tokens) + bytes
        BY <1>1, <1>3 DEF Counted
    <2> QED
        BY <2>1 DEF Counted
<1>7. {Len(grammar.tokens), Len(grammar.productions), Len(grammar.ignored)} \subseteq Count32
    BY <1>1 DEF SizesHold, Count32
<1> QED
    BY <1>2, <1>4, <1>5, <1>6, <1>7 DEF SizesHold, SizesAreGood, Within

(* A stage of tables goes on with what it and the earlier ones have found.   *)
LEMMA Advancing ==
    ASSUME Checked, UNCHANGED <<grammar, limits, index, work, bytes, kinds>>,
           stage \in PastSizes, stage' \in PastTokens, error' = error, SizesAreGood,
           stage' \in PastLengths => LengthsHold, stage' \in PastIds => IdsHold,
           stage' \in PastActions => ActionsHold
    PROVE  Checked'
<1>1. /\ Given /\ TypeOK /\ SizesHold /\ Counted
    BY DEF Checked
<1>2. /\ Given' /\ SizesHold' /\ SizesAreGood' /\ LengthsHold' = LengthsHold
      /\ IdsHold' = IdsHold /\ ActionsHold' = ActionsHold
      /\ BaseWork' = BaseWork /\ \A n : BytesOf(n)' = BytesOf(n)
    BY <1>1, SameGrammar
<1>3. stage # "refused" /\ stage' # "refused" /\ stage' # "sizes"
    BY DEF PastSizes, PastTokens, PastLengths, PastIds, PastActions
<1>4. TypeOK'
    BY <1>1, <1>3 DEF TypeOK, PastTokens, PastLengths, PastIds, PastActions
<1>5. Counted'
    BY <1>1, <1>2 DEF Counted
<1> QED
    BY <1>2, <1>3, <1>4, <1>5 DEF Checked

LEMMA ChecksTotals ==
    ASSUME Checked, CheckTotals
    PROVE  Checked'
<1> DEFINE tests == << Test("ordinary" \in kinds, <<"MissingOrdinaryToken">>),
                       Test("eos" \in kinds, <<"MissingEosToken">>),
                       Fits(LogicalBytes, Max64, "LogicalBytes"),
                       Limit("LogicalBytes", LogicalBytes) >>
<1>1. /\ Len(tests) = 4
      /\ tests[4].holds => LogicalBytes <= limits["LogicalBytes"]
      /\ \A i \in 1..4 : tests[i].why[1] \in OfSizes
    <2>1. Len(tests) = 4
        OBVIOUS
    <2>2. tests[4].holds => LogicalBytes <= limits["LogicalBytes"]
        BY DEF Test, Limit
    <2>3. /\ tests[1].why[1] \in OfSizes /\ tests[2].why[1] \in OfSizes
          /\ tests[3].why[1] \in OfSizes /\ tests[4].why[1] \in OfSizes
        BY DEF Test, Fits, Limit, OfSizes
    <2> HIDE DEF tests
    <2>4. \A i \in 1..4 : i = 1 \/ i = 2 \/ i = 3 \/ i = 4
        OBVIOUS
    <2> QED
        BY <2>1, <2>2, <2>3, <2>4
<1>2. Pass(tests, "tables")
    BY DEF CheckTotals
<1> HIDE DEF tests
<1>3. /\ stage = "tokens" /\ UNCHANGED <<grammar, limits, index, work, bytes, kinds>>
      /\ index > Len(grammar.tokens)
    BY DEF CheckTotals, Unread
<1>4. CASE (\A i \in 1..4 : tests[i].holds) /\ stage' = "tables" /\ error' = error
    <2>1. Given /\ TypeOK /\ SizesHold /\ Counted
        BY <1>3 DEF Checked, PastSizes
    <2>2. index = Len(grammar.tokens) + 1
        <3>1. index \in 1..Len(grammar.tokens) + 1 /\ Len(grammar.tokens) \in Nat
            BY <2>1, GivenTypes DEF TypeOK
        <3> QED
            BY <1>3, <3>1
    <2>3. LogicalBytes <= limits["LogicalBytes"]
        BY <1>1, <1>4
    <2>4. SizesAreGood
        BY <2>1, <2>2, <2>3, SizesSuffice
    <2>5. /\ stage \in PastSizes /\ stage' \in PastTokens
          /\ stage' \notin PastLengths /\ stage' \notin PastIds /\ stage' \notin PastActions
        BY <1>3, <1>4 DEF PastSizes, PastTokens, PastLengths, PastIds, PastActions
    <2> QED
        BY <1>3, <1>4, <2>4, <2>5, Advancing
<1>5. CASE \E i \in 1..4 : stage' = "refused" /\ error' = tests[i].why
    <2>1. stage' = "refused" /\ error' # NoError /\ error'[1] \notin OfTables
        BY <1>1, <1>5 DEF OfSizes, OfTables, NoError
    <2> QED
        BY <1>3, <2>1, Refusing
<1> QED
    BY <1>1, <1>2, <1>4, <1>5, PassMeans
-----------------------------------------------------------------------------
(* The tables.                                                               *)

LEMMA TableTypes ==
    ASSUME Given
    PROVE  /\ Len(grammar.byte_classes) \in Nat /\ Len(grammar.transitions) \in Nat
           /\ Len(grammar.labels) \in Nat /\ Len(grammar.actions) \in Nat
           /\ Len(grammar.gotos) \in Nat
<1> QED
    BY ValidationAssumption DEF Given

(* A test of the cells of a table fails if a cell is wrong, and says how.    *)
LEMMA WrongIsSaid ==
    ASSUME NEW wrong, wrong \subseteq Nat, NEW why, \A i \in wrong : why[i] # NoError
    PROVE  /\ FirstWrong(wrong, why).holds <=> wrong = {}
           /\ ~FirstWrong(wrong, why).holds => FirstWrong(wrong, why).why # NoError
<1>1. CASE wrong = {}
    BY <1>1 DEF FirstWrong, Test
<1>2. CASE wrong # {}
    BY <1>2, SmallestExists DEF FirstWrong, Test
<1> QED
    BY <1>1, <1>2

(* What a stage of tables has tested: if it fails, with an error.            *)
LEMMA StageEnds ==
    ASSUME Checked, stage \in PastTokens, NEW tests, Len(tests) \in Nat,
           NEW next, Pass(tests, next), UNCHANGED <<grammar, limits, index, work, bytes, kinds>>,
           \A i \in 1..Len(tests) : ~tests[i].holds => tests[i].why # NoError
    PROVE  \/ (\A i \in 1..Len(tests) : tests[i].holds) /\ stage' = next /\ error' = error
           \/ Checked'
<1>1. SizesAreGood
    BY DEF Checked
<1>2. ASSUME NEW i \in 1..Len(tests), ~tests[i].holds, stage' = "refused", error' = tests[i].why
      PROVE  Checked'
    <2>1. error' # NoError
        BY <1>2
    <2> QED
        BY <1>1, <1>2, <2>1, Refusing
<1> QED
    BY <1>2, PassMeans

LEMMA ChecksLengths ==
    ASSUME Checked, CheckLengths
    PROVE  Checked'
<1>1. /\ Len(Lengths) = 5
      /\ (\A i \in 1..5 : Lengths[i].holds) => LengthsHold
      /\ \A i \in 1..5 : Lengths[i].why # NoError
    <2> USE DEF Length, Test
    <2>1. Len(Lengths) = 5
        BY DEF Lengths
    <2>2. ASSUME \A i \in 1..5 : Lengths[i].holds
          PROVE  LengthsHold
        <3>1. /\ Lengths[1].holds /\ Lengths[2].holds /\ Lengths[3].holds /\ Lengths[4].holds
              /\ Lengths[5].holds
            BY <2>2
        <3> QED
            BY <3>1 DEF Lengths, LengthsHold
    <2>3. \A i \in 1..5 : i = 1 \/ i = 2 \/ i = 3 \/ i = 4 \/ i = 5
        OBVIOUS
    <2>4. \A i \in 1..5 : Lengths[i].why # NoError
        BY <2>3 DEF Lengths, NoError
    <2> QED
        BY <2>1, <2>2, <2>4
<1>2. /\ stage = "tables" /\ Pass(Lengths, "ids")
      /\ UNCHANGED <<grammar, limits, index, work, bytes, kinds>>
    BY DEF CheckLengths, Unread
<1>3. SizesAreGood /\ stage \in PastTokens /\ stage \in PastSizes
    BY <1>2 DEF Checked, PastTokens, PastSizes
<1>4. CASE (\A i \in 1..5 : Lengths[i].holds) /\ stage' = "ids" /\ error' = error
    <2>1. /\ stage' \in PastTokens /\ stage' \notin PastIds /\ stage' \notin PastActions
        BY <1>4 DEF PastTokens, PastLengths, PastIds, PastActions
    <2> QED
        BY <1>1, <1>2, <1>3, <1>4, <2>1, Advancing
<1> QED
    <2>1. \A i \in 1..Len(Lengths) : ~Lengths[i].holds => Lengths[i].why # NoError
        BY <1>1
    <2>2. \/ (\A i \in 1..Len(Lengths) : Lengths[i].holds) /\ stage' = "ids" /\ error' = error
          \/ Checked'
        <3>1. Len(Lengths) \in Nat
            BY <1>1
        <3> QED
            BY <1>2, <1>3, <2>1, <3>1, StageEnds, Zenon
    <2> QED
        BY <1>1, <1>4, <2>2

LEMMA ChecksIds ==
    ASSUME Checked, CheckIds
    PROVE  Checked'
<1> DEFINE t1 == Id(grammar.dfa_start, grammar.dfa_states, "LexerStart")
           t2 == Id(grammar.parser_start, grammar.parser_states, "ParserStart")
           t3 == Id(grammar.eof, grammar.terminals, "ParserEof")
           t4 == FirstWrong(WrongIgnored, [i \in WrongIgnored |-> IgnoredWhy(i)])
           t5 == Test(\A i \in 1..Len(grammar.byte_classes) :
                         grammar.byte_classes[i] < grammar.classes, <<"ByteClassOutOfRange">>)
           t6 == Ids(grammar.transitions, grammar.dfa_states, "LexerTransitions")
           t7 == FirstWrong(WrongLabels, [i \in WrongLabels |-> LabelWhy(i)])
           tests == <<t1, t2, t3, t4, t5, t6, t7>>
<1>1. /\ stage = "ids" /\ Pass(tests, "actions")
      /\ UNCHANGED <<grammar, limits, index, work, bytes, kinds>>
    BY DEF CheckIds, Unread
<1>2. SizesAreGood /\ LengthsHold /\ Given /\ stage \in PastTokens /\ stage \in PastSizes
    BY <1>1 DEF Checked, PastLengths, PastTokens, PastSizes
<1>3. (t4.holds <=> WrongIgnored = {}) /\ (~t4.holds => t4.why # NoError)
    <2>1. WrongIgnored \subseteq Nat
        BY <1>2, GivenTypes DEF WrongIgnored
    <2>2. \A j \in WrongIgnored : [i \in WrongIgnored |-> IgnoredWhy(i)][j] # NoError
        BY DEF IgnoredWhy, NoError
    <2> QED
        BY <2>1, <2>2, WrongIsSaid
<1>4. (t7.holds <=> WrongLabels = {}) /\ (~t7.holds => t7.why # NoError)
    <2>1. WrongLabels \subseteq Nat
        BY <1>2, TableTypes DEF WrongLabels
    <2>2. \A j \in WrongLabels : [i \in WrongLabels |-> LabelWhy(i)][j] # NoError
        BY DEF LabelWhy, NoError
    <2> QED
        BY <2>1, <2>2, WrongIsSaid
<1>5. t1.why # NoError /\ t2.why # NoError /\ t3.why # NoError /\ t5.why # NoError /\ t6.why # NoError
    BY DEF Id, Ids, Test, NoError
<1>6. /\ t1.holds => grammar.dfa_start < grammar.dfa_states
      /\ t2.holds => grammar.parser_start < grammar.parser_states
      /\ t3.holds => grammar.eof < grammar.terminals
      /\ t5.holds => \A i \in 1..Len(grammar.byte_classes) :
                         grammar.byte_classes[i] < grammar.classes
      /\ t6.holds => \A i \in 1..Len(grammar.transitions) :
                         grammar.transitions[i] < grammar.dfa_states
    BY DEF Id, Ids, Test
<1> HIDE DEF t1, t2, t3, t4, t5, t6, t7
<1>7. /\ Len(tests) = 7
      /\ tests[1] = t1 /\ tests[2] = t2 /\ tests[3] = t3 /\ tests[4] = t4 /\ tests[5] = t5
      /\ tests[6] = t6 /\ tests[7] = t7
    OBVIOUS
<1> HIDE DEF tests
<1>8. \A i \in 1..7 : ~tests[i].holds => tests[i].why # NoError
    <2>1. \A i \in 1..7 : i = 1 \/ i = 2 \/ i = 3 \/ i = 4 \/ i = 5 \/ i = 6 \/ i = 7
        OBVIOUS
    <2> QED
        BY <1>3, <1>4, <1>5, <1>7, <2>1
<1>9. CASE (\A i \in 1..7 : tests[i].holds) /\ stage' = "actions" /\ error' = error
    <2>1. /\ tests[1].holds /\ tests[2].holds /\ tests[3].holds /\ tests[4].holds
          /\ tests[5].holds /\ tests[6].holds /\ tests[7].holds
        BY <1>9
    <2>2. IdsHold
        BY <1>3, <1>4, <1>6, <1>7, <2>1 DEF IdsHold
    <2>3. stage' \in PastTokens /\ stage' \notin PastActions
        BY <1>9 DEF PastTokens, PastLengths, PastIds, PastActions
    <2> QED
        BY <1>1, <1>2, <1>9, <2>2, <2>3, Advancing
<1> QED
    <2>1. \A i \in 1..Len(tests) : ~tests[i].holds => tests[i].why # NoError
        BY <1>7, <1>8
    <2>2. \/ (\A i \in 1..Len(tests) : tests[i].holds) /\ stage' = "actions" /\ error' = error
          \/ Checked'
        <3>1. Len(tests) \in Nat
            BY <1>7
        <3> QED
            BY <1>1, <1>2, <2>1, <3>1, StageEnds, Zenon
    <2> QED
        BY <1>7, <1>9, <2>2

LEMMA ChecksActions ==
    ASSUME Checked, CheckActions
    PROVE  Checked'
<1> DEFINE t1 == FirstWrong(WrongActions, [i \in WrongActions |-> ActionWhy(i)])
           t2 == Ids(grammar.gotos, grammar.parser_states, "ParserGotos")
           t3 == Ids(grammar.productions, grammar.nonterminals, "Productions")
           tests == <<t1, t2, t3>>
<1>1. /\ stage = "actions" /\ Pass(tests, "ignored")
      /\ UNCHANGED <<grammar, limits, index, work, bytes, kinds>>
    BY DEF CheckActions, Unread
<1>2. /\ SizesAreGood /\ LengthsHold /\ IdsHold /\ Given
      /\ stage \in PastTokens /\ stage \in PastSizes
    BY <1>1 DEF Checked, PastIds, PastLengths, PastTokens, PastSizes
<1>3. (t1.holds <=> WrongActions = {}) /\ (~t1.holds => t1.why # NoError)
    <2>1. WrongActions \subseteq Nat
        BY <1>2, TableTypes DEF WrongActions
    <2>2. \A j \in WrongActions : [i \in WrongActions |-> ActionWhy(i)][j] # NoError
        BY DEF ActionWhy, NoError
    <2> QED
        BY <2>1, <2>2, WrongIsSaid
<1>4. /\ t2.why # NoError /\ t3.why # NoError
      /\ t2.holds => \A i \in 1..Len(grammar.gotos) : grammar.gotos[i] < grammar.parser_states
      /\ t3.holds => \A i \in 1..Len(grammar.productions) :
                         grammar.productions[i] < grammar.nonterminals
    BY DEF Ids, Test, NoError
<1> HIDE DEF t1, t2, t3
<1>5. Len(tests) = 3 /\ tests[1] = t1 /\ tests[2] = t2 /\ tests[3] = t3
    OBVIOUS
<1> HIDE DEF tests
<1>6. \A i \in 1..3 : ~tests[i].holds => tests[i].why # NoError
    <2>1. \A i \in 1..3 : i = 1 \/ i = 2 \/ i = 3
        OBVIOUS
    <2> QED
        BY <1>3, <1>4, <1>5, <2>1
<1>7. CASE (\A i \in 1..3 : tests[i].holds) /\ stage' = "ignored" /\ error' = error
    <2>1. tests[1].holds /\ tests[2].holds /\ tests[3].holds
        BY <1>7
    <2>2. ActionsHold
        BY <1>3, <1>4, <1>5, <2>1 DEF ActionsHold
    <2>3. stage' \in PastTokens
        BY <1>7 DEF PastTokens, PastLengths, PastIds, PastActions
    <2> QED
        BY <1>1, <1>2, <1>7, <2>2, <2>3, Advancing
<1> QED
    <2>1. \A i \in 1..Len(tests) : ~tests[i].holds => tests[i].why # NoError
        BY <1>5, <1>6
    <2>2. \/ (\A i \in 1..Len(tests) : tests[i].holds) /\ stage' = "ignored" /\ error' = error
          \/ Checked'
        <3>1. Len(tests) \in Nat
            BY <1>5
        <3> QED
            BY <1>1, <1>2, <2>1, <3>1, StageEnds, Zenon
    <2> QED
        BY <1>5, <1>7, <2>2

LEMMA BuildsIgnored ==
    ASSUME Checked, BuildIgnored
    PROVE  Checked'
<1>1. PICK reserved \in BOOLEAN :
        Pass(<<Test(reserved, <<"AllocationFailure", "ParserIgnoredTerminals">>)>>, "accepted")
    BY DEF BuildIgnored
<1>2. /\ stage = "ignored" /\ UNCHANGED <<grammar, limits, index, work, bytes, kinds>>
    BY DEF BuildIgnored, Unread
<1>3. /\ SizesAreGood /\ LengthsHold /\ IdsHold /\ ActionsHold
      /\ stage \in PastTokens /\ stage \in PastSizes
    BY <1>2 DEF Checked, PastActions, PastIds, PastLengths, PastTokens, PastSizes
<1> DEFINE test == Test(reserved, <<"AllocationFailure", "ParserIgnoredTerminals">>)
           tests == <<test>>
<1>4. test.why # NoError
    BY DEF Test, NoError
<1> HIDE DEF test
<1>5. Len(tests) = 1 /\ (\A i \in 1..1 : tests[i] = test)
    OBVIOUS
<1>6. Pass(tests, "accepted")
    BY <1>1 DEF test
<1> HIDE DEF tests
<1>7. CASE stage' = "accepted" /\ error' = error
    <2>1. stage' \in PastTokens
        BY <1>7 DEF PastTokens, PastLengths, PastIds, PastActions
    <2> QED
        BY <1>2, <1>3, <1>7, <2>1, Advancing
<1> QED
    BY <1>2, <1>3, <1>4, <1>5, <1>6, <1>7, StageEnds
-----------------------------------------------------------------------------
LEMMA NextChecked ==
    ASSUME Checked, [Next]_vars
    PROVE  Checked'
<1>1. CASE UNCHANGED vars
    <2>1. UNCHANGED <<grammar, limits>>
        BY <1>1 DEF vars
    <2>2. /\ Given' = Given /\ SizesHold' = SizesHold /\ SizesAreGood' = SizesAreGood
          /\ LengthsHold' = LengthsHold /\ IdsHold' = IdsHold /\ ActionsHold' = ActionsHold
          /\ BaseWork' = BaseWork /\ \A n : BytesOf(n)' = BytesOf(n)
        BY <2>1, SameGrammar
    <2>3. Counted' = Counted
        BY <1>1, <2>2 DEF Counted, vars
    <2>4. TypeOK' = TypeOK
        BY <1>1 DEF TypeOK, vars
    <2> QED
        BY <1>1, <2>2, <2>3, <2>4 DEF Checked, vars
<1> QED
    BY <1>1, ChecksSizes, ChecksToken, ChecksTotals, ChecksLengths, ChecksIds, ChecksActions,
       BuildsIgnored DEF Next

LEMMA AlwaysChecked == Spec => []Checked
<1>1. Init => Checked
    BY InitChecked
<1>2. Checked /\ [Next]_vars => Checked'
    BY NextChecked
<1> QED
    BY <1>1, <1>2, PTL DEF Spec
-----------------------------------------------------------------------------
(* What is accepted.                                                         *)

LEMMA CellTypes ==
    ASSUME Given
    PROVE  /\ \A i \in 1..Len(grammar.byte_classes) : grammar.byte_classes[i] \in Nat
           /\ \A i \in 1..Len(grammar.transitions) : grammar.transitions[i] \in Nat \cup {Absent}
           /\ \A i \in 1..Len(grammar.labels) : grammar.labels[i] \in Nat \cup {Absent}
           /\ \A i \in 1..Len(grammar.gotos) : grammar.gotos[i] \in Nat \cup {Absent}
           /\ \A i \in 1..Len(grammar.productions) : grammar.productions[i] \in Nat
           /\ grammar.dfa_start \in Nat /\ grammar.parser_start \in Nat /\ grammar.eof \in Nat
<1>1. Max32 \in Nat /\ Count32 \subseteq Nat
    BY GivenTypes DEF Count32
<1>2. /\ grammar.byte_classes \in Seq(Count32)
      /\ {grammar.transitions, grammar.labels, grammar.gotos} \subseteq Seq(Count32 \cup {Absent})
      /\ grammar.productions \in Seq(Count32)
      /\ {grammar.dfa_start, grammar.parser_start, grammar.eof} \subseteq Count32
    BY ValidationAssumption DEF Given
<1>3. \A table \in Seq(Count32) : \A i \in 1..Len(table) : table[i] \in Nat
    <2>1. \A table \in Seq(Count32) : \A i \in 1..Len(table) : table[i] \in Count32
        BY ElementOfSeq
    <2> QED
        BY <1>1, <2>1, Zenon
<1>4. \A table \in Seq(Count32 \cup {Absent}) :
        \A i \in 1..Len(table) : table[i] \in Nat \cup {Absent}
    <2>1. \A table \in Seq(Count32 \cup {Absent}) :
            \A i \in 1..Len(table) : table[i] \in Count32 \cup {Absent}
        BY ElementOfSeq
    <2> QED
        BY <1>1, <2>1, Zenon
<1> QED
    BY <1>1, <1>2, <1>3, <1>4

LEMMA ActionTypes ==
    ASSUME Given, NEW i \in 1..Len(grammar.actions)
    PROVE  LET action == grammar.actions[i]
           IN \/ action.type = "error" \/ action.type = "accept"
              \/ action.type = "shift" /\ action.to \in Nat
              \/ action.type = "reduce" /\ action.production \in Nat
<1> DEFINE Kinds == [type : {"error", "accept"}] \cup [type : {"shift"}, to : Count32]
                      \cup [type : {"reduce"}, production : Count32]
<1>1. Count32 \subseteq Nat
    BY GivenTypes DEF Count32
<1>2. grammar.actions \in Seq(Kinds)
    BY ValidationAssumption DEF Given
<1>3. grammar.actions[i] \in Kinds
    <2> HIDE DEF Kinds
    <2> QED
        BY <1>2
<1> QED
    BY <1>1, <1>3

(* The three lookups of a row and a column.                                  *)
LEMMA TransitionsRun ==
    ASSUME Given, LengthsHold, IdsHold,
           NEW s \in 0..grammar.dfa_states - 1, NEW b \in 0..ByteTable - 1
    PROVE  Transition(s, b) \in (0..grammar.dfa_states - 1) \cup {Absent}
<1>1. /\ grammar.dfa_states \in Nat /\ grammar.classes \in Nat /\ ByteTable \in Nat
    BY GivenTypes
<1>2. b + 1 \in 1..Len(grammar.byte_classes)
    BY <1>1 DEF LengthsHold
<1> DEFINE class == grammar.byte_classes[b + 1]
           i == s * grammar.classes + class
<1>3. class \in 0..grammar.classes - 1
    <2>1. class \in Nat /\ class < grammar.classes
        BY <1>2, CellTypes DEF IdsHold
    <2> QED
        BY <1>1, <2>1
<1> HIDE DEF class
<1>4. i \in Nat /\ i < Len(grammar.transitions)
    <2>1. i \in Nat /\ i < grammar.dfa_states * grammar.classes
        BY <1>1, <1>3, CellInTable
    <2> QED
        BY <2>1 DEF LengthsHold, DfaCells
<1> HIDE DEF i
<1>5. i + 1 \in 1..Len(grammar.transitions)
    BY <1>4, TableTypes
<1>6. Transition(s, b) = grammar.transitions[i + 1]
    <2>1. ~(s >= grammar.dfa_states)
        BY <1>1
    <2> QED
        BY <1>4, <2>1 DEF Transition, Cell, i, class
<1>7. grammar.transitions[i + 1] \in Nat \cup {Absent}
    BY <1>5, CellTypes
<1>8. grammar.transitions[i + 1] < grammar.dfa_states
    BY <1>5 DEF IdsHold
<1> QED
    BY <1>1, <1>6, <1>7, <1>8

LEMMA GotosRun ==
    ASSUME Given, LengthsHold, ActionsHold,
           NEW s \in 0..grammar.parser_states - 1, NEW n \in 0..grammar.nonterminals - 1
    PROVE  GotoAt(s, n) \in (0..grammar.parser_states - 1) \cup {Absent}
<1>1. /\ grammar.parser_states \in Nat /\ grammar.nonterminals \in Nat
    BY GivenTypes
<1> DEFINE i == s * grammar.nonterminals + n
<1>2. i \in Nat /\ i < Len(grammar.gotos)
    <2>1. i \in Nat /\ i < grammar.parser_states * grammar.nonterminals
        BY <1>1, CellInTable
    <2> QED
        BY <2>1 DEF LengthsHold, GotoCells
<1> HIDE DEF i
<1>3. i + 1 \in 1..Len(grammar.gotos)
    BY <1>2, TableTypes
<1>4. GotoAt(s, n) = grammar.gotos[i + 1]
    <2>1. ~(s >= grammar.parser_states) /\ ~(n >= grammar.nonterminals)
        BY <1>1
    <2> QED
        BY <1>2, <2>1 DEF GotoAt, Cell, i
<1>5. grammar.gotos[i + 1] \in Nat \cup {Absent}
    BY <1>3, CellTypes
<1>6. grammar.gotos[i + 1] < grammar.parser_states
    BY <1>3 DEF ActionsHold
<1> QED
    BY <1>1, <1>4, <1>5, <1>6

LEMMA ActionsRun ==
    ASSUME Given, LengthsHold, IdsHold, ActionsHold,
           NEW s \in 0..grammar.parser_states - 1, NEW t \in 0..grammar.terminals - 1
    PROVE  LET action == ActionAt(s, t)
           IN \/ action.type = "error"
              \/ action.type = "shift" /\ action.to \in 0..grammar.parser_states - 1
              \/ /\ action.type = "reduce"
                 /\ Cell(grammar.productions, action.production) \in 0..grammar.nonterminals - 1
              \/ action.type = "accept" /\ t = grammar.eof
<1>1. /\ grammar.parser_states \in Nat /\ grammar.terminals \in Nat /\ grammar.nonterminals \in Nat
      /\ Len(grammar.productions) \in Nat
    BY GivenTypes
<1> DEFINE i == s * grammar.terminals + t
           action == grammar.actions[i + 1]
<1>2. i \in Nat /\ i < Len(grammar.actions) /\ i % grammar.terminals = t
    <2>1. /\ i \in Nat /\ i < grammar.parser_states * grammar.terminals
          /\ i % grammar.terminals = t
        BY <1>1, CellInTable
    <2> QED
        BY <2>1 DEF LengthsHold, ActionCells
<1>3. ActionAt(s, t) = action
    <2>1. ~(s >= grammar.parser_states \/ t >= grammar.terminals)
        BY <1>1
    <2> QED
        BY <1>2, <2>1 DEF ActionAt
<1> HIDE DEF i
<1>4. i + 1 \in 1..Len(grammar.actions)
    BY <1>2, TableTypes
<1>5. Column(i + 1) = t
    <2>1. (i + 1) - 1 = i
        BY <1>2
    <2> QED
        BY <1>2, <2>1 DEF Column
<1>6. ~ActionWrong(action, t)
    BY <1>4, <1>5 DEF ActionsHold, WrongActions
<1>7. \/ action.type = "error" \/ action.type = "accept"
      \/ action.type = "shift" /\ action.to \in Nat
      \/ action.type = "reduce" /\ action.production \in Nat
    BY <1>4, ActionTypes
<1> HIDE DEF action
<1>8. CASE action.type = "error" \/ action.type = "accept"
    BY <1>3, <1>6, <1>8 DEF ActionWrong
<1>9. CASE action.type = "shift" /\ action.to \in Nat
    <2>1. action.to < grammar.parser_states
        BY <1>1, <1>6, <1>9 DEF ActionWrong
    <2> QED
        BY <1>1, <1>3, <1>9, <2>1
<1>10. CASE action.type = "reduce" /\ action.production \in Nat
    <2> DEFINE p == action.production
    <2>1. p \in Nat /\ p < Len(grammar.productions)
        BY <1>1, <1>6, <1>10 DEF ActionWrong
    <2>2. p + 1 \in 1..Len(grammar.productions)
        BY <1>1, <2>1
    <2>3. grammar.productions[p + 1] \in Nat /\ grammar.productions[p + 1] < grammar.nonterminals
        BY <2>2, CellTypes DEF ActionsHold
    <2>4. Cell(grammar.productions, p) \in 0..grammar.nonterminals - 1
        BY <1>1, <2>1, <2>3 DEF Cell
    <2> QED
        BY <1>3, <1>10, <2>4
<1> QED
    BY <1>7, <1>8, <1>9, <1>10

LEMMA LabelsRun ==
    ASSUME Given, LengthsHold, IdsHold, NEW s \in 0..grammar.dfa_states - 1
    PROVE  /\ Terminal(s) \in ((0..grammar.terminals - 1) \cup {Absent}) \ {grammar.eof}
           /\ s = grammar.dfa_start => Terminal(s) = Absent
<1>1. grammar.dfa_states \in Nat /\ grammar.terminals \in Nat /\ grammar.eof \in Nat
    BY GivenTypes, CellTypes
<1> DEFINE label == grammar.labels[s + 1]
<1>2. s + 1 \in 1..Len(grammar.labels) /\ (s + 1) - 1 = s
    BY <1>1 DEF LengthsHold
<1>3. Terminal(s) = label
    <2>1. ~(s >= grammar.dfa_states) /\ s < Len(grammar.labels)
        BY <1>1 DEF LengthsHold
    <2> QED
        BY <2>1 DEF Terminal, Cell
<1>4. label \in Nat \cup {Absent}
    BY <1>2, CellTypes
<1>5. label # Absent => /\ ~(label >= grammar.terminals) /\ s # grammar.dfa_start
                        /\ label # grammar.eof
    BY <1>2 DEF IdsHold, WrongLabels
<1>6. Absent # grammar.eof
    BY <1>1 DEF Absent
<1> QED
    BY <1>1, <1>3, <1>4, <1>5, <1>6

LEMMA AcceptedRun ==
    ASSUME Given, LengthsHold, IdsHold, ActionsHold
    PROVE  AcceptedTablesRun
<1>1. /\ grammar.dfa_states \in Nat /\ grammar.parser_states \in Nat /\ grammar.terminals \in Nat
      /\ grammar.dfa_start \in Nat /\ grammar.parser_start \in Nat /\ grammar.eof \in Nat
      /\ Len(grammar.ignored) \in Nat
    BY GivenTypes, CellTypes
<1>2. grammar.dfa_start \in 0..grammar.dfa_states - 1
    BY <1>1 DEF IdsHold
<1>3. grammar.parser_start \in 0..grammar.parser_states - 1
    BY <1>1 DEF IdsHold
<1>4. grammar.eof \in 0..grammar.terminals - 1
    BY <1>1 DEF IdsHold
<1>5. ~IsIgnored(grammar.eof)
    BY DEF IdsHold, WrongIgnored, IsIgnored
<1>6. Terminal(grammar.dfa_start) = Absent
    BY <1>2, LabelsRun
<1>7. \A s \in 0..grammar.dfa_states - 1 :
        /\ Terminal(s) \in ((0..grammar.terminals - 1) \cup {Absent}) \ {grammar.eof}
        /\ \A b \in 0..ByteTable - 1 : Transition(s, b) \in (0..grammar.dfa_states - 1) \cup {Absent}
    BY LabelsRun, TransitionsRun
<1>8. \A s \in 0..grammar.parser_states - 1, t \in 0..grammar.terminals - 1 :
        LET action == ActionAt(s, t)
        IN \/ action.type = "error"
           \/ action.type = "shift" /\ action.to \in 0..grammar.parser_states - 1
           \/ /\ action.type = "reduce"
              /\ Cell(grammar.productions, action.production) \in 0..grammar.nonterminals - 1
           \/ action.type = "accept" /\ t = grammar.eof
    BY ActionsRun
<1>9. \A s \in 0..grammar.parser_states - 1, n \in 0..grammar.nonterminals - 1 :
        GotoAt(s, n) \in (0..grammar.parser_states - 1) \cup {Absent}
    BY GotosRun
<1> QED
    BY <1>2, <1>3, <1>4, <1>5, <1>6, <1>7, <1>8, <1>9, Zenon DEF AcceptedTablesRun
-----------------------------------------------------------------------------
(* Every variable of the check has its type, work and bytes included: no     *)
(* count of validate.rs exceeds its width.                                   *)
THEOREM ValidationIsTyped == Spec => []TypeOK
<1>1. Checked => TypeOK
    BY DEF Checked
<1> QED
    BY <1>1, AlwaysChecked, PTL

(* No table is looked at before the limits are known to hold of the declared *)
(* sizes (the order of the tests in validate).                               *)
THEOREM SizesComeFirst == Spec => []SizesBeforeTables
<1>1. Checked => SizesBeforeTables
    BY DEF Checked, SizesBeforeTables, OfTables, PastTokens, PastLengths, PastIds, PastActions
<1> QED
    BY <1>1, AlwaysChecked, PTL

(* The token loop of validate_declared_sizes counts every byte it has passed *)
(* exactly once, and never beyond a limit.                                   *)
THEOREM CountingIsExact == Spec => []TokensAreCounted
<1>1. Checked => TokensAreCounted
    <2> SUFFICES ASSUME Checked, stage \in {"tokens", "tables"} PROVE TokensAreCounted
        BY DEF TokensAreCounted
    <2>1. Counted
        BY DEF Checked, PastSizes, PastTokens
    <2> QED
        BY <2>1 DEF Counted, TokensAreCounted
<1> QED
    BY <1>1, AlwaysChecked, PTL

(* Whatever passes the check can be run: no lookup of normalized.rs by a     *)
(* valid id misses its cell, or finds there an id that is not valid.         *)
THEOREM AcceptedCanRun == Spec => []AcceptedTablesRun
<1>1. Checked => AcceptedTablesRun
    <2> SUFFICES ASSUME Checked, stage = "accepted" PROVE AcceptedTablesRun
        BY DEF AcceptedTablesRun
    <2>1. Given /\ LengthsHold /\ IdsHold /\ ActionsHold
        BY DEF Checked, PastActions, PastIds, PastLengths
    <2> QED
        BY <2>1, AcceptedRun
<1> QED
    BY <1>1, AlwaysChecked, PTL
=============================================================================
