-------------------------- MODULE DfaExportProofs --------------------------
(* The export of the lexer and what it means, for every automaton, alphabet, *)
(* list of terminals and limit: what is stored is within the limits, and a   *)
(* lexer that is exported, run by the core, reads every input as the         *)
(* library's automaton does (ExportedLexerMunches).                          *)
EXTENDS MaximalMunch, SequenceTheorems, FiniteSetTheorems, NaturalsInduction,
        WellFoundedInduction, TLAPS
-----------------------------------------------------------------------------
(* Indices, and what a fold over a list computes.                            *)

(* Every nonempty set of naturals has a least element.                       *)
LEMMA LeastExists ==
    ASSUME NEW numbers, numbers \subseteq Nat, numbers # {}
    PROVE  \E k \in numbers : \A j \in numbers : k <= j
<1>1. PICK k \in numbers : \A j \in numbers : <<j, k>> \notin OpToRel(<, Nat)
    BY WFMin, NatLessThanWellFounded, Zenon
<1>2. \A j \in numbers : ~(j < k)
    BY <1>1, Zenon DEF OpToRel
<1> QED
    BY <1>2

(* A nonempty set of indices has a largest.                                  *)
LEMMA MaxOfIndices ==
    ASSUME NEW n \in Nat, NEW S, S \subseteq 1..n, S # {}
    PROVE  Max(S) \in S /\ \A i \in S : i <= Max(S)
<1> DEFINE gaps == {n - i : i \in S}
<1>1. gaps \subseteq Nat /\ gaps # {}
    <2>1. \A i \in S : n - i \in Nat
        OBVIOUS
    <2> QED
        BY <2>1
<1>2. PICK g \in gaps : \A h \in gaps : g <= h
    <2> HIDE DEF gaps
    <2> QED
        BY <1>1, LeastExists
<1>3. PICK k \in S : g = n - k
    OBVIOUS
<1>4. \A i \in S : i <= k
    <2> TAKE i \in S
    <2>1. n - k <= n - i
        BY <1>2, <1>3
    <2> HIDE DEF gaps
    <2> QED
        BY <2>1
<1> HIDE DEF gaps
<1> QED
    BY <1>3, <1>4 DEF Max

(* What a fold over the places of a list computes: the equation it is        *)
(* defined by has a solution.                                                *)
IsFold(f, n, base, op) ==
    f = [S \in SUBSET (1..n) |-> IF S = {} THEN base ELSE op[<<f[S \ {Max(S)}], Max(S)>>]]

(* FoldLeft is a choice among the functions on sets of indices that fold     *)
(* them from the last to the first: there is one. That the sets are all      *)
(* subsets of 1..n is how the community modules define it.                   *)
LEMMA FoldExists ==
    ASSUME NEW n \in Nat, NEW T, NEW base \in T, NEW op \in [T \X (1..n) -> T]
    PROVE  \E f \in [SUBSET (1..n) -> T] : IsFold(f, n, base, op)
<1> DEFINE Exists(k) == \E f \in [SUBSET (1..k) -> T] : IsFold(f, k, base, op)
           failing == {k \in 0..n : ~Exists(k)}
<1>1. n \in 0..n
    OBVIOUS
<1> SUFFICES ASSUME failing # {} PROVE FALSE
    BY <1>1
<1>2. failing \subseteq Nat
    OBVIOUS
<1> HIDE DEF failing
<1>3. PICK k \in failing : \A j \in failing : k <= j
    BY <1>2, LeastExists
<1>4. k \in 0..n /\ ~Exists(k)
    BY DEF failing
<1>5. k # 0
    <2> DEFINE f == [S \in SUBSET (1..0) |-> base]
    <2>1. \A S \in SUBSET (1..0) : S = {}
        OBVIOUS
    <2>2. IsFold(f, 0, base, op) /\ f \in [SUBSET (1..0) -> T]
        BY <2>1 DEF IsFold
    <2> HIDE DEF f
    <2> QED
        BY <1>4, <2>2
<1>6. Exists(k - 1)
    <2>1. k - 1 \in 0..n /\ ~(k <= k - 1)
        BY <1>4, <1>5
    <2>2. k - 1 \notin failing
        BY <1>3, <2>1
    <2> QED
        BY <2>1, <2>2 DEF failing
<1>7. PICK g \in [SUBSET (1..(k - 1)) -> T] : IsFold(g, k - 1, base, op)
    BY <1>6
<1>8. \A S \in SUBSET (1..(k - 1)) :
        g[S] = IF S = {} THEN base ELSE op[<<g[S \ {Max(S)}], Max(S)>>]
    BY <1>7 DEF IsFold
<1>9. k \in Nat /\ k \in 1..n
    BY <1>4, <1>5
<1> DEFINE f == [S \in SUBSET (1..k) |-> IF k \in S THEN op[<<g[S \ {k}], k>>] ELSE g[S]]
<1>10. ASSUME NEW S \in SUBSET (1..k)
       PROVE  f[S] \in T /\ f[S] = IF S = {} THEN base ELSE op[<<f[S \ {Max(S)}], Max(S)>>]
    <2>1. CASE k \in S
        <3>1. Max(S) = k
            <4> HIDE DEF f
            <4>1. Max(S) \in S /\ k <= Max(S)
                BY <1>9, <2>1, MaxOfIndices
            <4>2. Max(S) \in 1..k
                BY <4>1
            <4> QED
                BY <4>1, <4>2, <1>9
        <3>2. S \ {k} \in SUBSET (1..k) /\ k \notin S \ {k} /\ S \ {k} \in SUBSET (1..(k - 1))
            BY <1>9
        <3>3. f[S \ {k}] = g[S \ {k}] /\ f[S] = op[<<g[S \ {k}], k>>]
            BY <3>2, <2>1
        <3>4. g[S \ {k}] \in T
            BY <3>2, <1>7
        <3> HIDE DEF f
        <3> QED
            BY <2>1, <3>1, <3>3, <3>4, <1>9
    <2>2. CASE k \notin S
        <3>1. S \in SUBSET (1..(k - 1))
            BY <2>2, <1>9
        <3>2. f[S] = g[S] /\ g[S] \in T
            BY <2>2, <3>1, <1>7
        <3>3. CASE S # {}
            <4>1. Max(S) \in S
                BY <1>9, <3>3, MaxOfIndices
            <4>2. S \ {Max(S)} \in SUBSET (1..k) /\ k \notin S \ {Max(S)}
                BY <2>2
            <4>3. f[S \ {Max(S)}] = g[S \ {Max(S)}]
                BY <4>2
            <4>4. g[S] = op[<<g[S \ {Max(S)}], Max(S)>>]
                BY <3>1, <3>3, <1>8
            <4> HIDE DEF f
            <4> QED
                BY <3>2, <3>3, <4>3, <4>4
        <3>4. CASE S = {}
            <4>1. g[S] = base
                BY <3>1, <3>4, <1>8
            <4> HIDE DEF f
            <4> QED
                BY <3>2, <3>4, <4>1
        <3> QED
            BY <3>3, <3>4
    <2> QED
        BY <2>1, <2>2
<1>11. f = [S \in SUBSET (1..k) |-> f[S]]
    OBVIOUS
<1>12. IsFold(f, k, base, op) /\ f \in [SUBSET (1..k) -> T]
    <2> HIDE DEF f
    <2>1. IsFold(f, k, base, op)
        BY <1>10, <1>11, Zenon DEF IsFold
    <2>2. f \in [SUBSET (1..k) -> T]
        BY <1>10, <1>11, Zenon
    <2> QED
        BY <2>1, <2>2
<1> HIDE DEF f
<1> QED
    BY <1>4, <1>12

(* A fold from the left does the steps in order.                             *)
LEMMA FoldSteps ==
    ASSUME NEW n \in Nat, NEW base, NEW op, NEW f, IsFold(f, n, base, op), NEW k \in 0..n
    PROVE  f[1..k] = IF k = 0 THEN base ELSE op[<<f[1..(k - 1)], k>>]
<1>1. 1..k \in SUBSET (1..n) /\ (1..k = {} <=> k = 0)
    OBVIOUS
<1>2. k # 0 => Max(1..k) = k /\ (1..k) \ {Max(1..k)} = 1..(k - 1)
    <2> SUFFICES ASSUME k # 0 PROVE Max(1..k) = k /\ (1..k) \ {Max(1..k)} = 1..(k - 1)
        OBVIOUS
    <2>1. 1..k \subseteq 1..n /\ 1..k # {} /\ k \in 1..k
        BY <1>1
    <2>2. Max(1..k) \in 1..k /\ k <= Max(1..k)
        BY <2>1, MaxOfIndices
    <2>3. Max(1..k) = k
        BY <2>2
    <2>4. (1..k) \ {k} = 1..(k - 1)
        OBVIOUS
    <2> QED
        BY <2>3, <2>4
<1>3. f[1..k] = IF 1..k = {} THEN base ELSE op[<<f[(1..k) \ {Max(1..k)}], Max(1..k)>>]
    BY <1>1 DEF IsFold
<1> QED
    BY <1>1, <1>2, <1>3
-----------------------------------------------------------------------------
(* The export of the lexer.                                                  *)

(* A nonempty set of numbers has the least of them.                          *)
LEMMA LeastIsIn ==
    ASSUME NEW numbers, numbers \subseteq Nat, numbers # {}
    PROVE  Min(numbers) \in numbers
<1>1. PICK k \in numbers : \A j \in numbers : <<j, k>> \notin OpToRel(<, Nat)
    BY WFMin, NatLessThanWellFounded, Zenon
<1>2. \A j \in numbers : ~(j < k)
    BY <1>1, Zenon DEF OpToRel
<1>3. \A j \in numbers : k <= j
    BY <1>2
<1> QED
    BY <1>3 DEF Min

(* resolve_label: what it looks at and what it finds.                        *)
LEMMA WinnerIsAName ==
    ASSUME NEW names \in Seq(Names)
    PROVE  Winner(names) \in Names \cup {NoName}
<1>1. CASE names = <<>>
    BY <1>1 DEF Winner
<1>2. CASE names # <<>>
    <2> DEFINE priorities == {Priority[name] : name \in Range(names)}
    <2>1. Range(names) \subseteq Names /\ names[1] \in Range(names)
        BY <1>2 DEF Range
    <2>2. priorities \subseteq Nat /\ priorities # {}
        BY <2>1, ExportAssumption
    <2>3. Min(priorities) \in priorities
        BY <2>2, LeastIsIn
    <2>4. PICK name \in Range(names) : Priority[name] = Best(names)
        BY <2>3 DEF Best
    <2>5. Winner(names) \in Range(names)
        BY <1>2, <2>4 DEF Winner
    <2> QED
        BY <2>1, <2>5
<1> QED
    BY <1>1, <1>2

Looked(names) == IF Ties(names) = {} THEN Len(names) ELSE Min(Ties(names))

(* How many terminals are looked at.                                         *)
LEMMA LookedIsANumber ==
    ASSUME NEW names \in Seq(Names)
    PROVE  Looked(names) \in Nat
<1>1. Ties(names) \subseteq Nat
    BY DEF Ties
<1> QED
    BY <1>1, LeastIsIn DEF Looked
-----------------------------------------------------------------------------
(* The states are those of the automaton, each met once; the row that is     *)
(* being copied is not full.                                                 *)
IndicesOf(n) == Seq(0..n)
ExportTyped ==
    /\ automaton \in Automata /\ limits \in LimitsTried
    /\ stage \in {"start", "label", "byte", "done", "failed"}
    /\ stage = "failed" <=> error # "none"
    /\ spent \in Nat
StatesMet ==
    /\ states \in Seq(DOMAIN automaton.next)
    /\ \A i, j \in 1..Len(states) : states[i] = states[j] => i = j
Copied ==
    /\ labels \in Seq(Names \cup {NoName})
    /\ transitions \in Seq(IndicesOf(Len(states)))
    /\ Len(labels) = Len(transitions) /\ Len(labels) <= Len(states)
    /\ stage = "start" => Len(states) = 0
    /\ stage = "byte" => Len(labels) > 0 /\ Len(Row) < ClassCount
ExportSound == ExportTyped /\ StatesMet /\ Copied /\ WithinLimits

(* The export starts with nothing.                                           *)
LEMMA ExportStarts == Init => ExportSound
<1> SUFFICES ASSUME Init PROVE ExportSound
    OBVIOUS
<1>1. ExportTyped /\ Len(states) = 0 /\ Len(labels) = 0 /\ Len(transitions) = 0
    BY DEF Init, ExportTyped
<1>2. limits.work \in Nat /\ limits.states \in Nat /\ limits.cells \in Nat /\ ClassCount \in Nat
    BY ExportAssumption DEF Init
<1>3. StatesMet /\ Copied
    BY <1>1 DEF Init, StatesMet, Copied
<1>4. WithinLimits
    BY <1>1, <1>2 DEF Init, WithinLimits
<1> QED
    BY <1>1, <1>3, <1>4 DEF ExportSound

(* A failure leaves the tables as they are.                                  *)
LEMMA ExportFailures ==
    ASSUME ExportSound, NEW why, why # "none", Fail(why)
    PROVE  ExportSound'
BY DEF ExportSound, ExportTyped, StatesMet, Copied, WithinLimits, Fail, Row

(* One action after another.                                                 *)
LEMMA OneState ==
    ASSUME NEW S, NEW state \in S
    PROVE  <<state>> \in Seq(S)
OBVIOUS

LEMMA ExportBegins ==
    ASSUME ExportSound, Begin
    PROVE  ExportSound'
<1>1. CASE RoomFor(1) /\ states' = <<automaton.start>> /\ stage' = "label"
           /\ UNCHANGED <<automaton, limits, labels, transitions, spent, error>>
    <2>1. automaton.start \in DOMAIN automaton.next
        BY ExportAssumption DEF ExportSound, ExportTyped
    <2>2. Len(states) = 0 /\ Len(labels) = 0 /\ Len(transitions) = 0 /\ Len(states') = 1
        BY <1>1 DEF ExportSound, Copied, Begin
    <2>3. StatesMet'
        <3>1. <<automaton.start>> \in Seq(DOMAIN automaton.next)
            BY <2>1, OneState, Zenon
        <3> QED
            BY <1>1, <2>2, <3>1 DEF StatesMet
    <2>4. Copied'
        <3>1. labels = <<>> /\ transitions = <<>>
            BY <2>2 DEF ExportSound, Copied
        <3> QED
            BY <1>1, <2>2, <3>1 DEF Copied, IndicesOf
    <2>5. ExportTyped' /\ WithinLimits'
        BY <1>1, <2>2 DEF ExportSound, ExportTyped, WithinLimits, RoomFor, Begin
    <2> QED
        BY <2>3, <2>4, <2>5 DEF ExportSound
<1>2. CASE NoRoom(1)
    BY <1>2, ExportFailures DEF NoRoom
<1> QED
    BY <1>1, <1>2 DEF Begin

LEMMA ExportLabels ==
    ASSUME ExportSound, LabelState
    PROVE  ExportSound'
<1> DEFINE names == automaton.accepts[states[Len(labels) + 1]]
<1>1. names \in Seq(Names)
    BY ExportAssumption DEF ExportSound, ExportTyped, StatesMet, Copied, LabelState
<1>2. Looked(names) \in Nat /\ Winner(names) \in Names \cup {NoName}
    BY <1>1, LookedIsANumber, WinnerIsAName
<1>3. CASE /\ CanCharge(Looked(names)) /\ spent' = spent + Looked(names)
           /\ labels' = Append(labels, Winner(names))
           /\ transitions' = Append(transitions, <<>>)
           /\ stage' = "byte"
           /\ UNCHANGED <<automaton, limits, states, error>>
    <2>1. ExportTyped' /\ StatesMet'
        <3>1. spent' \in Nat
            BY <1>2, <1>3 DEF ExportSound, ExportTyped
        <3>2. stage = "label" /\ error = "none"
            BY DEF ExportSound, ExportTyped, LabelState
        <3> QED
            BY <1>3, <3>1, <3>2 DEF ExportSound, ExportTyped, StatesMet
    <2>2. labels' \in Seq(Names \cup {NoName}) /\ transitions' \in Seq(IndicesOf(Len(states)))
        BY <1>2, <1>3 DEF ExportSound, Copied, IndicesOf
    <2>3. Len(labels') = Len(labels) + 1 /\ Len(transitions') = Len(labels) + 1 /\ Row' = <<>>
        BY <1>3 DEF ExportSound, Copied, Row, Last
    <2>4. Len(labels) < Len(states) /\ ClassCount > 0
        BY ExportAssumption DEF LabelState
    <2>5. Copied'
        BY <1>3, <2>2, <2>3, <2>4 DEF ExportSound, Copied
    <2>6. WithinLimits'
        BY <1>3 DEF ExportSound, WithinLimits, CanCharge
    <2> QED
        BY <2>1, <2>5, <2>6 DEF ExportSound
<1>4. CASE Fail("CompilerWorkLimit") \/ Fail("AmbiguousPriority")
    BY <1>4, ExportFailures
<1> QED
    BY <1>3, <1>4 DEF LabelState, Looked

(* A state gets the index it has, or the next.                               *)
LEMMA IndexIsRight ==
    ASSUME NEW state
    PROVE  /\ IndexOf(state) \in 0..Len(states) + 1
           /\ IndexOf(state) > Len(states) =>
                /\ IndexOf(state) = Len(states) + 1 /\ state # Dead
                /\ \A i \in 1..Len(states) : states[i] # state
<1>1. CASE \E i \in 1..Len(states) : states[i] = state
    BY <1>1 DEF IndexOf, Contains
<1>2. CASE ~\E i \in 1..Len(states) : states[i] = state
    BY <1>2 DEF IndexOf, Contains, ExportSound, StatesMet
<1> QED
    BY <1>1, <1>2
(* A new state at the end keeps the sequence without repetition.             *)
LEMMA OneMoreState ==
    ASSUME NEW S, NEW met \in Seq(S), NEW state \in S,
           \A i, j \in 1..Len(met) : met[i] = met[j] => i = j,
           \A i \in 1..Len(met) : met[i] # state
    PROVE  /\ Append(met, state) \in Seq(S) /\ Len(Append(met, state)) = Len(met) + 1
           /\ \A i, j \in 1..Len(met) + 1 : Append(met, state)[i] = Append(met, state)[j] => i = j
<1>1. \A i \in 1..Len(met) + 1 : Append(met, state)[i] = IF i = Len(met) + 1 THEN state ELSE met[i]
    OBVIOUS
<1>2. \A i \in 1..Len(met) + 1 : i = Len(met) + 1 \/ i \in 1..Len(met)
    OBVIOUS
<1> QED
    BY <1>1, <1>2

LEMMA ExportSteps ==
    ASSUME ExportSound, StepByte
    PROVE  ExportSound'
<1> DEFINE next == automaton.next[states[Len(labels)]][Len(Row) + 1]
           place == IndexOf(next)
           isNew == place > Len(states)
<1> HIDE DEF next, place, isNew
<1>1. CASE /\ CanCharge(1) /\ (isNew => RoomFor(place))
           /\ spent' = spent + 1
           /\ states' = IF isNew THEN Append(states, next) ELSE states
           /\ transitions' = [transitions EXCEPT ![Len(transitions)] = Append(@, place)]
           /\ stage' = IF Len(Row) + 1 = ClassCount THEN "label" ELSE "byte"
           /\ UNCHANGED <<automaton, limits, labels, error>>
    <2>1. /\ states \in Seq(DOMAIN automaton.next) /\ transitions \in Seq(IndicesOf(Len(states)))
          /\ Len(labels) = Len(transitions) /\ Len(labels) > 0 /\ Len(labels) <= Len(states)
          /\ Len(Row) < ClassCount /\ Row = transitions[Len(transitions)]
          /\ Row \in IndicesOf(Len(states))
        BY DEF ExportSound, StatesMet, Copied, StepByte, Row, Last
    <2>2. next \in DOMAIN automaton.next \cup {Dead}
        <3>1. Len(Row) + 1 \in Classes
            BY <2>1, ExportAssumption DEF Classes, IndicesOf
        <3> QED
            BY <2>1, <3>1, ExportAssumption DEF ExportSound, ExportTyped, next
    <2>3. /\ states' \in Seq(DOMAIN automaton.next) /\ Len(states') \in Nat
          /\ Len(states) <= Len(states') /\ place \in 0..Len(states')
          /\ \A i, j \in 1..Len(states') : states'[i] = states'[j] => i = j
        <3>1. CASE isNew
            <4>1. place = Len(states) + 1 /\ next \in DOMAIN automaton.next
                  /\ \A i \in 1..Len(states) : states[i] # next
                BY <2>2, <3>1, IndexIsRight DEF place, isNew
            <4>2. states' = Append(states, next)
                BY <1>1, <3>1
            <4>3. \A i, j \in 1..Len(states) : states[i] = states[j] => i = j
                BY DEF ExportSound, StatesMet
            <4>4. states \in Seq(DOMAIN automaton.next)
                BY <2>1
            <4>5. /\ Append(states, next) \in Seq(DOMAIN automaton.next)
                  /\ Len(Append(states, next)) = Len(states) + 1
                  /\ \A i, j \in 1..Len(states) + 1 :
                        Append(states, next)[i] = Append(states, next)[j] => i = j
                BY <4>1, <4>3, <4>4, OneMoreState
            <4> QED
                BY <2>1, <4>1, <4>2, <4>5
        <3>2. CASE ~isNew
            BY <1>1, <2>1, <3>2, IndexIsRight DEF ExportSound, StatesMet, place, isNew
        <3> QED
            BY <3>1, <3>2
    <2>4. transitions' \in Seq(IndicesOf(Len(states'))) /\ Len(transitions') = Len(transitions)
          /\ Row' = Append(Row, place)
        <3>1. IndicesOf(Len(states)) \subseteq IndicesOf(Len(states'))
            BY <2>1, <2>3 DEF IndicesOf
        <3>2. Append(Row, place) \in IndicesOf(Len(states'))
            BY <2>1, <2>3, <3>1 DEF IndicesOf
        <3>3. transitions' = [transitions EXCEPT ![Len(transitions)] = Append(Row, place)]
            BY <1>1, <2>1
        <3>4. transitions \in Seq(IndicesOf(Len(states')))
            BY <2>1, <3>1
        <3> QED
            BY <2>1, <3>2, <3>3, <3>4 DEF Row, Last
    <2>5. ExportTyped' /\ StatesMet'
        BY <1>1, <2>3 DEF ExportSound, ExportTyped, StatesMet, StepByte
    <2>6. Copied'
        <3>1. Len(Row') = Len(Row) + 1 /\ Len(Row) \in Nat
            BY <2>1, <2>4 DEF IndicesOf
        <3>2. stage' = "byte" => Len(Row') < ClassCount
            BY <1>1, <2>1, <3>1, ExportAssumption
        <3>3. stage' \in {"label", "byte"} /\ labels' = labels
            BY <1>1
        <3>4. labels \in Seq(Names \cup {NoName}) /\ Len(labels) \in Nat
            BY DEF ExportSound, Copied
        <3> QED
            BY <2>1, <2>3, <2>4, <3>2, <3>3, <3>4 DEF Copied
    <2>7. WithinLimits'
        <3>1. spent' <= limits'.work
            BY <1>1 DEF CanCharge
        <3>2. isNew => Len(states') = place
            BY <1>1, <2>1, IndexIsRight DEF place, isNew
        <3> QED
            BY <1>1, <3>1, <3>2 DEF ExportSound, WithinLimits, RoomFor
    <2> QED
        BY <2>5, <2>6, <2>7 DEF ExportSound
<1>2. CASE Fail("CompilerWorkLimit") \/ NoRoom(place)
    BY <1>2, ExportFailures DEF NoRoom
<1> QED
    BY <1>1, <1>2 DEF StepByte, next, place, isNew

LEMMA ExportChecks ==
    ASSUME ExportSound, Check
    PROVE  ExportSound'
<1>1. Len(states) \in Nat /\ ClassCount \in Nat
    BY ExportAssumption DEF ExportSound, StatesMet
<1>2. Len(states) * ClassCount \in Nat
    BY <1>1
<1>3. CASE /\ CanCharge(Len(states) * ClassCount)
           /\ spent' = spent + Len(states) * ClassCount
           /\ stage' = "done"
           /\ UNCHANGED <<automaton, limits, states, labels, transitions, error>>
    <2>1. spent' \in Nat /\ spent' <= limits.work
        BY <1>2, <1>3 DEF ExportSound, ExportTyped, CanCharge
    <2>2. ExportTyped' /\ StatesMet' /\ Copied'
        BY <1>3, <2>1 DEF ExportSound, ExportTyped, StatesMet, Copied, Check
    <2>3. WithinLimits'
        BY <1>3, <2>1 DEF ExportSound, WithinLimits
    <2> QED
        BY <2>2, <2>3 DEF ExportSound
<1>4. CASE Fail("CompilerWorkLimit") \/ Fail("UnsupportedLexerBoundary")
    BY <1>4, ExportFailures
<1> QED
    BY <1>3, <1>4 DEF Check
-----------------------------------------------------------------------------
(* The invariant of the export.                                              *)
LEMMA ExportIsSound == Spec => []ExportSound
<1>1. ExportSound /\ [Next]_vars => ExportSound'
    <2> SUFFICES ASSUME ExportSound, [Next]_vars PROVE ExportSound'
        OBVIOUS
    <2>1. CASE LibraryGivesUp \/ LibraryOutgrows
        BY <2>1, ExportFailures DEF LibraryGivesUp, LibraryOutgrows
    <2>2. CASE UNCHANGED vars
        BY <2>2 DEF vars, ExportSound, ExportTyped, StatesMet, Copied, WithinLimits, Row
    <2> QED
        BY <2>1, <2>2, ExportBegins, ExportLabels, ExportSteps, ExportChecks DEF Next
<1> QED
    BY <1>1, ExportStarts, PTL DEF Spec

(* However large the automaton and its labels, what is exported, and what    *)
(* the export has cost, are within the limits in every state of it: nothing  *)
(* is stored before it is known to fit.                                      *)
THEOREM ExportFits == Spec => []WithinLimits
<1>1. ExportSound => WithinLimits
    BY DEF ExportSound
<1> QED
    BY <1>1, ExportIsSound, PTL

(* Every variable has its type, and no state of the library is exported      *)
(* twice, so that an index stands for one state.                             *)
THEOREM ExportIsTyped == Spec => []TypeOK
<1>1. ExportSound => TypeOK
    <2> SUFFICES ASSUME ExportSound PROVE TypeOK
        OBVIOUS
    <2>1. automaton.start \in DOMAIN automaton.next
        BY ExportAssumption DEF ExportSound, ExportTyped
    <2>2. Range(states) \subseteq DOMAIN automaton.next /\ IsInjective(states)
        BY DEF ExportSound, StatesMet, Range, IsInjective
    <2>3. Range(labels) \subseteq Names \cup {NoName}
        BY DEF ExportSound, Copied, Range
    <2>4. \A row \in Range(transitions) : row \in Seq(0..Len(states))
        BY DEF ExportSound, Copied, Range, IndicesOf
    <2> QED
        BY <2>1, <2>2, <2>3, <2>4 DEF ExportSound, ExportTyped, Copied, TypeOK
<1> QED
    BY <1>1, ExportIsSound, PTL
-----------------------------------------------------------------------------
(* What the tables say.  A row says for every byte what the automaton does.  *)
AcceptedAt(i) == automaton.accepts[states[i]]
NextAt(i, b) == automaton.next[states[i]][b]
Says(i, b, to) ==
    IF NextAt(i, b) = Dead THEN to = 0 ELSE to \in 1..Len(states) /\ states[to] = NextAt(i, b)

StartFirst == stage \in {"label", "byte", "done"} => Len(states) > 0 /\ states[1] = automaton.start
LabelsRight ==
    \A i \in 1..Len(labels) : labels[i] = Winner(AcceptedAt(i)) /\ Ties(AcceptedAt(i)) = {}
RowsRight ==
    \A i \in 1..Len(labels) : \A b \in 1..Len(transitions[i]) : Says(i, b, transitions[i][b])
RowsFull ==
    stage # "failed" =>
        \A i \in 1..Len(labels) :
            \/ Len(transitions[i]) = ClassCount
            \/ i = Len(labels) /\ stage = "byte" /\ Len(transitions[i]) <= ClassCount
AllChecked == stage = "done" => Len(labels) = Len(states) /\ ~FallsBack
TablesRight == StartFirst /\ LabelsRight /\ RowsRight /\ RowsFull /\ AllChecked

(* What the rows say, byte by byte, is what the invariant asks of them.      *)
LEMMA RowsCopied ==
    ASSUME labels' \in Seq(Names \cup {NoName}), transitions' \in Seq(IndicesOf(Len(states'))),
           Len(labels') = Len(transitions'),
           \A i \in Nat : i \in 1..Len(labels') =>
                \A b \in Nat : b \in 1..Len(transitions'[i]) => Says(i, b, transitions[i][b])'
    PROVE  RowsRight'
<1>1. \A i \in 1..Len(labels') : i \in Nat
    OBVIOUS
<1>2. \A i \in 1..Len(labels') : \A b \in 1..Len(transitions'[i]) : b \in Nat
    BY DEF IndicesOf
<1> QED
    BY <1>1, <1>2 DEF RowsRight, Says, NextAt

(* There is nothing to be wrong yet.                                         *)
LEMMA TablesStart == Init => TablesRight
<1> SUFFICES ASSUME Init PROVE TablesRight
    OBVIOUS
<1>1. Len(labels) = 0 /\ stage = "start"
    BY DEF Init
<1> QED
    BY <1>1 DEF TablesRight, StartFirst, LabelsRight, RowsRight, RowsFull, AllChecked

(* A failure changes none of it.                                             *)
LEMMA FailureKeepsTables ==
    ASSUME TablesRight, NEW why, Fail(why)
    PROVE  TablesRight'
BY DEF TablesRight, StartFirst, LabelsRight, RowsRight, RowsFull, AllChecked, Fail, AcceptedAt,
   NextAt, Says

(* Every step keeps the tables right.  The start state is the first of all.  *)
LEMMA BeginKeepsTables ==
    ASSUME ExportSound, TablesRight, Begin
    PROVE  TablesRight'
<1>1. CASE RoomFor(1) /\ states' = <<automaton.start>> /\ stage' = "label"
           /\ UNCHANGED <<automaton, limits, labels, transitions, spent, error>>
    <2>1. Len(labels') = 0
        BY <1>1 DEF ExportSound, Copied, Begin
    <2>2. Len(states') > 0 /\ states'[1] = automaton'.start
        BY <1>1
    <2> QED
        BY <1>1, <2>1, <2>2 DEF TablesRight, StartFirst, LabelsRight, RowsRight, RowsFull,
           AllChecked
<1>2. CASE NoRoom(1)
    BY <1>2, FailureKeepsTables DEF NoRoom
<1> QED
    BY <1>1, <1>2 DEF Begin

(* A state that is labelled has one best terminal.                           *)
LEMMA LabelKeepsTables ==
    ASSUME ExportSound, TablesRight, LabelState
    PROVE  TablesRight'
<1> DEFINE names == automaton.accepts[states[Len(labels) + 1]]
           n == Len(labels)
<1>1. CASE /\ Ties(names) = {}
           /\ labels' = Append(labels, Winner(names))
           /\ transitions' = Append(transitions, <<>>)
           /\ stage' = "byte"
           /\ UNCHANGED <<automaton, limits, states, error>>
    <2>1. labels \in Seq(Names \cup {NoName}) /\ transitions \in Seq(IndicesOf(Len(states)))
          /\ Len(transitions) = n /\ n \in Nat
        BY DEF ExportSound, Copied
    <2>2. /\ Len(labels') = n + 1 /\ labels'[n + 1] = Winner(names)
          /\ transitions'[n + 1] = <<>>
          /\ \A i \in 1..n : labels'[i] = labels[i] /\ transitions'[i] = transitions[i]
        BY <1>1, <2>1
    <2>3. \A i \in 1..n + 1 : i = n + 1 \/ i \in 1..n
        BY <2>1
    <2>4. stage = "label" /\ Len(states) > 0 /\ states[1] = automaton.start
        BY DEF TablesRight, StartFirst, LabelState
    <2>5. StartFirst' /\ AllChecked'
        BY <1>1, <2>4 DEF StartFirst, AllChecked
    <2>6. LabelsRight'
        <3> SUFFICES ASSUME NEW i \in 1..n + 1
                     PROVE  labels'[i] = Winner(AcceptedAt(i)') /\ Ties(AcceptedAt(i)') = {}
            BY <2>2 DEF LabelsRight, Ties, Best, Winner
        <3>1. AcceptedAt(i)' = AcceptedAt(i)
            BY <1>1 DEF AcceptedAt
        <3>2. CASE i = n + 1
            BY <1>1, <2>2, <3>1, <3>2 DEF AcceptedAt
        <3>3. CASE i \in 1..n
            BY <2>2, <3>1, <3>3 DEF TablesRight, LabelsRight
        <3> QED
            BY <2>3, <3>2, <3>3
    <2>7. RowsRight'
        <3>1. /\ labels' \in Seq(Names \cup {NoName})
              /\ transitions' \in Seq(IndicesOf(Len(states')))
              /\ Len(labels') = Len(transitions')
            BY ExportLabels DEF ExportSound, Copied
        <3> SUFFICES ASSUME NEW i \in Nat, i \in 1..n + 1, NEW b \in Nat, b \in 1..Len(transitions'[i])
                     PROVE  Says(i, b, transitions[i][b])'
            BY <2>2, <3>1, RowsCopied
        <3>2. i \in 1..n
            <4>1. CASE i = n + 1
                BY <2>2, <4>1
            <4> QED
                BY <2>3, <4>1
        <3>3. Says(i, b, transitions[i][b])
            BY <2>2, <3>2 DEF TablesRight, RowsRight
        <3> QED
            BY <1>1, <2>2, <3>2, <3>3 DEF Says, NextAt
    <2>8. RowsFull'
        <3>1. \A i \in 1..n : Len(transitions[i]) = ClassCount
            BY <2>4 DEF TablesRight, RowsFull
        <3>2. Len(<<>>) <= ClassCount
            BY ExportAssumption
        <3> QED
            BY <1>1, <2>2, <2>3, <3>1, <3>2 DEF RowsFull
    <2> QED
        BY <2>5, <2>6, <2>7, <2>8 DEF TablesRight
<1>2. CASE Fail("CompilerWorkLimit") \/ Fail("AmbiguousPriority")
    BY <1>2, FailureKeepsTables
<1> QED
    BY <1>1, <1>2 DEF LabelState

(* A lexer that passes the check never falls back.                           *)
LEMMA CheckKeepsTables ==
    ASSUME ExportSound, TablesRight, Check
    PROVE  TablesRight'
<1>1. CASE /\ ~FallsBack
           /\ stage' = "done"
           /\ UNCHANGED <<automaton, limits, states, labels, transitions, error>>
    <2>1. StartFirst'
        BY <1>1 DEF TablesRight, StartFirst, Check
    <2>2. LabelsRight' /\ RowsRight'
        BY <1>1 DEF TablesRight, LabelsRight, RowsRight, AcceptedAt, NextAt, Says
    <2>3. RowsFull'
        BY <1>1 DEF TablesRight, RowsFull, Check
    <2>4. AllChecked'
        BY <1>1 DEF AllChecked, Check, FallsBack
    <2> QED
        BY <2>1, <2>2, <2>3, <2>4 DEF TablesRight
<1>2. CASE Fail("CompilerWorkLimit") \/ Fail("UnsupportedLexerBoundary")
    BY <1>2, FailureKeepsTables
<1> QED
    BY <1>1, <1>2 DEF Check
-----------------------------------------------------------------------------
(* The index of a state is where it is, or will be.                          *)
LEMMA IndexSays ==
    ASSUME NEW state
    PROVE  /\ state = Dead => IndexOf(state) = 0
           /\ state # Dead /\ IndexOf(state) <= Len(states) =>
                IndexOf(state) \in 1..Len(states) /\ states[IndexOf(state)] = state
<1>1. CASE \E i \in 1..Len(states) : states[i] = state
    BY <1>1 DEF IndexOf, Contains
<1>2. CASE ~\E i \in 1..Len(states) : states[i] = state
    <2>1. ~Contains(states, state)
        BY <1>2 DEF Contains
    <2>2. state # Dead => IndexOf(state) = Len(states) + 1
        BY <2>1 DEF IndexOf
    <2>3. Len(states) + 1 <= Len(states) => FALSE
        OBVIOUS
    <2> QED
        BY <2>2, <2>3 DEF IndexOf
<1> QED
    BY <1>1, <1>2

(* A byte is copied to where the automaton leads, a state that is new being  *)
(* the last.                                                                 *)
LEMMA StepKeepsTables ==
    ASSUME ExportSound, TablesRight, StepByte
    PROVE  TablesRight'
<1> DEFINE n == Len(labels)
           m == Len(Row)
           next == automaton.next[states[n]][m + 1]
           place == IndexOf(next)
           isNew == place > Len(states)
<1> HIDE DEF next, place, isNew, n, m
<1>1. CASE /\ states' = IF isNew THEN Append(states, next) ELSE states
           /\ transitions' = [transitions EXCEPT ![Len(transitions)] = Append(@, place)]
           /\ stage' = IF m + 1 = ClassCount THEN "label" ELSE "byte"
           /\ UNCHANGED <<automaton, limits, labels, error>>
    <2>1. /\ states \in Seq(DOMAIN automaton.next) /\ transitions \in Seq(IndicesOf(Len(states)))
          /\ Len(transitions) = n /\ n \in Nat \ {0} /\ n <= Len(states) /\ Len(states) \in Nat
          /\ m < ClassCount /\ Row = transitions[n] /\ Row \in IndicesOf(Len(states))
          /\ m \in Nat
        BY DEF ExportSound, StatesMet, Copied, StepByte, Row, Last, IndicesOf, n, m
    <2>2. stage = "byte" /\ Len(states) > 0 /\ states[1] = automaton.start
        BY DEF TablesRight, StartFirst, StepByte
    <2>3. /\ Len(states) <= Len(states') /\ Len(states') \in Nat
          /\ \A i \in 1..Len(states) : states'[i] = states[i] /\ i \in 1..Len(states')
        <3>1. CASE isNew
            BY <1>1, <2>1, <3>1
        <3>2. CASE ~isNew
            BY <1>1, <2>1, <3>2
        <3> QED
            BY <3>1, <3>2
    <2>4. StartFirst' /\ AllChecked'
        <3>1. stage' # "done"
            BY <1>1
        <3>2. Len(states') > 0 /\ states'[1] = states[1] /\ automaton' = automaton
            BY <1>1, <2>2, <2>3
        <3> QED
            BY <2>2, <3>1, <3>2 DEF StartFirst, AllChecked
    <2>5. LabelsRight'
        <3>1. \A i \in 1..n : AcceptedAt(i)' = AcceptedAt(i)
            <4>1. \A i \in 1..n : i \in 1..Len(states)
                BY <2>1
            <4> QED
                BY <1>1, <2>3, <4>1 DEF AcceptedAt
        <3>2. labels' = labels /\ n = Len(labels)
            BY <1>1 DEF n
        <3> SUFFICES ASSUME NEW i \in 1..n
                     PROVE  labels'[i] = Winner(AcceptedAt(i)') /\ Ties(AcceptedAt(i)') = {}
            BY <3>2 DEF LabelsRight, Ties, Best, Winner
        <3> QED
            BY <3>1, <3>2 DEF TablesRight, LabelsRight
    <2>6. /\ Len(transitions') = n
          /\ transitions'[n] = Append(Row, place)
          /\ \A i \in 1..n : i # n => transitions'[i] = transitions[i]
        BY <1>1, <2>1
    <2>7. /\ Len(transitions'[n]) = m + 1 /\ transitions'[n][m + 1] = place
          /\ \A b \in 1..m : transitions'[n][b] = transitions[n][b]
          /\ m = Len(transitions[n])
        <3> HIDE DEF m
        <3>1. Len(Row) = m
            BY DEF m
        <3>2. Row \in Seq(0..Len(states)) /\ Row = transitions[n]
            BY <2>1 DEF IndicesOf
        <3>3. \A row \in Seq(0..Len(states)) :
                /\ Len(Append(row, place)) = Len(row) + 1
                /\ Append(row, place)[Len(row) + 1] = place
                /\ \A b \in 1..Len(row) : Append(row, place)[b] = row[b]
            OBVIOUS
        <3> QED
            BY <2>6, <3>1, <3>2, <3>3
    <2>8. RowsRight'
        <3>1. /\ labels' \in Seq(Names \cup {NoName})
              /\ transitions' \in Seq(IndicesOf(Len(states')))
              /\ Len(labels') = Len(transitions') /\ Len(labels') = n
            <4>1. Len(labels') = n
                BY <1>1 DEF n
            <4> QED
                BY <4>1, ExportSteps DEF ExportSound, Copied
        <3> SUFFICES ASSUME NEW i \in Nat, i \in 1..n, NEW b \in Nat, b \in 1..Len(transitions'[i])
                     PROVE  Says(i, b, transitions[i][b])'
            BY <3>1, RowsCopied
        <3>2. i \in 1..Len(states) /\ NextAt(i, b)' = NextAt(i, b)
            <4>1. i \in 1..Len(states)
                BY <2>1
            <4> QED
                BY <1>1, <2>3, <4>1 DEF NextAt
        <3>3. CASE i = n /\ b = m + 1
            <4>1. NextAt(i, b) = next /\ transitions'[i][b] = place
                BY <2>7, <3>3 DEF NextAt, next
            <4>2. CASE next = Dead
                <5>1. place = 0
                    BY <4>2, IndexSays DEF place
                <5> QED
                    BY <3>2, <4>1, <4>2, <5>1 DEF Says
            <4>3. CASE next # Dead /\ isNew
                <5>1. place = Len(states) + 1
                    BY <4>3, IndexIsRight DEF place, isNew
                <5>2. states' = Append(states, next)
                    BY <1>1, <4>3
                <5>3. place \in 1..Len(states') /\ states'[place] = next
                    BY <2>1, <5>1, <5>2
                <5> QED
                    BY <3>2, <4>1, <4>3, <5>3 DEF Says
            <4>4. CASE next # Dead /\ ~isNew
                <5>1. place \in 1..Len(states) /\ states[place] = next
                    <6>1. place <= Len(states)
                        <7>1. place \in 0..Len(states) + 1
                            BY IndexIsRight DEF place
                        <7> QED
                            BY <2>1, <4>4, <7>1 DEF isNew
                    <6> QED
                        BY <4>4, <6>1, IndexSays DEF place
                <5>2. place \in 1..Len(states') /\ states'[place] = next
                    BY <2>3, <5>1
                <5> QED
                    BY <3>2, <4>1, <4>4, <5>2 DEF Says
            <4> QED
                BY <4>2, <4>3, <4>4
        <3>4. CASE ~(i = n /\ b = m + 1)
            <4>1. transitions'[i][b] = transitions[i][b] /\ b \in 1..Len(transitions[i])
                <5>1. CASE i = n
                    <6>1. b \in 1..m
                        BY <2>1, <2>7, <3>4, <5>1
                    <6> QED
                        BY <2>7, <5>1, <6>1
                <5>2. CASE i # n
                    BY <2>6, <5>2
                <5> QED
                    BY <5>1, <5>2
            <4>2. Says(i, b, transitions[i][b])
                <5>1. i \in 1..Len(labels)
                    BY DEF n
                <5> QED
                    BY <4>1, <5>1 DEF TablesRight, RowsRight
            <4>3. \A to : Says(i, b, to) => (IF NextAt(i, b) = Dead THEN to = 0
                                           ELSE to \in 1..Len(states') /\ states'[to] = NextAt(i, b))
                BY <2>3 DEF Says
            <4> QED
                BY <3>2, <4>1, <4>2, <4>3 DEF Says
        <3> QED
            BY <3>3, <3>4
    <2>9. RowsFull'
        <3>1. \A i \in 1..n : i # n => Len(transitions[i]) = ClassCount
            BY <2>2 DEF TablesRight, RowsFull, n
        <3>2. m + 1 <= ClassCount /\ ClassCount \in Nat
            BY <2>1, ExportAssumption
        <3>3. stage' = "label" <=> m + 1 = ClassCount
            BY <1>1
        <3>4. stage' = "byte" <=> m + 1 # ClassCount
            BY <1>1
        <3>5. Len(labels') = n
            BY <1>1 DEF n
        <3> QED
            BY <2>6, <2>7, <3>1, <3>2, <3>3, <3>4, <3>5 DEF RowsFull
    <2> QED
        BY <2>4, <2>5, <2>8, <2>9 DEF TablesRight
<1>2. CASE Fail("CompilerWorkLimit") \/ NoRoom(place)
    BY <1>2, FailureKeepsTables DEF NoRoom
<1> QED
    BY <1>1, <1>2 DEF StepByte, next, place, isNew, n, m

(* The tables are right in every state of the export.                        *)
LEMMA TablesAlwaysRight == Spec => [](ExportSound /\ TablesRight)
<1>1. TablesRight /\ ExportSound /\ [Next]_vars => TablesRight'
    <2> SUFFICES ASSUME TablesRight, ExportSound, [Next]_vars PROVE TablesRight'
        OBVIOUS
    <2>1. CASE LibraryGivesUp \/ LibraryOutgrows
        BY <2>1, FailureKeepsTables DEF LibraryGivesUp, LibraryOutgrows
    <2>2. CASE UNCHANGED vars
        BY <2>2 DEF vars, TablesRight, StartFirst, LabelsRight, RowsRight, RowsFull, AllChecked,
                    AcceptedAt, NextAt, Says, FallsBack
    <2> QED
        BY <2>1, <2>2, BeginKeepsTables, LabelKeepsTables, StepKeepsTables, CheckKeepsTables
           DEF Next
<1> QED
    BY <1>1, TablesStart, ExportIsSound, PTL DEF Spec
-----------------------------------------------------------------------------
(* The best priority of a list is that of one of its terminals, and no other *)
(* is better.                                                                *)
LEMMA BestIsLeast ==
    ASSUME NEW names \in Seq(Names), names # <<>>
    PROVE  /\ \E t \in Range(names) : Priority[t] = Best(names)
           /\ \A u \in Range(names) : Best(names) <= Priority[u]
<1> DEFINE priorities == {Priority[name] : name \in Range(names)}
<1>1. Range(names) \subseteq Names /\ names[1] \in Range(names)
    BY DEF Range
<1>2. priorities \subseteq Nat /\ priorities # {}
    BY <1>1, ExportAssumption
<1>3. PICK least \in priorities : \A p \in priorities : least <= p
    <2> HIDE DEF priorities
    <2> QED
        BY <1>2, LeastExists
<1>4. Min(priorities) \in priorities /\ \A p \in priorities : Min(priorities) <= p
    <2> HIDE DEF priorities
    <2> QED
        BY <1>3 DEF Min
<1>5. Best(names) = Min(priorities)
    BY DEF Best
<1> QED
    BY <1>4, <1>5

(* Where no two terminals tie, one alone is the best.                        *)
LEMMA OneIsBest ==
    ASSUME NEW names \in Seq(Names), names # <<>>, Ties(names) = {}
    PROVE  /\ Winner(names) \in Names
           /\ {t \in Range(names) : \A u \in Range(names) : Priority[t] <= Priority[u]}
                = {Winner(names)}
<1> DEFINE n == Len(names)
           best(t) == \A u \in Range(names) : Priority[t] <= Priority[u]
<1>1. /\ n \in Nat /\ Range(names) \subseteq Names
      /\ \A i \in 1..n : names[i] \in Range(names)
      /\ \A t \in Range(names) : \E i \in 1..n : t = names[i]
    BY DEF Range
<1>2. \A t \in Range(names) : Priority[t] \in Nat
    BY <1>1, ExportAssumption
<1>3. Winner(names) \in Range(names) /\ Priority[Winner(names)] = Best(names)
    BY BestIsLeast DEF Winner
<1>4. best(Winner(names))
    BY <1>3, BestIsLeast
<1>5. ASSUME NEW i \in 1..n, NEW j \in 1..n, i < j, best(names[i]), best(names[j])
      PROVE  FALSE
    <2> DEFINE before == SubSeq(names, 1, j - 1)
    <2>1. j - 1 \in 1..n /\ i \in 1..j - 1 /\ j \in 2..n
        BY <1>1, <1>5
    <2>2. /\ before \in Seq(Names) /\ Len(before) = j - 1
          /\ \A k \in 1..j - 1 : before[k] = names[k] /\ k \in 1..n
        BY <2>1
    <2>3. before # <<>> /\ before[i] = names[i]
        BY <2>1, <2>2
    <2> HIDE DEF before
    <2>4. Range(before) \subseteq Range(names) /\ names[i] \in Range(before)
        BY <1>1, <2>1, <2>2, <2>3 DEF Range
    <2>5. PICK t \in Range(before) : Priority[t] = Best(before)
        BY <2>2, <2>3, BestIsLeast
    <2>6. Best(before) <= Priority[names[i]]
        BY <2>2, <2>3, <2>4, BestIsLeast
    <2>7. Priority[names[i]] <= Priority[t] /\ Priority[names[i]] <= Priority[names[j]]
          /\ Priority[names[j]] <= Priority[names[i]]
        BY <1>1, <1>5, <2>4
    <2>8. Priority[t] \in Nat /\ Priority[names[i]] \in Nat /\ Priority[names[j]] \in Nat
        BY <1>1, <1>2, <2>4
    <2>9. Priority[names[j]] = Best(before)
        BY <2>5, <2>6, <2>7, <2>8
    <2>10. j \in Ties(names)
        BY <2>1, <2>9 DEF Ties, before
    <2> QED
        BY <2>10
<1>6. ASSUME NEW t \in Range(names), best(t)
      PROVE  t = Winner(names)
    <2>1. PICK i \in 1..n : t = names[i]
        BY <1>1
    <2>2. PICK j \in 1..n : Winner(names) = names[j]
        BY <1>1, <1>3
    <2>3. best(names[i]) /\ best(names[j])
        BY <1>4, <1>6, <2>1, <2>2
    <2> HIDE DEF best, n
    <2>4. ~(i < j) /\ ~(j < i)
        BY <1>5, <2>3
    <2>5. i = j
        BY <1>1, <2>4
    <2> QED
        BY <2>1, <2>2, <2>5
<1>7. Winner(names) \in Names
    BY <1>1, <1>3
<1>8. {t \in Range(names) : best(t)} = {Winner(names)}
    <2> HIDE DEF best
    <2> QED
        BY <1>3, <1>4, <1>6
<1> QED
    BY <1>7, <1>8
-----------------------------------------------------------------------------
(* The states that the automaton goes through.                               *)
Library == DOMAIN automaton.next \cup {Dead}
Moved(s, b) == IF s = Dead THEN Dead ELSE automaton.next[s][b]
IsPath(g, bytes) ==
    /\ g \in [0..Len(bytes) -> Library]
    /\ g[0] = automaton.start
    /\ \A n \in 1..Len(bytes) : g[n] = Moved(g[n - 1], bytes[n])

(* The library stays among its states.                                       *)
LEMMA MovesStay ==
    ASSUME automaton \in Automata, NEW s \in Library, NEW b \in Classes
    PROVE  Moved(s, b) \in Library /\ automaton.start \in Library /\ automaton.start # Dead
BY ExportAssumption DEF Library, Moved

(* Where a path ends, the automaton is after the bytes.                      *)
LEMMA PathEnds ==
    ASSUME automaton \in Automata, NEW bytes \in Seq(Classes)
    PROVE  \E g : IsPath(g, bytes) /\ After(bytes) = g[Len(bytes)]
<1> DEFINE n == Len(bytes)
           op == [p \in Library \X (1..n) |-> Moved(p[1], bytes[p[2]])]
           Solves(f) == f = [S \in SUBSET (DOMAIN bytes) |->
                               IF S = {} THEN automaton.start
                               ELSE IF f[S \ {Max(S)}] = Dead THEN Dead
                                    ELSE automaton.next[f[S \ {Max(S)}]][bytes[Max(S)]]]
           f0 == CHOOSE f : Solves(f)
<1>1. After(bytes) = f0[DOMAIN bytes]
    BY DEF After, FoldLeft, MapThenFoldSet
<1>2. n \in Nat /\ DOMAIN bytes = 1..n /\ \A i \in 1..n : bytes[i] \in Classes
    OBVIOUS
<1>3. automaton.start \in Library
    BY ExportAssumption DEF Library
<1>4. op \in [Library \X (1..n) -> Library]
    <2>1. \A p \in Library \X (1..n) : Moved(p[1], bytes[p[2]]) \in Library
        BY <1>2, MovesStay
    <2> QED
        BY <2>1
<1>5. PICK f \in [SUBSET (1..n) -> Library] : IsFold(f, n, automaton.start, op)
    <2> HIDE DEF op, n
    <2> QED
        BY <1>2, <1>3, <1>4, FoldExists
<1>6. ASSUME NEW S \in SUBSET (1..n), S # {}
      PROVE  op[<<f[S \ {Max(S)}], Max(S)>>] = Moved(f[S \ {Max(S)}], bytes[Max(S)])
    <2>1. Max(S) \in 1..n
        BY <1>2, <1>6, MaxOfIndices
    <2>2. f[S \ {Max(S)}] \in Library
        BY <1>5
    <2> QED
        BY <2>1, <2>2
<1>7. Solves(f)
    <2>1. f = [S \in SUBSET (1..n) |->
                IF S = {} THEN automaton.start ELSE op[<<f[S \ {Max(S)}], Max(S)>>]]
        BY <1>5 DEF IsFold
    <2>2. \A S \in SUBSET (1..n) : S # {} =>
            op[<<f[S \ {Max(S)}], Max(S)>>] =
               IF f[S \ {Max(S)}] = Dead THEN Dead
               ELSE automaton.next[f[S \ {Max(S)}]][bytes[Max(S)]]
        BY <1>6 DEF Moved
    <2> HIDE DEF op, n
    <2> QED
        BY <1>2, <2>1, <2>2
<1>8. Solves(f0)
    BY <1>7, Zenon
<1> DEFINE values == {f0[S] : S \in SUBSET (1..n)}
           op0 == [p \in values \X (1..n) |-> Moved(p[1], bytes[p[2]])]
<1>9. IsFold(f0, n, automaton.start, op0)
    <2>1. \A S \in SUBSET (1..n) : S # {} =>
            op0[<<f0[S \ {Max(S)}], Max(S)>>] =
               IF f0[S \ {Max(S)}] = Dead THEN Dead
               ELSE automaton.next[f0[S \ {Max(S)}]][bytes[Max(S)]]
        <3> SUFFICES ASSUME NEW S \in SUBSET (1..n), S # {}
                     PROVE  op0[<<f0[S \ {Max(S)}], Max(S)>>] = Moved(f0[S \ {Max(S)}], bytes[Max(S)])
            BY DEF Moved
        <3>1. Max(S) \in 1..n
            BY <1>2, MaxOfIndices
        <3>2. f0[S \ {Max(S)}] \in values
            OBVIOUS
        <3> HIDE DEF values, f0
        <3> QED
            BY <3>1, <3>2
    <2> HIDE DEF op0, values, f0
    <2>2. f0 = [S \in SUBSET (1..n) |->
                  IF S = {} THEN automaton.start
                  ELSE IF f0[S \ {Max(S)}] = Dead THEN Dead
                       ELSE automaton.next[f0[S \ {Max(S)}]][bytes[Max(S)]]]
        BY <1>2, <1>8
    <2> HIDE DEF n
    <2> QED
        BY <2>1, <2>2 DEF IsFold
<1> DEFINE g == [k \in 0..n |-> f0[1..k]]
<1>10. g[0] = automaton.start
    <2> HIDE DEF f0, op0, n
    <2>1. \A k \in 0..n : f0[1..k] = IF k = 0 THEN automaton.start ELSE op0[<<f0[1..(k - 1)], k>>]
        <3> TAKE k \in 0..n
        <3> QED
            BY <1>2, <1>9, FoldSteps
    <2>2. 0 \in 0..n
        BY <1>2
    <2>3. g[0] = f0[1..0]
        BY <2>2
    <2>4. f0[1..0] = IF 0 = 0 THEN automaton.start ELSE op0[<<f0[1..(0 - 1)], 0>>]
        BY <2>1, <2>2, Zenon
    <2> HIDE DEF g
    <2> QED
        BY <2>3, <2>4
<1>11. ASSUME NEW k \in 1..n
       PROVE  g[k] = Moved(g[k - 1], bytes[k])
    <2>1. k \in 0..n /\ k - 1 \in 0..n /\ k # 0 /\ 1..(k - 1) \in SUBSET (1..n)
        BY <1>2
    <2>2. f0[1..k] = op0[<<f0[1..(k - 1)], k>>]
        <3> HIDE DEF f0, op0, n
        <3> QED
            BY <1>2, <1>9, <2>1, FoldSteps
    <2>3. f0[1..(k - 1)] \in values
        BY <2>1
    <2> HIDE DEF f0, n, values
    <2> QED
        BY <2>1, <2>2, <2>3
<1>12. g = [k \in 0..n |-> g[k]]
    OBVIOUS
<1> DEFINE failing == {k \in 0..n : g[k] \notin Library}
<1>13. failing = {}
    <2> SUFFICES ASSUME failing # {} PROVE FALSE
        OBVIOUS
    <2> HIDE DEF g, n
    <2>1. failing \subseteq Nat
        BY <1>2
    <2>2. PICK k \in failing : \A j \in failing : k <= j
        <3> HIDE DEF failing
        <3> QED
            BY <2>1, LeastExists
    <2>3. k \in 0..n /\ g[k] \notin Library /\ k # 0
        BY <1>3, <1>10
    <2>4. k \in 1..n /\ k - 1 \in 0..n /\ ~(k <= k - 1)
        BY <1>2, <2>3
    <2>5. g[k - 1] \in Library
        BY <2>2, <2>4
    <2> HIDE DEF failing
    <2> QED
        BY <1>2, <1>11, <2>3, <2>4, <2>5, MovesStay
<1>14. g \in [0..n -> Library]
    <2> HIDE DEF g, n
    <2> QED
        BY <1>12, <1>13, Zenon
<1>15. After(bytes) = g[n]
    <2> HIDE DEF f0
    <2>1. n \in 0..n /\ g[n] = f0[1..n]
        BY <1>2
    <2> QED
        BY <1>1, <1>2, <2>1
<1>16. IsPath(g, bytes)
    <2> HIDE DEF g
    <2> QED
        BY <1>10, <1>11, <1>14 DEF IsPath
<1> QED
    <2> HIDE DEF g
    <2> QED
        BY <1>15, <1>16

(* There is one path.                                                        *)
LEMMA OnePath ==
    ASSUME NEW bytes \in Seq(Classes), NEW g, IsPath(g, bytes), NEW h, IsPath(h, bytes)
    PROVE  \A k \in 0..Len(bytes) : g[k] = h[k]
<1> DEFINE failing == {k \in 0..Len(bytes) : g[k] # h[k]}
<1> SUFFICES ASSUME failing # {} PROVE FALSE
    OBVIOUS
<1>1. failing \subseteq Nat /\ Len(bytes) \in Nat
    OBVIOUS
<1>2. PICK k \in failing : \A j \in failing : k <= j
    <2> HIDE DEF failing
    <2> QED
        BY <1>1, LeastExists
<1>3. k \in 0..Len(bytes) /\ g[k] # h[k] /\ k # 0
    BY DEF IsPath
<1>4. k \in 1..Len(bytes) /\ k - 1 \in 0..Len(bytes) /\ ~(k <= k - 1)
    BY <1>1, <1>3
<1>5. g[k - 1] = h[k - 1]
    BY <1>2, <1>4
<1> HIDE DEF failing
<1> QED
    BY <1>3, <1>4, <1>5 DEF IsPath

(* The path of some bytes is, as far as it goes, that of their beginnings.   *)
LEMMA PathOfBeginnings ==
    ASSUME automaton \in Automata, NEW bytes \in Seq(Classes), NEW g, IsPath(g, bytes),
           NEW k \in 0..Len(bytes)
    PROVE  After(SubSeq(bytes, 1, k)) = g[k]
<1> DEFINE begin == SubSeq(bytes, 1, k)
           h == [j \in 0..k |-> g[j]]
<1>1. Len(bytes) \in Nat /\ k \in Nat /\ k <= Len(bytes)
    OBVIOUS
<1>2. begin \in Seq(Classes) /\ Len(begin) = k /\ \A j \in 1..k : begin[j] = bytes[j]
    BY <1>1
<1> HIDE DEF begin
<1>3. IsPath(h, begin)
    <2>1. \A j \in 1..k : j \in 1..Len(bytes) /\ j \in 0..k /\ j - 1 \in 0..k
        BY <1>1
    <2>2. h[0] = g[0] /\ \A j \in 1..k : h[j] = g[j] /\ h[j - 1] = g[j - 1]
        BY <1>1, <2>1
    <2>3. h \in [0..k -> Library]
        <3>1. \A j \in 0..k : j \in 0..Len(bytes) /\ g[j] \in Library
            BY <1>1 DEF IsPath
        <3> QED
            BY <3>1
    <2> HIDE DEF h
    <2> QED
        BY <1>2, <2>1, <2>2, <2>3 DEF IsPath
<1>4. PICK f : IsPath(f, begin) /\ After(begin) = f[Len(begin)]
    BY <1>2, PathEnds
<1>5. k \in 0..Len(begin) /\ h[k] = g[k]
    BY <1>1, <1>2
<1>6. f[k] = h[k]
    <2> HIDE DEF h
    <2> QED
        BY <1>2, <1>3, <1>4, <1>5, OnePath
<1> QED
    BY <1>2, <1>4, <1>5, <1>6 DEF begin
-----------------------------------------------------------------------------
(* An exported lexer, as the core is given it.                               *)
Exported == ExportSound /\ TablesRight /\ stage = "done"
Indices == 1..Len(states)
To(i, b) == transitions[i][b]

(* What the invariant says of them.                                          *)
LEMMA ExportedTables ==
    ASSUME Exported
    PROVE  /\ automaton \in Automata /\ 1 \in Indices /\ Indices \subseteq Nat \ {0}
           /\ states[1] = automaton.start
           /\ \A i \in Indices : states[i] \in DOMAIN automaton.next /\ states[i] # Dead
           /\ \A i, j \in Indices : states[i] = states[j] => i = j
           /\ \A i \in Indices, b \in Classes : Says(i, b, To(i, b))
           /\ \A i \in Indices, b \in Classes :
                labels[i] # NoName /\ To(i, b) # 0 => labels[To(i, b)] # NoName
<1>1. /\ automaton \in Automata /\ states \in Seq(DOMAIN automaton.next)
      /\ \A i, j \in Indices : states[i] = states[j] => i = j
    BY DEF Exported, ExportSound, ExportTyped, StatesMet, Indices
<1>2. 1 \in Indices /\ states[1] = automaton.start /\ Indices \subseteq Nat \ {0}
    BY <1>1 DEF Exported, TablesRight, StartFirst, Indices
<1>3. Len(labels) = Len(states) /\ ~FallsBack
    BY DEF Exported, TablesRight, AllChecked
<1>4. \A i \in Indices : states[i] \in DOMAIN automaton.next
    BY <1>1 DEF Indices
<1>5. Dead \notin DOMAIN automaton.next
    BY <1>1, ExportAssumption
<1>6. \A i \in Indices : Len(transitions[i]) = ClassCount
    BY <1>3 DEF Exported, TablesRight, RowsFull, Indices
<1>7. \A i \in Indices, b \in Classes : Says(i, b, To(i, b))
    BY <1>3, <1>6 DEF Exported, TablesRight, RowsRight, Indices, Classes, To
<1>8. \A i \in Indices, b \in Classes :
        labels[i] # NoName /\ To(i, b) # 0 => labels[To(i, b)] # NoName
    BY <1>3 DEF FallsBack, Indices, To
<1> QED
    BY <1>1, <1>2, <1>4, <1>5, <1>7, <1>8

(* A transition leads to the state that the automaton moves to.              *)
LEMMA TransitionsLead ==
    ASSUME Exported, NEW i \in Indices, NEW b \in Classes
    PROVE  /\ To(i, b) = 0 <=> Moved(states[i], b) = Dead
           /\ To(i, b) # 0 => To(i, b) \in Indices /\ states[To(i, b)] = Moved(states[i], b)
<1>1. states[i] # Dead /\ Says(i, b, To(i, b)) /\ 0 \notin Indices
    BY ExportedTables
<1>2. Moved(states[i], b) = NextAt(i, b)
    BY <1>1 DEF Moved, NextAt
<1> QED
    BY <1>1, <1>2 DEF Says, Indices

(* The label of a state is its one best terminal.                            *)
LEMMA LabelsAreReadings ==
    ASSUME Exported, NEW bytes, NEW i \in Indices, After(bytes) = states[i]
    PROVE  /\ labels[i] \in Names \cup {NoName}
           /\ Readings(bytes) = IF labels[i] = NoName THEN {} ELSE {labels[i]}
<1> DEFINE names == AcceptedAt(i)
           best == {t \in Range(names) : \A u \in Range(names) : Priority[t] <= Priority[u]}
<1>1. labels[i] = Winner(names) /\ Ties(names) = {}
    BY DEF Exported, TablesRight, LabelsRight, AllChecked, Indices
<1>2. names \in Seq(Names)
    BY ExportedTables, ExportAssumption DEF AcceptedAt
<1>3. Readings(bytes) = best
    BY ExportedTables DEF Readings, AcceptedAt
<1>4. CASE names = <<>>
    <2>1. Range(names) = {} /\ labels[i] = NoName
        BY <1>1, <1>4 DEF Range, Winner
    <2>2. best = {}
        BY <2>1
    <2> QED
        BY <1>3, <2>1, <2>2
<1>5. CASE names # <<>>
    <2> HIDE DEF names
    <2>1. Winner(names) \in Names /\ best = {Winner(names)}
        BY <1>1, <1>2, <1>5, OneIsBest
    <2>2. Winner(names) # NoName
        BY <2>1, ExportAssumption
    <2> HIDE DEF best
    <2> QED
        BY <1>1, <1>3, <2>1, <2>2
<1> QED
    BY <1>4, <1>5

(* The dead state accepts nothing.                                           *)
LEMMA DeadReadsNothing ==
    ASSUME NEW bytes, After(bytes) = Dead
    PROVE  Readings(bytes) = {}
BY DEF Readings
-----------------------------------------------------------------------------
(* What the automaton goes through is exported, until it is dead.            *)
LEMMA PathIsMet ==
    ASSUME Exported, NEW bytes \in Seq(Classes), NEW g, IsPath(g, bytes)
    PROVE  \A k \in 0..Len(bytes) : g[k] # Dead => \E i \in Indices : states[i] = g[k]
<1> DEFINE met(k) == \E i \in Indices : states[i] = g[k]
           failing == {k \in 0..Len(bytes) : g[k] # Dead /\ ~met(k)}
<1> SUFFICES ASSUME failing # {} PROVE FALSE
    OBVIOUS
<1>1. failing \subseteq Nat /\ Len(bytes) \in Nat
    OBVIOUS
<1>2. PICK k \in failing : \A j \in failing : k <= j
    <2> HIDE DEF failing
    <2> QED
        BY <1>1, LeastExists
<1>3. k \in 0..Len(bytes) /\ g[k] # Dead /\ ~met(k)
    OBVIOUS
<1>4. k # 0
    <2>1. met(0)
        BY ExportedTables DEF IsPath
    <2> QED
        BY <1>3, <2>1
<1>5. k \in 1..Len(bytes) /\ k - 1 \in 0..Len(bytes) /\ ~(k <= k - 1) /\ bytes[k] \in Classes
    BY <1>1, <1>3, <1>4
<1>6. g[k] = Moved(g[k - 1], bytes[k])
    BY <1>5 DEF IsPath
<1>7. g[k - 1] # Dead
    BY <1>3, <1>6 DEF Moved
<1>8. PICK i \in Indices : states[i] = g[k - 1]
    BY <1>2, <1>5, <1>7
<1> HIDE DEF failing
<1>9. met(k)
    BY <1>3, <1>5, <1>6, <1>8, TransitionsLead
<1> QED
    BY <1>3, <1>9

(* Dead once, dead for good; complete once, complete until dead.             *)
Completes(s) == \E i \in Indices : states[i] = s /\ labels[i] # NoName

(* It is dead for good.                                                      *)
LEMMA DeadForGood ==
    ASSUME NEW bytes \in Seq(Classes), NEW g, IsPath(g, bytes),
           NEW j \in 0..Len(bytes), g[j] = Dead
    PROVE  \A k \in j..Len(bytes) : g[k] = Dead
<1> DEFINE failing == {k \in j..Len(bytes) : g[k] # Dead}
<1> SUFFICES ASSUME failing # {} PROVE FALSE
    OBVIOUS
<1>1. failing \subseteq Nat /\ Len(bytes) \in Nat
    OBVIOUS
<1>2. PICK k \in failing : \A m \in failing : k <= m
    <2> HIDE DEF failing
    <2> QED
        BY <1>1, LeastExists
<1>3. k \in j..Len(bytes) /\ g[k] # Dead /\ k # j
    OBVIOUS
<1>4. k \in 1..Len(bytes) /\ k - 1 \in j..Len(bytes) /\ ~(k <= k - 1)
    BY <1>1, <1>3
<1>5. g[k - 1] = Dead
    BY <1>2, <1>4
<1> QED
    BY <1>3, <1>4, <1>5 DEF IsPath, Moved

(* It is complete until it is dead.                                          *)
LEMMA CompleteUntilDead ==
    ASSUME Exported, NEW bytes \in Seq(Classes), NEW g, IsPath(g, bytes),
           NEW j \in 0..Len(bytes), Completes(g[j])
    PROVE  \A k \in j..Len(bytes) : g[k] # Dead => Completes(g[k])
<1> DEFINE failing == {k \in j..Len(bytes) : g[k] # Dead /\ ~Completes(g[k])}
<1> SUFFICES ASSUME failing # {} PROVE FALSE
    OBVIOUS
<1>1. failing \subseteq Nat /\ Len(bytes) \in Nat
    OBVIOUS
<1>2. PICK k \in failing : \A m \in failing : k <= m
    <2> HIDE DEF failing
    <2> QED
        BY <1>1, LeastExists
<1>3. k \in j..Len(bytes) /\ g[k] # Dead /\ ~Completes(g[k]) /\ k # j
    OBVIOUS
<1>4. k \in 1..Len(bytes) /\ k - 1 \in j..Len(bytes) /\ ~(k <= k - 1) /\ bytes[k] \in Classes
    BY <1>1, <1>3
<1>5. g[k] = Moved(g[k - 1], bytes[k])
    BY <1>4 DEF IsPath
<1>6. g[k - 1] # Dead
    BY <1>3, <1>5 DEF Moved
<1>7. Completes(g[k - 1])
    BY <1>2, <1>4, <1>6
<1> HIDE DEF failing
<1>8. PICK i \in Indices : states[i] = g[k - 1] /\ labels[i] # NoName
    BY <1>7 DEF Completes
<1>9. To(i, bytes[k]) \in Indices /\ states[To(i, bytes[k])] = g[k] /\ To(i, bytes[k]) # 0
    BY <1>3, <1>4, <1>5, <1>8, TransitionsLead
<1>10. labels[To(i, bytes[k])] # NoName
    BY <1>4, <1>8, <1>9, ExportedTables
<1> QED
    BY <1>3, <1>9, <1>10 DEF Completes
-----------------------------------------------------------------------------
(* How the core runs on some bytes.                                          *)
Reading(i, out) == Core!At(i, out)
Rejected == Core!Rejection
IsRun(h, bytes) ==
    /\ h[0] = Reading(-1, <<>>)
    /\ \A n \in 1..Len(bytes) : h[n] = Core!ExecuteByte(h[n - 1], bytes[n])

(* ExecuteBytes is a choice among the functions that run: there is one.      *)
LEMMA RunExists ==
    ASSUME NEW bytes \in Seq(Classes)
    PROVE  \E h : h = [n \in 0..Len(bytes) |->
                         IF n = 0 THEN Reading(-1, <<>>) ELSE Core!ExecuteByte(h[n - 1], bytes[n])]
<1> DEFINE Solves(h, k) ==
             h = [n \in 0..k |->
                    IF n = 0 THEN Reading(-1, <<>>) ELSE Core!ExecuteByte(h[n - 1], bytes[n])]
           failing == {k \in 0..Len(bytes) : ~\E h : Solves(h, k)}
<1>1. Len(bytes) \in Nat /\ Len(bytes) \in 0..Len(bytes)
    OBVIOUS
<1> SUFFICES ASSUME failing # {} PROVE FALSE
    BY <1>1
<1>2. failing \subseteq Nat
    OBVIOUS
<1> HIDE DEF failing
<1>3. PICK k \in failing : \A j \in failing : k <= j
    BY <1>2, LeastExists
<1>4. k \in 0..Len(bytes) /\ ~\E h : Solves(h, k)
    BY <1>3 DEF failing
<1>5. k # 0
    <2> DEFINE h == [n \in 0..0 |-> Reading(-1, <<>>)]
    <2>1. Solves(h, 0)
        <3>1. \A n \in 0..0 : n = 0
            OBVIOUS
        <3> QED
            BY <3>1
    <2> QED
        BY <1>4, <2>1
<1>6. k - 1 \in 0..Len(bytes) /\ ~(k <= k - 1) /\ k \in Nat
    BY <1>1, <1>4, <1>5
<1>7. PICK g : Solves(g, k - 1)
    BY <1>3, <1>6 DEF failing
<1> DEFINE h == [n \in 0..k |->
                   IF n = 0 THEN Reading(-1, <<>>) ELSE Core!ExecuteByte(g[n - 1], bytes[n])]
<1>8. \A n \in 0..k - 1 : g[n] = IF n = 0 THEN Reading(-1, <<>>)
                                 ELSE Core!ExecuteByte(g[n - 1], bytes[n])
    BY <1>7
<1>9. \A n \in 0..k - 1 : h[n] = g[n]
    <2>1. \A n \in 0..k - 1 : n \in 0..k
        BY <1>6
    <2> HIDE DEF Solves
    <2> QED
        BY <1>8, <2>1
<1>10. \A n \in 0..k : n # 0 => n - 1 \in 0..k - 1
    BY <1>6
<1>11. \A n \in 0..k : n # 0 => Core!ExecuteByte(g[n - 1], bytes[n]) = Core!ExecuteByte(h[n - 1], bytes[n])
    <2> HIDE DEF Solves, h
    <2> QED
        BY <1>9, <1>10
<1>12. h = [n \in 0..k |->
              IF n = 0 THEN Reading(-1, <<>>) ELSE Core!ExecuteByte(g[n - 1], bytes[n])]
    OBVIOUS
<1>13. Solves(h, k)
    <2> HIDE DEF h
    <2> QED
        BY <1>11, <1>12
<1> QED
    BY <1>4, <1>13

(* There is one run.                                                         *)
LEMMA OneRun ==
    ASSUME NEW bytes \in Seq(Classes), NEW g, IsRun(g, bytes), NEW h, IsRun(h, bytes)
    PROVE  \A k \in 0..Len(bytes) : g[k] = h[k]
<1> DEFINE failing == {k \in 0..Len(bytes) : g[k] # h[k]}
<1> SUFFICES ASSUME failing # {} PROVE FALSE
    OBVIOUS
<1>1. failing \subseteq Nat /\ Len(bytes) \in Nat
    OBVIOUS
<1>2. PICK k \in failing : \A j \in failing : k <= j
    <2> HIDE DEF failing
    <2> QED
        BY <1>1, LeastExists
<1>3. k \in 0..Len(bytes) /\ g[k] # h[k] /\ k # 0
    BY DEF IsRun
<1>4. k \in 1..Len(bytes) /\ k - 1 \in 0..Len(bytes) /\ ~(k <= k - 1)
    BY <1>1, <1>3
<1>5. g[k - 1] = h[k - 1]
    BY <1>2, <1>4
<1> HIDE DEF failing
<1> QED
    BY <1>3, <1>4, <1>5 DEF IsRun

(* ExecuteBytes ends where such a function does.                             *)
LEMMA RunEnds ==
    ASSUME NEW bytes \in Seq(Classes)
    PROVE  \E h : IsRun(h, bytes) /\ Core!ExecuteBytes(-1, bytes) = h[Len(bytes)]
<1> DEFINE Solves(h) ==
             h = [n \in 0..Len(bytes) |->
                    IF n = 0 THEN Core!At(-1, <<>>) ELSE Core!ExecuteByte(h[n - 1], bytes[n])]
           h0 == CHOOSE h : Solves(h)
<1>1. Core!ExecuteBytes(-1, bytes) = h0[Len(bytes)]
    BY DEF Core!ExecuteBytes
<1>2. \E h : Solves(h)
    BY RunExists DEF Reading
<1>3. Solves(h0)
    BY <1>2, Zenon
<1>4. Len(bytes) \in Nat
    OBVIOUS
<1> HIDE DEF h0
<1>5. IsRun(h0, bytes)
    <2>1. 0 \in 0..Len(bytes) /\ \A n \in 1..Len(bytes) : n \in 0..Len(bytes) /\ n # 0
        BY <1>4
    <2>2. \A n \in 0..Len(bytes) :
            h0[n] = IF n = 0 THEN Core!At(-1, <<>>) ELSE Core!ExecuteByte(h0[n - 1], bytes[n])
        BY <1>3
    <2> HIDE DEF Solves
    <2> QED
        BY <2>1, <2>2 DEF IsRun, Reading
<1> QED
    BY <1>1, <1>5
-----------------------------------------------------------------------------
(* What a byte does.                                                         *)
LEMMA NothingRejected ==
    ASSUME NEW b
    PROVE  Core!ExecuteByte(Rejected, b) = Rejected
BY DEF Core!ExecuteByte, Rejected

(* A run that goes on is not rejected.                                       *)
LEMMA ApartFromRejection ==
    ASSUME NEW i, i # 0, NEW out
    PROVE  /\ Reading(i, out) # Rejected
           /\ Reading(i, out).state = i /\ Reading(i, out).emitted = out
BY DEF Reading, Rejected, Core!At, Core!Rejection

(* A lexeme is begun.                                                        *)
LEMMA LexemeBegins ==
    ASSUME Exported, NEW b \in Classes, NEW out
    PROVE  Core!BeginLexeme(b, out) = IF To(1, b) = 0 THEN Rejected ELSE Reading(To(1, b), out)
BY DEF Core!BeginLexeme, To, Rejected, Reading

(* A byte at the logical start begins a lexeme.                              *)
LEMMA FirstByte ==
    ASSUME Exported, NEW b \in Classes, NEW out \in Seq(Names)
    PROVE  Core!ExecuteByte(Reading(-1, out), b)
             = IF To(1, b) = 0 THEN Rejected ELSE Reading(To(1, b), out)
<1>1. Core!ByteStep(-1, b) = IF To(1, b) = 0 THEN Rejected ELSE Reading(To(1, b), <<>>)
    <2>1. -1 \notin 1..Len(states)
        OBVIOUS
    <2> QED
        BY <2>1, LexemeBegins DEF Core!ByteStep
<1>2. Reading(-1, out) # Rejected /\ Reading(-1, out).state = -1 /\ Reading(-1, out).emitted = out
    BY ApartFromRejection
<1>3. out \o <<>> = out
    OBVIOUS
<1>4. CASE To(1, b) = 0
    BY <1>1, <1>2, <1>4 DEF Core!ExecuteByte, Rejected
<1>5. CASE To(1, b) # 0
    <2>1. /\ Reading(To(1, b), <<>>) # Rejected /\ Reading(To(1, b), <<>>).state = To(1, b)
          /\ Reading(To(1, b), <<>>).emitted = <<>>
        BY <1>5, ApartFromRejection
    <2> QED
        BY <1>1, <1>2, <1>3, <1>5, <2>1 DEF Core!ExecuteByte, Rejected, Reading
<1> QED
    BY <1>4, <1>5

(* A byte in a lexeme goes on with it, or completes it and begins the next.  *)
LEMMA LaterByte ==
    ASSUME Exported, NEW i \in Indices, NEW b \in Classes, NEW out \in Seq(Names)
    PROVE  Core!ExecuteByte(Reading(i, out), b)
             = IF To(i, b) # 0 THEN Reading(To(i, b), out)
               ELSE IF labels[i] = NoName \/ To(1, b) = 0 THEN Rejected
               ELSE Reading(To(1, b), out \o <<labels[i]>>)
<1>1. i # 0 /\ i # -1 /\ i \in 1..Len(states)
    BY DEF Indices
<1>2. Core!ByteStep(i, b) = IF To(i, b) # 0 THEN Reading(To(i, b), <<>>)
                            ELSE IF labels[i] = NoName \/ To(1, b) = 0 THEN Rejected
                            ELSE Reading(To(1, b), <<labels[i]>>)
    <2>1. CASE To(i, b) # 0
        BY <1>1, <2>1 DEF Core!ByteStep, To, Reading
    <2>2. CASE To(i, b) = 0
        BY <1>1, <2>2, LexemeBegins DEF Core!ByteStep, To, Rejected
    <2> QED
        BY <2>1, <2>2
<1>3. Reading(i, out) # Rejected /\ Reading(i, out).state = i /\ Reading(i, out).emitted = out
    BY <1>1, ApartFromRejection
<1>4. out \o <<>> = out
    OBVIOUS
<1>5. ASSUME NEW j, j # 0, NEW more, Core!ByteStep(i, b) = Reading(j, more)
      PROVE  Core!ExecuteByte(Reading(i, out), b) = Reading(j, out \o more)
    <2>1. /\ Reading(j, more) # Rejected /\ Reading(j, more).state = j
          /\ Reading(j, more).emitted = more
        BY <1>5, ApartFromRejection
    <2> QED
        BY <1>3, <1>5, <2>1 DEF Core!ExecuteByte, Rejected, Reading
<1>6. CASE To(i, b) # 0
    BY <1>2, <1>4, <1>5, <1>6
<1>7. CASE To(i, b) = 0 /\ (labels[i] = NoName \/ To(1, b) = 0)
    BY <1>2, <1>3, <1>7 DEF Core!ExecuteByte, Rejected
<1>8. CASE To(i, b) = 0 /\ ~(labels[i] = NoName \/ To(1, b) = 0)
    BY <1>2, <1>5, <1>8
<1> QED
    BY <1>6, <1>7, <1>8
-----------------------------------------------------------------------------
(* The longest match, again and again: one step of it, with what comes after *)
(* taken from a function.                                                    *)
Lengths(bytes) == {n \in 1..Len(bytes) : Readings(SubSeq(bytes, 1, n)) # {}}
Longest(bytes) == Max(Lengths(bytes))
Remaining(bytes) == Suffix(bytes, Longest(bytes))
Unlexed == [lexes |-> FALSE]
MunchOnce(bytes, rest) ==
    IF After(bytes) # Dead THEN [lexes |-> TRUE, readings |-> <<>>, left |-> bytes]
    ELSE IF Lengths(bytes) = {} THEN Unlexed
    ELSE IF ~rest.lexes THEN rest
    ELSE [rest EXCEPT !.readings = <<Readings(SubSeq(bytes, 1, Longest(bytes)))>> \o @]
Recurs(bytes) == After(bytes) = Dead /\ Lengths(bytes) # {}

(* What is left after a lexeme is shorter, and is tried.                     *)
LEMMA RemainingIsShorter ==
    ASSUME NEW bytes \in Inputs, Recurs(bytes)
    PROVE  /\ Remaining(bytes) \in Inputs /\ Len(Remaining(bytes)) < Len(bytes)
           /\ Longest(bytes) \in 1..Len(bytes)
<1>1. bytes \in Seq(Classes) /\ Len(bytes) \in Nat
    BY SuffixesAreTried
<1>2. Lengths(bytes) \subseteq 1..Len(bytes) /\ Lengths(bytes) # {}
    BY DEF Lengths, Recurs
<1>3. Longest(bytes) \in 1..Len(bytes)
    BY <1>1, <1>2, MaxOfIndices DEF Longest
<1>4. Longest(bytes) \in 0..Len(bytes)
    BY <1>3
<1>5. Remaining(bytes) \in Inputs
    BY <1>4, SuffixesAreTried DEF Remaining, Suffix
<1>6. Len(Remaining(bytes)) = Len(bytes) - Longest(bytes)
    BY <1>1, <1>3 DEF Remaining, Suffix
<1> QED
    BY <1>1, <1>3, <1>5, <1>6

(* It depends on the function only where it goes on.                         *)
LEMMA OnceDepends ==
    ASSUME NEW bytes, NEW f, NEW g, Recurs(bytes) => f[Remaining(bytes)] = g[Remaining(bytes)]
    PROVE  MunchOnce(bytes, f[Remaining(bytes)]) = MunchOnce(bytes, g[Remaining(bytes)])
<1>1. CASE Recurs(bytes)
    BY <1>1
<1>2. CASE ~Recurs(bytes)
    BY <1>2 DEF Recurs, MunchOnce
<1> QED
    BY <1>1, <1>2

(* There is such a function for the inputs up to a length, and one only.     *)
UpTo(k) == {bytes \in Inputs : Len(bytes) <= k}
Munches(f, S) == f = [bytes \in S |-> MunchOnce(bytes, f[Remaining(bytes)])]

(* There is one at most.                                                     *)
LEMMA OneMunch ==
    ASSUME NEW k \in Nat, NEW f, Munches(f, UpTo(k)), NEW m \in Nat, NEW g, Munches(g, UpTo(m))
    PROVE  \A bytes \in UpTo(k) \cap UpTo(m) : f[bytes] = g[bytes]
<1> DEFINE differ(n) == \E bytes \in UpTo(k) \cap UpTo(m) : Len(bytes) = n /\ f[bytes] # g[bytes]
           failing == {n \in Nat : differ(n)}
<1>1. \A bytes \in Inputs : Len(bytes) \in Nat
    BY SuffixesAreTried
<1> SUFFICES ASSUME failing # {} PROVE FALSE
    BY <1>1 DEF UpTo
<1>2. failing \subseteq Nat
    OBVIOUS
<1> HIDE DEF failing
<1>3. PICK n \in failing : \A j \in failing : n <= j
    BY <1>2, LeastExists
<1>4. n \in Nat /\ differ(n)
    BY <1>3 DEF failing
<1>5. PICK bytes \in UpTo(k) \cap UpTo(m) : Len(bytes) = n /\ f[bytes] # g[bytes]
    BY <1>4
<1>6. ASSUME Recurs(bytes) PROVE f[Remaining(bytes)] = g[Remaining(bytes)]
    <2>1. /\ Remaining(bytes) \in Inputs /\ Len(Remaining(bytes)) < n
          /\ Len(Remaining(bytes)) \in Nat
          /\ n <= k /\ n <= m
        BY <1>1, <1>5, <1>6, RemainingIsShorter DEF UpTo
    <2>2. Remaining(bytes) \in UpTo(k) \cap UpTo(m)
        BY <1>4, <2>1 DEF UpTo
    <2>3. ~(n <= Len(Remaining(bytes)))
        BY <1>4, <2>1
    <2>4. ~differ(Len(Remaining(bytes)))
        BY <1>3, <2>1, <2>3 DEF failing
    <2> QED
        BY <2>2, <2>4
<1>7. MunchOnce(bytes, f[Remaining(bytes)]) = MunchOnce(bytes, g[Remaining(bytes)])
    BY <1>6, OnceDepends
<1> QED
    BY <1>5, <1>7 DEF Munches

(* There is a function for every length.                                     *)
LEMMA MunchUpTo ==
    ASSUME NEW k \in Nat
    PROVE  \E f : Munches(f, UpTo(k))
<1> DEFINE failing == {n \in Nat : ~\E f : Munches(f, UpTo(n))}
<1> SUFFICES ASSUME failing # {} PROVE FALSE
    OBVIOUS
<1>1. failing \subseteq Nat /\ \A bytes \in Inputs : Len(bytes) \in Nat
    BY SuffixesAreTried
<1> HIDE DEF failing
<1>2. PICK n \in failing : \A j \in failing : n <= j
    BY <1>1, LeastExists
<1>3. n \in Nat /\ ~\E f : Munches(f, UpTo(n))
    BY <1>2 DEF failing
<1>4. \E g : n # 0 => Munches(g, UpTo(n - 1))
    <2>1. CASE n = 0
        BY <2>1
    <2>2. CASE n # 0
        <3>1. n - 1 \in Nat /\ ~(n <= n - 1)
            BY <1>3, <2>2
        <3> QED
            BY <1>2, <3>1 DEF failing
    <2> QED
        BY <2>1, <2>2
<1>5. PICK g : n # 0 => Munches(g, UpTo(n - 1))
    BY <1>4
<1> DEFINE f == [bytes \in UpTo(n) |-> MunchOnce(bytes, g[Remaining(bytes)])]
<1>6. ASSUME NEW bytes \in UpTo(n), Recurs(bytes)
      PROVE  f[Remaining(bytes)] = g[Remaining(bytes)]
    <2>1. /\ Remaining(bytes) \in Inputs /\ Len(Remaining(bytes)) < Len(bytes)
          /\ Len(bytes) \in Nat /\ Len(Remaining(bytes)) \in Nat /\ Len(bytes) <= n
        BY <1>1, <1>6, RemainingIsShorter DEF UpTo
    <2>2. Len(Remaining(bytes)) <= n - 1 /\ n # 0 /\ Len(Remaining(bytes)) <= n
        BY <1>3, <2>1
    <2>3. Remaining(bytes) \in UpTo(n - 1) /\ Remaining(bytes) \in UpTo(n)
        BY <2>1, <2>2 DEF UpTo
    <2>4. g[Remaining(bytes)] = MunchOnce(Remaining(bytes), g[Remaining(Remaining(bytes))])
        BY <1>5, <2>2, <2>3 DEF Munches
    <2> QED
        BY <2>3, <2>4
<1>7. \A bytes \in UpTo(n) :
        MunchOnce(bytes, g[Remaining(bytes)]) = MunchOnce(bytes, f[Remaining(bytes)])
    <2> TAKE bytes \in UpTo(n)
    <2> HIDE DEF f
    <2> QED
        BY <1>6, OnceDepends
<1>8. f = [bytes \in UpTo(n) |-> MunchOnce(bytes, g[Remaining(bytes)])]
    OBVIOUS
<1>9. Munches(f, UpTo(n))
    <2> HIDE DEF f
    <2> QED
        BY <1>7, <1>8 DEF Munches
<1> QED
    BY <1>3, <1>9

(* There is one for all inputs: it has for each what the function of its     *)
(* length has.                                                               *)
LEMMA MunchExists == \E f : Munches(f, Inputs)
<1> DEFINE F(n) == CHOOSE f : Munches(f, UpTo(n))
           f0 == [bytes \in Inputs |-> F(Len(bytes))[bytes]]
<1>1. \A bytes \in Inputs : Len(bytes) \in Nat /\ bytes \in UpTo(Len(bytes))
    <2>1. \A bytes \in Inputs : Len(bytes) \in Nat /\ Len(bytes) <= Len(bytes)
        BY SuffixesAreTried
    <2> QED
        BY <2>1 DEF UpTo
<1>2. \A n \in Nat : Munches(F(n), UpTo(n))
    <2> TAKE n \in Nat
    <2>1. \E f : Munches(f, UpTo(n))
        BY MunchUpTo
    <2> QED
        BY <2>1, Zenon
<1> HIDE DEF F
<1>3. ASSUME NEW bytes \in Inputs, Recurs(bytes)
      PROVE  F(Len(bytes))[Remaining(bytes)] = f0[Remaining(bytes)]
    <2>1. Remaining(bytes) \in Inputs /\ Len(Remaining(bytes)) < Len(bytes)
        BY <1>3, RemainingIsShorter
    <2>2. /\ Remaining(bytes) \in UpTo(Len(bytes))
          /\ Remaining(bytes) \in UpTo(Len(Remaining(bytes)))
        BY <1>1, <2>1 DEF UpTo
    <2>3. F(Len(bytes))[Remaining(bytes)] = F(Len(Remaining(bytes)))[Remaining(bytes)]
        BY <1>1, <1>2, <2>1, <2>2, OneMunch
    <2> QED
        BY <2>1, <2>3
<1>4. \A bytes \in Inputs : f0[bytes] = MunchOnce(bytes, f0[Remaining(bytes)])
    <2> TAKE bytes \in Inputs
    <2>1. f0[bytes] = F(Len(bytes))[bytes]
        OBVIOUS
    <2>2. F(Len(bytes))[bytes] = MunchOnce(bytes, F(Len(bytes))[Remaining(bytes)])
        BY <1>1, <1>2 DEF Munches
    <2> HIDE DEF f0
    <2>3. MunchOnce(bytes, F(Len(bytes))[Remaining(bytes)]) = MunchOnce(bytes, f0[Remaining(bytes)])
        BY <1>3, OnceDepends
    <2> QED
        BY <2>1, <2>2, <2>3
<1>5. f0 = [bytes \in Inputs |-> f0[bytes]]
    OBVIOUS
<1>6. Munches(f0, Inputs)
    <2> HIDE DEF f0
    <2> QED
        BY <1>4, <1>5, Zenon DEF Munches
<1> QED
    BY <1>6

(* So the longest match, again and again, is what its definition says.       *)
LEMMA MunchRecurs == \A bytes \in Inputs : Munch[bytes] = MunchOnce(bytes, Munch[Remaining(bytes)])
<1>1. Munch = CHOOSE f : Munches(f, Inputs)
    BY DEF Munch, Munches, MunchOnce, Unlexed, Remaining, Longest, Lengths
<1>2. Munches(Munch, Inputs)
    BY <1>1, MunchExists, Zenon
<1> QED
    BY <1>2 DEF Munches
-----------------------------------------------------------------------------
(* A run is of states and terminals, or rejected.                            *)
Runs == {Rejected} \cup {Reading(i, out) : i \in {-1} \cup Indices, out \in Seq(Names)}

(* A byte leads from such a run to such a run.                               *)
LEMMA ByteRuns ==
    ASSUME Exported, NEW at \in Runs, NEW b \in Classes
    PROVE  Core!ExecuteByte(at, b) \in Runs
<1>1. CASE at = Rejected
    BY <1>1, NothingRejected DEF Runs
<1>2. CASE at # Rejected
    <2>1. PICK i \in {-1} \cup Indices, out \in Seq(Names) : at = Reading(i, out)
        BY <1>2 DEF Runs
    <2>2. \A j \in Indices, more \in Seq(Names) : Reading(j, more) \in Runs
        BY DEF Runs
    <2>3. 1 \in Indices /\ \A j \in Indices : To(j, b) # 0 => To(j, b) \in Indices
        BY ExportedTables, TransitionsLead
    <2>4. CASE i = -1
        BY <2>1, <2>2, <2>3, <2>4, FirstByte DEF Runs
    <2>5. CASE i \in Indices
        <3>1. labels[i] \in Names \cup {NoName}
            <4>1. i \in 1..Len(labels) /\ labels \in Seq(Names \cup {NoName})
                BY <2>5 DEF Exported, TablesRight, AllChecked, ExportSound, Copied, Indices
            <4> QED
                BY <4>1
        <3>2. labels[i] # NoName => out \o <<labels[i]>> \in Seq(Names)
            BY <3>1
        <3>3. Core!ExecuteByte(at, b)
                = IF To(i, b) # 0 THEN Reading(To(i, b), out)
                  ELSE IF labels[i] = NoName \/ To(1, b) = 0 THEN Rejected
                  ELSE Reading(To(1, b), out \o <<labels[i]>>)
            BY <2>1, <2>5, LaterByte
        <3>4. Rejected \in Runs
            BY DEF Runs
        <3> QED
            BY <2>2, <2>3, <2>5, <3>2, <3>3, <3>4
    <2> QED
        BY <2>4, <2>5
<1> QED
    BY <1>1, <1>2

(* So every run is one.                                                      *)
LEMMA RunTyped ==
    ASSUME Exported, NEW bytes \in Seq(Classes), NEW h, IsRun(h, bytes)
    PROVE  \A k \in 0..Len(bytes) : h[k] \in Runs
<1> DEFINE failing == {k \in 0..Len(bytes) : h[k] \notin Runs}
<1> SUFFICES ASSUME failing # {} PROVE FALSE
    OBVIOUS
<1>1. failing \subseteq Nat /\ Len(bytes) \in Nat
    OBVIOUS
<1>2. PICK k \in failing : \A j \in failing : k <= j
    <2> HIDE DEF failing
    <2> QED
        BY <1>1, LeastExists
<1>3. k \in 0..Len(bytes) /\ h[k] \notin Runs /\ k # 0
    <2>1. <<>> \in Seq(Names)
        OBVIOUS
    <2>2. h[0] \in Runs
        <3>1. \A i \in {-1} \cup Indices, out \in Seq(Names) : Reading(i, out) \in Runs
            BY DEF Runs
        <3>2. Reading(-1, <<>>) \in Runs
            BY <2>1, <3>1
        <3> QED
            BY <3>2 DEF IsRun
    <2> QED
        BY <2>2
<1>4. k \in 1..Len(bytes) /\ k - 1 \in 0..Len(bytes) /\ ~(k <= k - 1) /\ bytes[k] \in Classes
    BY <1>1, <1>3
<1>5. h[k - 1] \in Runs
    BY <1>2, <1>4
<1> HIDE DEF failing
<1> QED
    BY <1>3, <1>4, <1>5, ByteRuns DEF IsRun

(* Rejected once, rejected for good.                                         *)
LEMMA RejectedForGood ==
    ASSUME NEW bytes \in Seq(Classes), NEW h, IsRun(h, bytes),
           NEW j \in 0..Len(bytes), h[j] = Rejected
    PROVE  \A k \in j..Len(bytes) : h[k] = Rejected
<1> DEFINE failing == {k \in j..Len(bytes) : h[k] # Rejected}
<1> SUFFICES ASSUME failing # {} PROVE FALSE
    OBVIOUS
<1>1. failing \subseteq Nat /\ Len(bytes) \in Nat
    OBVIOUS
<1>2. PICK k \in failing : \A m \in failing : k <= m
    <2> HIDE DEF failing
    <2> QED
        BY <1>1, LeastExists
<1>3. k \in j..Len(bytes) /\ h[k] # Rejected /\ k # j
    OBVIOUS
<1>4. k \in 1..Len(bytes) /\ k - 1 \in j..Len(bytes) /\ ~(k <= k - 1)
    BY <1>1, <1>3
<1>5. h[k - 1] = Rejected
    BY <1>2, <1>4
<1> HIDE DEF failing
<1> QED
    BY <1>3, <1>4, <1>5, NothingRejected DEF IsRun

(* The core follows the automaton until it is dead, and emits nothing.       *)
LEMMA RunFollows ==
    ASSUME Exported, NEW bytes \in Seq(Classes), NEW g, IsPath(g, bytes), NEW h, IsRun(h, bytes)
    PROVE  \A k \in 0..Len(bytes) : g[k] # Dead =>
              \E i \in Indices : states[i] = g[k] /\ h[k] = Reading(IF k = 0 THEN -1 ELSE i, <<>>)
<1> DEFINE follows(k) == \E i \in Indices : /\ states[i] = g[k]
                                            /\ h[k] = Reading(IF k = 0 THEN -1 ELSE i, <<>>)
           failing == {k \in 0..Len(bytes) : g[k] # Dead /\ ~follows(k)}
<1> SUFFICES ASSUME failing # {} PROVE FALSE
    OBVIOUS
<1>1. failing \subseteq Nat /\ Len(bytes) \in Nat
    OBVIOUS
<1>2. PICK k \in failing : \A j \in failing : k <= j
    <2> HIDE DEF failing
    <2> QED
        BY <1>1, LeastExists
<1>3. k \in 0..Len(bytes) /\ g[k] # Dead /\ ~follows(k)
    OBVIOUS
<1>4. k # 0
    <2>1. follows(0)
        BY ExportedTables DEF IsPath, IsRun
    <2> QED
        BY <1>3, <2>1
<1>5. k \in 1..Len(bytes) /\ k - 1 \in 0..Len(bytes) /\ ~(k <= k - 1) /\ bytes[k] \in Classes
    BY <1>1, <1>3, <1>4
<1>6. g[k] = Moved(g[k - 1], bytes[k]) /\ h[k] = Core!ExecuteByte(h[k - 1], bytes[k])
    BY <1>5 DEF IsPath, IsRun
<1>7. g[k - 1] # Dead
    BY <1>3, <1>6 DEF Moved
<1>8. PICK i \in Indices : /\ states[i] = g[k - 1]
                           /\ h[k - 1] = Reading(IF k - 1 = 0 THEN -1 ELSE i, <<>>)
    BY <1>2, <1>5, <1>7
<1> HIDE DEF failing, follows
<1>9. To(i, bytes[k]) # 0 /\ To(i, bytes[k]) \in Indices /\ states[To(i, bytes[k])] = g[k]
    BY <1>3, <1>5, <1>6, <1>8, TransitionsLead
<1>10. h[k] = Reading(To(i, bytes[k]), <<>>)
    <2>1. <<>> \in Seq(Names)
        OBVIOUS
    <2>2. CASE k - 1 = 0
        <3>1. i = 1
            <4>1. states[i] = states[1] /\ 1 \in Indices
                BY <1>8, <2>2, ExportedTables DEF IsPath
            <4> QED
                BY <4>1, ExportedTables
        <3> QED
            BY <1>5, <1>6, <1>8, <1>9, <2>1, <2>2, <3>1, FirstByte
    <2>3. CASE k - 1 # 0
        <3>1. h[k - 1] = Reading(i, <<>>)
            BY <1>8, <2>3
        <3>2. Core!ExecuteByte(Reading(i, <<>>), bytes[k])
                = IF To(i, bytes[k]) # 0 THEN Reading(To(i, bytes[k]), <<>>)
                  ELSE IF labels[i] = NoName \/ To(1, bytes[k]) = 0 THEN Rejected
                  ELSE Reading(To(1, bytes[k]), <<>> \o <<labels[i]>>)
            BY <1>5, <2>1, LaterByte
        <3> QED
            BY <1>6, <1>9, <3>1, <3>2
    <2> QED
        BY <2>2, <2>3
<1>11. follows(k)
    BY <1>4, <1>9, <1>10 DEF follows
<1> QED
    BY <1>3, <1>11
-----------------------------------------------------------------------------
(* A lexeme that is complete only adds its terminal to what comes after it.  *)
Prepended(name, at) == IF at = Rejected THEN Rejected ELSE Reading(at.state, <<name>> \o at.emitted)

(* A byte does the same to a run whether or not a terminal was emitted       *)
(* before it.                                                                *)
LEMMA PrependedRuns ==
    ASSUME Exported, NEW name \in Names, NEW at \in Runs, NEW b \in Classes
    PROVE  Core!ExecuteByte(Prepended(name, at), b) = Prepended(name, Core!ExecuteByte(at, b))
<1>1. CASE at = Rejected
    BY <1>1, NothingRejected DEF Prepended
<1>2. CASE at # Rejected
    <2>1. PICK i \in {-1} \cup Indices, out \in Seq(Names) : at = Reading(i, out)
        BY <1>2 DEF Runs
    <2>2. ASSUME NEW j, j # 0, NEW more
          PROVE  Prepended(name, Reading(j, more)) = Reading(j, <<name>> \o more)
        BY <2>2, ApartFromRejection DEF Prepended
    <2>3. Prepended(name, Rejected) = Rejected
        BY DEF Prepended
    <2>4. <<name>> \o out \in Seq(Names) /\ i # 0
        BY DEF Indices
    <2>5. Prepended(name, at) = Reading(i, <<name>> \o out)
        BY <2>1, <2>2, <2>4
    <2>6. CASE i = -1
        BY <2>1, <2>2, <2>3, <2>4, <2>5, <2>6, FirstByte
    <2>7. CASE i \in Indices
        <3>1. CASE To(i, b) # 0
            <4>1. Core!ExecuteByte(at, b) = Reading(To(i, b), out)
                BY <2>1, <2>7, <3>1, LaterByte
            <4>2. Core!ExecuteByte(Prepended(name, at), b) = Reading(To(i, b), <<name>> \o out)
                BY <2>4, <2>5, <2>7, <3>1, LaterByte
            <4> QED
                BY <2>2, <3>1, <4>1, <4>2
        <3>2. CASE To(i, b) = 0 /\ (labels[i] = NoName \/ To(1, b) = 0)
            BY <2>1, <2>3, <2>4, <2>5, <2>7, <3>2, LaterByte
        <3>3. CASE To(i, b) = 0 /\ ~(labels[i] = NoName \/ To(1, b) = 0)
            <4>1. Core!ExecuteByte(at, b) = Reading(To(1, b), out \o <<labels[i]>>)
                BY <2>1, <2>7, <3>3, LaterByte
            <4>2. Core!ExecuteByte(Prepended(name, at), b)
                    = Reading(To(1, b), (<<name>> \o out) \o <<labels[i]>>)
                BY <2>4, <2>5, <2>7, <3>3, LaterByte
            <4>3. labels[i] \in Names
                <5>1. i \in 1..Len(labels) /\ labels \in Seq(Names \cup {NoName})
                    BY <2>7 DEF Exported, TablesRight, AllChecked, ExportSound, Copied, Indices
                <5> QED
                    BY <3>3, <5>1
            <4>4. (<<name>> \o out) \o <<labels[i]>> = <<name>> \o (out \o <<labels[i]>>)
                <5>1. <<name>> \in Seq(Names) /\ <<labels[i]>> \in Seq(Names)
                    BY <4>3
                <5> QED
                    BY <5>1, ConcatAssociative
            <4> QED
                BY <2>2, <3>3, <4>1, <4>2, <4>4
        <3> QED
            BY <3>1, <3>2, <3>3
    <2> QED
        BY <2>6, <2>7
<1> QED
    BY <1>1, <1>2

(* After the last byte of a lexeme, the core runs as it would from the       *)
(* logical start.                                                            *)
LEMMA RemainderRuns ==
    ASSUME Exported, NEW bytes \in Seq(Classes), NEW h, IsRun(h, bytes),
           NEW k \in 1..Len(bytes), k < Len(bytes),
           NEW i \in Indices, h[k] = Reading(i, <<>>), To(i, bytes[k + 1]) = 0, labels[i] \in Names,
           NEW after, IsRun(after, Suffix(bytes, k))
    PROVE  \A j \in 1..Len(bytes) - k : h[k + j] = Prepended(labels[i], after[j])
<1> DEFINE rest == Suffix(bytes, k)
           failing == {j \in 1..Len(bytes) - k : h[k + j] # Prepended(labels[i], after[j])}
<1>1. /\ Len(bytes) \in Nat /\ k \in Nat /\ rest \in Seq(Classes) /\ Len(rest) = Len(bytes) - k
      /\ \A j \in 1..Len(bytes) - k : rest[j] = bytes[k + j]
    BY DEF Suffix
<1> SUFFICES ASSUME failing # {} PROVE FALSE
    OBVIOUS
<1>2. failing \subseteq Nat
    OBVIOUS
<1>3. PICK j \in failing : \A m \in failing : j <= m
    <2> HIDE DEF failing
    <2> QED
        BY <1>2, LeastExists
<1>4. j \in 1..Len(bytes) - k /\ h[k + j] # Prepended(labels[i], after[j])
    OBVIOUS
<1>5. /\ k + j \in 1..Len(bytes) /\ (k + j) - 1 = k + (j - 1) /\ j \in 1..Len(rest)
      /\ bytes[k + j] \in Classes
    BY <1>1, <1>4
<1>6. h[k + j] = Core!ExecuteByte(h[k + (j - 1)], bytes[k + j])
    <2>1. h[k + j] = Core!ExecuteByte(h[(k + j) - 1], bytes[k + j])
        BY <1>5 DEF IsRun
    <2> QED
        BY <1>5, <2>1
<1>7. after[j] = Core!ExecuteByte(after[j - 1], bytes[k + j])
    <2>1. after[j] = Core!ExecuteByte(after[j - 1], rest[j])
        BY <1>5 DEF IsRun
    <2> QED
        BY <1>1, <1>4, <2>1
<1>8. CASE j = 1
    <2>1. h[k + (j - 1)] = Reading(i, <<>>) /\ after[j - 1] = Reading(-1, <<>>)
        <3>1. k + (j - 1) = k /\ j - 1 = 0
            BY <1>1, <1>8
        <3> QED
            BY <3>1 DEF IsRun
    <2>2. /\ <<>> \in Seq(Names) /\ <<>> \o <<labels[i]>> = <<labels[i]>>
          /\ <<labels[i]>> \o <<>> = <<labels[i]>> /\ labels[i] # NoName
        BY ExportAssumption
    <2>3. To(i, bytes[k + j]) = 0
        BY <1>8
    <2>4. h[k + j] = IF To(1, bytes[k + j]) = 0 THEN Rejected
                     ELSE Reading(To(1, bytes[k + j]), <<labels[i]>>)
        <3>1. Core!ExecuteByte(Reading(i, <<>>), bytes[k + j])
                = IF To(i, bytes[k + j]) # 0 THEN Reading(To(i, bytes[k + j]), <<>>)
                  ELSE IF labels[i] = NoName \/ To(1, bytes[k + j]) = 0 THEN Rejected
                  ELSE Reading(To(1, bytes[k + j]), <<>> \o <<labels[i]>>)
            BY <1>5, <2>2, LaterByte
        <3> QED
            BY <1>6, <2>1, <2>2, <2>3, <3>1
    <2>5. after[j] = IF To(1, bytes[k + j]) = 0 THEN Rejected ELSE Reading(To(1, bytes[k + j]), <<>>)
        BY <1>5, <1>7, <2>1, <2>2, FirstByte
    <2>6. CASE To(1, bytes[k + j]) = 0
        BY <1>4, <2>4, <2>5, <2>6 DEF Prepended
    <2>7. CASE To(1, bytes[k + j]) # 0
        <3>1. Prepended(labels[i], after[j]) = Reading(To(1, bytes[k + j]), <<labels[i]>> \o <<>>)
            <4>1. after[j] = Reading(To(1, bytes[k + j]), <<>>)
                BY <2>5, <2>7
            <4>2. /\ after[j] # Rejected /\ after[j].state = To(1, bytes[k + j])
                  /\ after[j].emitted = <<>>
                BY <2>7, <4>1, ApartFromRejection
            <4> QED
                BY <4>2 DEF Prepended
        <3> QED
            BY <1>4, <2>2, <2>4, <2>7, <3>1
    <2> QED
        BY <2>6, <2>7
<1>9. CASE j # 1
    <2>1. j - 1 \in 1..Len(bytes) - k /\ ~(j <= j - 1) /\ j - 1 \in 0..Len(rest)
        BY <1>1, <1>4, <1>9
    <2>2. h[k + (j - 1)] = Prepended(labels[i], after[j - 1])
        BY <1>3, <2>1
    <2> HIDE DEF failing, rest
    <2>3. after[j - 1] \in Runs
        BY <1>1, <2>1, RunTyped DEF rest
    <2>4. h[k + j] = Prepended(labels[i], after[j])
        BY <1>5, <1>6, <1>7, <2>2, <2>3, PrependedRuns
    <2> QED
        BY <1>4, <2>4
<1> QED
    BY <1>8, <1>9
-----------------------------------------------------------------------------
(* The core and the longest match say the same of some bytes.                *)
CoreOf(bytes) == Core!ExecuteBytes(-1, bytes)
Singly(out) == [i \in 1..Len(out) |-> {out[i]}]
Reads == [lexes : {TRUE}, readings : Seq(SUBSET Names), left : Inputs]
Agree(bytes) ==
    \/ Munch[bytes] = Unlexed /\ CoreOf(bytes) = Rejected
    \/ /\ Munch[bytes] \in Reads /\ Residual(Munch[bytes].left) # 0
       /\ \E out \in Seq(Names) : /\ Munch[bytes].readings = Singly(out)
                                  /\ CoreOf(bytes) = Reading(Residual(Munch[bytes].left), out)

(* What may still be the beginning of a lexeme is left by both.              *)
LEMMA AliveAgree ==
    ASSUME Exported, NEW bytes \in Inputs, After(bytes) # Dead
    PROVE  Agree(bytes)
<1>1. bytes \in Seq(Classes) /\ Len(bytes) \in Nat
    BY SuffixesAreTried
<1>2. PICK g : IsPath(g, bytes) /\ After(bytes) = g[Len(bytes)]
    BY <1>1, PathEnds, ExportedTables
<1>3. PICK h : IsRun(h, bytes) /\ CoreOf(bytes) = h[Len(bytes)]
    BY <1>1, RunEnds DEF CoreOf
<1>4. Len(bytes) \in 0..Len(bytes)
    BY <1>1
<1>5. PICK i \in Indices : /\ states[i] = After(bytes)
                           /\ CoreOf(bytes) = Reading(IF Len(bytes) = 0 THEN -1 ELSE i, <<>>)
    BY <1>1, <1>2, <1>3, <1>4, RunFollows
<1>6. Residual(bytes) = IF Len(bytes) = 0 THEN -1 ELSE i
    <2>1. bytes = <<>> <=> Len(bytes) = 0
        BY <1>1
    <2>2. (CHOOSE j \in 1..Len(states) : states[j] = After(bytes)) = i
        BY <1>5, ExportedTables DEF Indices
    <2>3. CASE Len(bytes) = 0
        BY <2>1, <2>3 DEF Residual
    <2>4. CASE Len(bytes) # 0
        <3>1. bytes # <<>>
            BY <2>1, <2>4
        <3>2. Residual(bytes) = CHOOSE j \in 1..Len(states) : states[j] = After(bytes)
            BY <3>1, Zenon DEF Residual
        <3> QED
            BY <2>2, <2>4, <3>2
    <2> QED
        BY <2>3, <2>4
<1>7. i # 0
    BY DEF Indices
<1>8. Munch[bytes] = [lexes |-> TRUE, readings |-> <<>>, left |-> bytes]
    BY MunchRecurs DEF MunchOnce
<1>9. <<>> \in Seq(Names) /\ Singly(<<>>) = <<>>
    BY DEF Singly
<1>10. CoreOf(bytes) = Reading(Residual(bytes), <<>>) /\ Residual(bytes) # 0
    BY <1>5, <1>6, <1>7
<1>11. /\ Munch[bytes] \in Reads /\ Munch[bytes].left = bytes
       /\ Munch[bytes].readings = Singly(<<>>)
    <2>1. <<>> \in Seq(SUBSET Names)
        OBVIOUS
    <2> QED
        BY <1>8, <1>9, <2>1 DEF Reads
<1> QED
    BY <1>9, <1>10, <1>11, Zenon DEF Agree

(* Where the automaton dies.                                                 *)
LEMMA LastAlive ==
    ASSUME Exported, NEW bytes \in Seq(Classes), NEW g, IsPath(g, bytes), g[Len(bytes)] = Dead
    PROVE  \E k \in 0..Len(bytes) :
              /\ k < Len(bytes) /\ g[k] # Dead /\ g[k + 1] = Dead
              /\ \A j \in 0..Len(bytes) : g[j] # Dead <=> j <= k
<1> DEFINE dead == {k \in 0..Len(bytes) : g[k] = Dead}
<1>1. dead \subseteq Nat /\ Len(bytes) \in dead /\ Len(bytes) \in Nat
    OBVIOUS
<1>2. PICK m \in dead : \A j \in dead : m <= j
    <2> HIDE DEF dead
    <2> QED
        BY <1>1, LeastExists
<1>3. m \in 0..Len(bytes) /\ g[m] = Dead
    OBVIOUS
<1>4. m # 0
    BY <1>3, ExportedTables DEF IsPath
<1>5. m - 1 \in 0..Len(bytes) /\ m - 1 < Len(bytes) /\ (m - 1) + 1 = m /\ m \in Nat
    BY <1>1, <1>3, <1>4
<1>6. \A j \in 0..Len(bytes) : g[j] # Dead => j <= m - 1
    <2>1. \A k \in m..Len(bytes) : g[k] = Dead
        BY <1>3, DeadForGood
    <2> HIDE DEF dead
    <2> QED
        BY <1>1, <1>5, <2>1
<1>7. \A j \in 0..Len(bytes) : j <= m - 1 => g[j] # Dead
    <2> TAKE j \in 0..Len(bytes)
    <2>1. g[j] = Dead => m <= j
        BY <1>2
    <2> HIDE DEF dead
    <2> QED
        BY <1>5, <2>1
<1> HIDE DEF dead
<1> QED
    BY <1>3, <1>5, <1>6, <1>7

(* A beginning has readings if it is complete.                               *)
LEMMA CompleteReads ==
    ASSUME Exported, NEW bytes \in Seq(Classes), NEW g, IsPath(g, bytes), NEW j \in 0..Len(bytes)
    PROVE  Readings(SubSeq(bytes, 1, j)) # {} <=> Completes(g[j])
<1> DEFINE begin == SubSeq(bytes, 1, j)
<1>1. After(begin) = g[j]
    BY PathOfBeginnings, ExportedTables
<1> HIDE DEF begin
<1>2. CASE g[j] = Dead
    <2>1. Readings(begin) = {}
        BY <1>1, <1>2, DeadReadsNothing
    <2>2. ~Completes(g[j])
        BY <1>2, ExportedTables DEF Completes
    <2> QED
        BY <2>1, <2>2 DEF begin
<1>3. CASE g[j] # Dead
    <2>1. PICK i \in Indices : states[i] = g[j]
        BY <1>3, PathIsMet
    <2>2. Readings(begin) = IF labels[i] = NoName THEN {} ELSE {labels[i]}
        BY <1>1, <2>1, LabelsAreReadings
    <2>3. Completes(g[j]) <=> labels[i] # NoName
        BY <2>1, ExportedTables DEF Completes
    <2> QED
        BY <2>2, <2>3 DEF begin
<1> QED
    BY <1>2, <1>3
-----------------------------------------------------------------------------
(* The automaton dies in a state that completes nothing: no beginning is a   *)
(* lexeme, and the core rejects.                                             *)
LEMMA IncompleteAgree ==
    ASSUME Exported, NEW bytes \in Inputs, NEW g, IsPath(g, bytes), After(bytes) = Dead,
           NEW k \in 0..Len(bytes), k < Len(bytes), g[k] # Dead, g[k + 1] = Dead,
           \A j \in 0..Len(bytes) : g[j] # Dead <=> j <= k,
           ~Completes(g[k])
    PROVE  Agree(bytes)
<1>1. bytes \in Seq(Classes) /\ Len(bytes) \in Nat
    BY SuffixesAreTried
<1>2. \A j \in 1..Len(bytes) : Readings(SubSeq(bytes, 1, j)) = {}
    <2> SUFFICES ASSUME NEW j \in 1..Len(bytes), Completes(g[j]) PROVE FALSE
        <3>1. \A j \in 1..Len(bytes) : j \in 0..Len(bytes)
            BY <1>1
        <3> QED
            BY <1>1, <3>1, CompleteReads
    <2>1. j \in 0..Len(bytes) /\ k \in Nat
        BY <1>1
    <2>2. g[j] # Dead
        BY ExportedTables DEF Completes
    <2>3. j <= k /\ k \in j..Len(bytes)
        BY <1>1, <2>1, <2>2
    <2> QED
        BY <1>1, <2>1, <2>3, CompleteUntilDead
<1>3. Lengths(bytes) = {}
    BY <1>2 DEF Lengths
<1>4. Munch[bytes] = Unlexed
    BY <1>3, MunchRecurs DEF MunchOnce
<1>5. PICK h : IsRun(h, bytes) /\ CoreOf(bytes) = h[Len(bytes)]
    BY <1>1, RunEnds DEF CoreOf
<1>6. PICK i \in Indices : states[i] = g[k] /\ h[k] = Reading(IF k = 0 THEN -1 ELSE i, <<>>)
    BY <1>1, <1>5, RunFollows
<1>7. /\ k + 1 \in 1..Len(bytes) /\ (k + 1) - 1 = k /\ k + 1 \in 0..Len(bytes)
      /\ bytes[k + 1] \in Classes /\ Len(bytes) \in (k + 1)..Len(bytes)
    BY <1>1
<1>8. h[k + 1] = Core!ExecuteByte(h[k], bytes[k + 1]) /\ g[k + 1] = Moved(g[k], bytes[k + 1])
    <2>1. h[k + 1] = Core!ExecuteByte(h[(k + 1) - 1], bytes[k + 1])
        BY <1>5, <1>7 DEF IsRun
    <2>2. g[k + 1] = Moved(g[(k + 1) - 1], bytes[k + 1])
        BY <1>7 DEF IsPath
    <2> QED
        BY <1>7, <2>1, <2>2
<1>9. To(i, bytes[k + 1]) = 0 /\ labels[i] = NoName
    <2>1. To(i, bytes[k + 1]) = 0
        BY <1>6, <1>7, <1>8, TransitionsLead
    <2> QED
        BY <1>6, <2>1 DEF Completes
<1>10. h[k + 1] = Rejected
    <2>1. <<>> \in Seq(Names)
        OBVIOUS
    <2>2. CASE k = 0
        <3>1. i = 1
            <4>1. states[i] = states[1] /\ 1 \in Indices
                BY <1>6, <2>2, ExportedTables DEF IsPath
            <4> QED
                BY <4>1, ExportedTables
        <3>2. h[k] = Reading(-1, <<>>)
            BY <1>6, <2>2
        <3>3. Core!ExecuteByte(Reading(-1, <<>>), bytes[k + 1])
                = IF To(1, bytes[k + 1]) = 0 THEN Rejected ELSE Reading(To(1, bytes[k + 1]), <<>>)
            BY <1>7, <2>1, FirstByte
        <3> QED
            BY <1>8, <1>9, <3>1, <3>2, <3>3
    <2>3. CASE k # 0
        <3>1. h[k] = Reading(i, <<>>)
            BY <1>6, <2>3
        <3>2. Core!ExecuteByte(Reading(i, <<>>), bytes[k + 1])
                = IF To(i, bytes[k + 1]) # 0 THEN Reading(To(i, bytes[k + 1]), <<>>)
                  ELSE IF labels[i] = NoName \/ To(1, bytes[k + 1]) = 0 THEN Rejected
                  ELSE Reading(To(1, bytes[k + 1]), <<>> \o <<labels[i]>>)
            BY <1>7, <2>1, LaterByte
        <3> QED
            BY <1>8, <1>9, <3>1, <3>2
    <2> QED
        BY <2>2, <2>3
<1>11. CoreOf(bytes) = Rejected
    BY <1>1, <1>5, <1>7, <1>10, RejectedForGood
<1> QED
    BY <1>4, <1>11 DEF Agree

(* A sequence with one element more at its head.                             *)
LEMMA OneBefore ==
    ASSUME NEW S, NEW x \in S, NEW u \in Seq(S)
    PROVE  /\ <<x>> \o u \in Seq(S) /\ Len(<<x>> \o u) = Len(u) + 1
           /\ (<<x>> \o u)[1] = x /\ \A i \in 2..Len(u) + 1 : (<<x>> \o u)[i] = u[i - 1]
OBVIOUS

(* A terminal that is emitted is one more reading.                           *)
LEMMA OneMoreReading ==
    ASSUME NEW out \in Seq(Names), NEW name \in Names
    PROVE  <<name>> \o out \in Seq(Names) /\ Singly(<<name>> \o out) = <<{name}>> \o Singly(out)
<1> DEFINE more == <<name>> \o out
<1>1. /\ more \in Seq(Names) /\ Len(more) = Len(out) + 1 /\ Len(out) \in Nat /\ more[1] = name
      /\ \A i \in 2..Len(out) + 1 : more[i] = out[i - 1]
    OBVIOUS
<1>2. Singly(out) \in Seq({{t} : t \in Names}) /\ Len(Singly(out)) = Len(out)
      /\ \A i \in 1..Len(out) : Singly(out)[i] = {out[i]}
    BY DEF Singly
<1>3. /\ <<{name}>> \o Singly(out) = [i \in 1..Len(out) + 1 |->
                                         IF i = 1 THEN {name} ELSE Singly(out)[i - 1]]
    <2> DEFINE s == Singly(out)
    <2> HIDE DEF s
    <2>1. \A u \in Seq({{t} : t \in Names}) :
            <<{name}>> \o u = [i \in 1..Len(u) + 1 |-> IF i = 1 THEN {name} ELSE u[i - 1]]
        <3> TAKE u \in Seq({{t} : t \in Names})
        <3> DEFINE w == <<{name}>> \o u
        <3>1. /\ w \in Seq({{t} : t \in Names}) /\ Len(w) = Len(u) + 1 /\ w[1] = {name}
              /\ \A i \in 2..Len(u) + 1 : w[i] = u[i - 1]
            <4>1. {name} \in {{t} : t \in Names}
                OBVIOUS
            <4> QED
                BY <4>1, OneBefore
        <3>2. \A i \in 1..Len(u) + 1 : w[i] = IF i = 1 THEN {name} ELSE u[i - 1]
            <4>1. \A i \in 1..Len(u) + 1 : i = 1 \/ i \in 2..Len(u) + 1
                OBVIOUS
            <4> HIDE DEF w
            <4> QED
                BY <3>1, <4>1
        <3> HIDE DEF w
        <3>3. w = [i \in 1..Len(u) + 1 |-> w[i]]
            BY <3>1
        <3>4. w = [i \in 1..Len(u) + 1 |-> IF i = 1 THEN {name} ELSE u[i - 1]]
            BY <3>2, <3>3
        <3> QED
            BY <3>4 DEF w
    <2> QED
        BY <1>2, <2>1
<1> HIDE DEF more
<1>4. Singly(more) = [i \in 1..Len(out) + 1 |-> {more[i]}]
    BY <1>1 DEF Singly
<1>5. \A i \in 1..Len(out) + 1 : {more[i]} = IF i = 1 THEN {name} ELSE Singly(out)[i - 1]
    <2> TAKE i \in 1..Len(out) + 1
    <2>1. CASE i = 1
        BY <1>1, <2>1
    <2>2. CASE i # 1
        <3>1. i \in 2..Len(out) + 1 /\ i - 1 \in 1..Len(out)
            BY <1>1, <2>2
        <3> QED
            BY <1>1, <1>2, <2>2, <3>1
    <2> QED
        BY <2>1, <2>2
<1>6. Singly(more) = <<{name}>> \o Singly(out)
    BY <1>3, <1>4, <1>5
<1> QED
    BY <1>1, <1>6 DEF more

WithReading(r, reading) == [r EXCEPT !.readings = <<reading>> \o @]

(* A reading is put before those that follow.                                *)
LEMMA ReadingBefore ==
    ASSUME NEW r \in Reads, NEW reading \in SUBSET Names
    PROVE  /\ WithReading(r, reading) \in Reads /\ WithReading(r, reading).left = r.left
           /\ WithReading(r, reading).readings = <<reading>> \o r.readings
<1>1. r.readings \in Seq(SUBSET Names) /\ <<reading>> \o r.readings \in Seq(SUBSET Names)
    <2>1. r.readings \in Seq(SUBSET Names)
        BY DEF Reads
    <2> QED
        BY <2>1, OneBefore
<1> DEFINE more == <<reading>> \o r.readings
<1>2. WithReading(r, reading) = [r EXCEPT !.readings = more]
    BY Zenon DEF WithReading
<1> HIDE DEF more
<1>3. /\ [r EXCEPT !.readings = more] \in Reads
      /\ [r EXCEPT !.readings = more].left = r.left
      /\ [r EXCEPT !.readings = more].readings = more
    BY <1>1 DEF Reads, more
<1> QED
    BY <1>2, <1>3 DEF more

(* The automaton dies in a state that completes a lexeme: that is the        *)
(* longest one, and the core emits its terminal and goes on as if it began   *)
(* with what is left.                                                        *)
LEMMA CompleteAgree ==
    ASSUME Exported, NEW bytes \in Inputs, NEW g, IsPath(g, bytes), After(bytes) = Dead,
           NEW k \in 0..Len(bytes), k < Len(bytes), g[k] # Dead, g[k + 1] = Dead,
           \A j \in 0..Len(bytes) : g[j] # Dead <=> j <= k,
           Completes(g[k]),
           \A other \in Inputs : Len(other) < Len(bytes) => Agree(other)
    PROVE  Agree(bytes)
<1>1. bytes \in Seq(Classes) /\ Len(bytes) \in Nat
    BY SuffixesAreTried
<1>2. PICK i \in Indices : states[i] = g[k] /\ labels[i] # NoName
    BY DEF Completes
<1>3. k # 0 /\ k \in 1..Len(bytes) /\ k \in Nat
    <2>1. ASSUME k = 0 PROVE FALSE
        <3>1. i = 1
            BY <1>2, <2>1, ExportedTables DEF IsPath
        <3>2. automaton.accepts[states[1]] = <<>>
            BY ExportedTables, ExportAssumption
        <3>3. labels[1] = Winner(AcceptedAt(1))
            BY ExportedTables DEF Exported, TablesRight, LabelsRight, AllChecked, Indices
        <3> QED
            BY <1>2, <3>1, <3>2, <3>3 DEF AcceptedAt, Winner
    <2> QED
        BY <1>1, <2>1
<1>4. Lengths(bytes) # {} /\ Longest(bytes) = k
    <2>1. \A j \in 1..Len(bytes) : Readings(SubSeq(bytes, 1, j)) # {} => j <= k
        <3> SUFFICES ASSUME NEW j \in 1..Len(bytes), Readings(SubSeq(bytes, 1, j)) # {}
                     PROVE  j <= k
            OBVIOUS
        <3>1. j \in 0..Len(bytes)
            BY <1>1
        <3>2. Completes(g[j])
            BY <1>1, <3>1, CompleteReads
        <3>3. g[j] # Dead
            BY <3>2, ExportedTables DEF Completes
        <3> QED
            BY <3>1, <3>3
    <2>2. Readings(SubSeq(bytes, 1, k)) # {}
        BY <1>1, CompleteReads
    <2>3. k \in Lengths(bytes) /\ \A j \in Lengths(bytes) : j <= k
        BY <1>3, <2>1, <2>2 DEF Lengths
    <2>4. Max(Lengths(bytes)) \in Lengths(bytes) /\ k <= Max(Lengths(bytes))
        <3>1. Lengths(bytes) \subseteq 1..Len(bytes)
            BY DEF Lengths
        <3> QED
            BY <1>1, <2>3, <3>1, MaxOfIndices
    <2>5. Max(Lengths(bytes)) \in 1..Len(bytes)
        BY <2>4 DEF Lengths
    <2> QED
        BY <1>1, <1>3, <2>3, <2>4, <2>5 DEF Longest
<1> DEFINE rest == Suffix(bytes, k)
           name == labels[i]
<1>5. rest \in Inputs /\ Len(rest) < Len(bytes) /\ Remaining(bytes) = rest
    BY <1>4, RemainingIsShorter DEF Recurs, Remaining
<1>6. rest \in Seq(Classes) /\ Len(rest) = Len(bytes) - k
    BY <1>1, <1>3 DEF Suffix
<1>7. Agree(rest)
    BY <1>5
<1>8. name \in Names /\ Readings(SubSeq(bytes, 1, k)) = {name}
    <2>1. After(SubSeq(bytes, 1, k)) = states[i]
        BY <1>1, <1>2, PathOfBeginnings, ExportedTables
    <2> QED
        BY <1>2, <2>1, LabelsAreReadings
<1>9. Munch[bytes] = IF ~Munch[rest].lexes THEN Munch[rest]
                     ELSE WithReading(Munch[rest], {name})
    <2> HIDE DEF rest, name
    <2> QED
        BY <1>4, <1>5, <1>8, MunchRecurs DEF MunchOnce, WithReading
<1>10. PICK h : IsRun(h, bytes) /\ CoreOf(bytes) = h[Len(bytes)]
    BY <1>1, RunEnds DEF CoreOf
<1>11. PICK after : IsRun(after, rest) /\ CoreOf(rest) = after[Len(rest)]
    BY <1>6, RunEnds DEF CoreOf
<1>12. h[k] = Reading(i, <<>>)
    <2>1. PICK j \in Indices : states[j] = g[k] /\ h[k] = Reading(IF k = 0 THEN -1 ELSE j, <<>>)
        BY <1>1, <1>10, RunFollows
    <2>2. j = i
        BY <1>2, <2>1, ExportedTables
    <2> QED
        BY <1>3, <2>1, <2>2
<1>13. To(i, bytes[k + 1]) = 0
    <2>1. k + 1 \in 1..Len(bytes) /\ (k + 1) - 1 = k /\ bytes[k + 1] \in Classes
        BY <1>1, <1>3
    <2>2. g[k + 1] = Moved(g[(k + 1) - 1], bytes[k + 1])
        BY <2>1 DEF IsPath
    <2> QED
        BY <1>2, <2>1, <2>2, TransitionsLead
<1>14. CoreOf(bytes) = Prepended(name, CoreOf(rest))
    <2>1. Len(bytes) - k \in 1..Len(bytes) - k /\ k + (Len(bytes) - k) = Len(bytes)
        BY <1>1, <1>3
    <2>2. \A j \in 1..Len(bytes) - k : h[k + j] = Prepended(name, after[j])
        <3>1. IsRun(after, Suffix(bytes, k)) /\ labels[i] \in Names
            BY <1>8, <1>11
        <3> QED
            BY <1>1, <1>3, <1>10, <1>12, <1>13, <3>1, RemainderRuns
    <2> HIDE DEF name, rest
    <2> QED
        BY <1>6, <1>10, <1>11, <2>1, <2>2
<1> HIDE DEF name, rest
<1>15. CASE Munch[rest] = Unlexed /\ CoreOf(rest) = Rejected
    <2>1. ~Unlexed.lexes
        BY DEF Unlexed
    <2>2. Munch[bytes] = Unlexed
        BY <1>9, <1>15, <2>1
    <2>3. CoreOf(bytes) = Rejected
        BY <1>14, <1>15 DEF Prepended
    <2> QED
        BY <2>2, <2>3 DEF Agree
<1>16. ASSUME NEW out \in Seq(Names), Munch[rest] \in Reads, Munch[rest].readings = Singly(out),
              CoreOf(rest) = Reading(Residual(Munch[rest].left), out),
              Residual(Munch[rest].left) # 0
       PROVE  Agree(bytes)
    <2>1. <<name>> \o out \in Seq(Names) /\ Singly(<<name>> \o out) = <<{name}>> \o Singly(out)
        BY <1>8, OneMoreReading
    <2>2. Munch[bytes] = WithReading(Munch[rest], {name})
        BY <1>9, <1>16 DEF Reads
    <2>3. /\ Munch[bytes] \in Reads /\ Munch[bytes].left = Munch[rest].left
          /\ Munch[bytes].readings = Singly(<<name>> \o out)
        <3>1. {name} \in SUBSET Names
            BY <1>8
        <3> QED
            BY <1>16, <2>1, <2>2, <3>1, ReadingBefore
    <2>4. CoreOf(bytes) = Reading(Residual(Munch[bytes].left), <<name>> \o out)
        BY <1>14, <1>16, <2>3, ApartFromRejection DEF Prepended
    <2> QED
        BY <1>16, <2>1, <2>3, <2>4 DEF Agree
<1> QED
    BY <1>7, <1>15, <1>16 DEF Agree

(* So they agree on bytes of any length.                                     *)
LEMMA AllAgree ==
    ASSUME Exported
    PROVE  \A bytes \in Inputs : Agree(bytes)
<1> DEFINE failing == {n \in Nat : \E bytes \in Inputs : Len(bytes) = n /\ ~Agree(bytes)}
<1>1. \A bytes \in Inputs : Len(bytes) \in Nat /\ bytes \in Seq(Classes)
    BY SuffixesAreTried
<1> SUFFICES ASSUME failing # {} PROVE FALSE
    BY <1>1
<1>2. failing \subseteq Nat
    OBVIOUS
<1> HIDE DEF failing
<1>3. PICK n \in failing : \A j \in failing : n <= j
    BY <1>2, LeastExists
<1>4. PICK bytes \in Inputs : Len(bytes) = n /\ ~Agree(bytes)
    BY <1>3 DEF failing
<1>5. \A other \in Inputs : Len(other) < Len(bytes) => Agree(other)
    <2> SUFFICES ASSUME NEW other \in Inputs, Len(other) < Len(bytes), ~Agree(other) PROVE FALSE
        OBVIOUS
    <2>1. Len(other) \in failing
        BY <1>1 DEF failing
    <2>2. n <= Len(other) /\ Len(other) \in Nat /\ n \in Nat
        BY <1>1, <1>3, <1>4, <2>1
    <2> QED
        BY <1>4, <2>2
<1>6. PICK g : IsPath(g, bytes) /\ After(bytes) = g[Len(bytes)]
    BY <1>1, PathEnds, ExportedTables
<1>7. CASE After(bytes) # Dead
    BY <1>4, <1>7, AliveAgree
<1>8. CASE After(bytes) = Dead
    <2>1. PICK k \in 0..Len(bytes) :
              /\ k < Len(bytes) /\ g[k] # Dead /\ g[k + 1] = Dead
              /\ \A j \in 0..Len(bytes) : g[j] # Dead <=> j <= k
        BY <1>1, <1>6, <1>8, LastAlive
    <2>2. CASE Completes(g[k])
        BY <1>4, <1>5, <1>6, <1>8, <2>1, <2>2, CompleteAgree
    <2>3. CASE ~Completes(g[k])
        BY <1>4, <1>6, <1>8, <2>1, <2>3, IncompleteAgree
    <2> QED
        BY <2>2, <2>3
<1> QED
    BY <1>7, <1>8

(* A lexer that is exported, run by the core (lexer.rs), reads every input   *)
(* as the longest match with unlimited backing up on the library's automaton *)
(* does, whatever the automaton, the priorities and the input: the check for *)
(* fallbacks (dfa.rs) is enough for a lexer that never gives back a byte of  *)
(* a lexeme.                                                                 *)
THEOREM ExportedLexerMunches == Spec => []MunchIsExact
<1>1. ExportSound /\ TablesRight => MunchIsExact
    <2> SUFFICES ASSUME ExportSound, TablesRight, stage = "done", NEW bytes \in Inputs
                 PROVE  IF Munch[bytes].lexes
                        THEN /\ CoreOf(bytes)
                                  = Core!At(Residual(Munch[bytes].left), CoreOf(bytes).emitted)
                             /\ [i \in DOMAIN CoreOf(bytes).emitted |-> {CoreOf(bytes).emitted[i]}]
                                  = Munch[bytes].readings
                        ELSE CoreOf(bytes) = Core!Rejection
        BY DEF MunchIsExact, CoreOf
    <2>1. Agree(bytes)
        BY AllAgree DEF Exported
    <2>2. CASE Munch[bytes] = Unlexed /\ CoreOf(bytes) = Rejected
        BY <2>2 DEF Unlexed, Rejected
    <2>3. ASSUME NEW out \in Seq(Names),
                 Munch[bytes] \in Reads, Munch[bytes].readings = Singly(out),
                 CoreOf(bytes) = Reading(Residual(Munch[bytes].left), out),
                 Residual(Munch[bytes].left) # 0
          PROVE  /\ Munch[bytes].lexes
                 /\ CoreOf(bytes) = Core!At(Residual(Munch[bytes].left), CoreOf(bytes).emitted)
                 /\ [i \in DOMAIN CoreOf(bytes).emitted |-> {CoreOf(bytes).emitted[i]}]
                      = Munch[bytes].readings
        <3>1. Munch[bytes].lexes
            BY <2>3 DEF Reads
        <3>2. CoreOf(bytes).emitted = out
            BY <2>3, ApartFromRejection
        <3>3. DOMAIN out = 1..Len(out)
            OBVIOUS
        <3> QED
            BY <2>3, <3>1, <3>2, <3>3 DEF Singly, Reading
    <2> QED
        BY <2>1, <2>2, <2>3 DEF Agree
<1> QED
    BY <1>1, TablesAlwaysRight, PTL
=============================================================================
