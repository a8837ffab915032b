---------------------------- MODULE ToolchainProofs --------------------------
(* The toolchain from a tokenizer document and a grammar to the tables, for  *)
(* every document, grammar and limit: what is imported is what the document  *)
(* says, the layers agree on what is too large, and the terminals are        *)
(* resolved as the grammar asks. The facts about indices and folds are those *)
(* of the export, the stage that has a module of its own.                    *)
EXTENDS Toolchain, DfaExportProofs
-----------------------------------------------------------------------------
(* Sums, and sequences that are put together.                                *)

(* The largest of a list of numbers.                                         *)
LEMMA LargestOfList ==
    ASSUME NEW s \in Seq(Nat), s # <<>>
    PROVE  /\ Maximum(Elements(s)) \in Elements(s) /\ Maximum(Elements(s)) \in Nat
           /\ \A m \in Elements(s) : m <= Maximum(Elements(s))
<1> DEFINE Largest(n) == \E m \in 1..n : \A i \in 1..n : s[i] <= s[m]
           failing == {n \in 1..Len(s) : ~Largest(n)}
<1>1. Len(s) \in Nat \ {0} /\ \A i \in 1..Len(s) : s[i] \in Nat
    OBVIOUS
<1>2. Largest(Len(s))
    <2>1. CASE failing # {}
        <3>1. failing \subseteq Nat
            BY <1>1
        <3>2. PICK n \in failing : \A k \in failing : n <= k
            <4> HIDE DEF failing
            <4> QED
                BY <2>1, <3>1, LeastExists
        <3>3. n \in 1..Len(s) /\ ~Largest(n)
            OBVIOUS
        <3>4. n # 1
            <4>1. Largest(1)
                <5> HIDE DEF failing
                <5>1. s[1] \in Nat /\ s[1] <= s[1] /\ \A i \in 1..1 : i = 1
                    BY <1>1
                <5> QED
                    BY <5>1
            <4> QED
                BY <3>3, <4>1
        <3>5. Largest(n - 1)
            <4>1. n - 1 \in 1..Len(s) /\ ~(n <= n - 1)
                BY <3>3, <3>4, <1>1
            <4>2. n - 1 \notin failing
                <5> HIDE DEF failing
                <5> QED
                    BY <3>2, <4>1
            <4> QED
                BY <4>1, <4>2
        <3>6. PICK m \in 1..n - 1 : \A i \in 1..n - 1 : s[i] <= s[m]
            BY <3>5
        <3> HIDE DEF failing
        <3>7. /\ m \in 1..n /\ n \in 1..n /\ m \in 1..Len(s)
              /\ \A i \in 1..n : i = n \/ i \in 1..n - 1
            <4>1. n \in Nat /\ n <= Len(s)
                BY <3>3, <1>1
            <4>2. \A i \in 1..n : i = n \/ i \in 1..n - 1
                BY <4>1
            <4> QED
                BY <4>1, <4>2, <1>1, <3>3
        <3>8. s[n] \in Nat /\ s[m] \in Nat /\ \A i \in 1..n : s[i] \in Nat
            BY <3>3, <3>7, <1>1
        <3>9. CASE s[m] <= s[n]
            <4>1. \A i \in 1..n : s[i] <= s[n]
                <5> TAKE i \in 1..n
                <5>1. CASE i = n
                    BY <5>1, <3>8
                <5>2. CASE i \in 1..n - 1
                    <6>1. s[i] <= s[m] /\ s[i] \in Nat
                        BY <5>2, <3>6, <3>8
                    <6> QED
                        BY <6>1, <3>8, <3>9
                <5> QED
                    BY <5>1, <5>2, <3>7
            <4> QED
                BY <3>3, <3>7, <4>1
        <3>10. CASE s[n] <= s[m]
            <4>1. \A i \in 1..n : s[i] <= s[m]
                BY <3>6, <3>7, <3>8, <3>10
            <4> QED
                BY <3>3, <3>7, <4>1
        <3>11. s[m] <= s[n] \/ s[n] <= s[m]
            BY <3>8
        <3> QED
            BY <3>9, <3>10, <3>11
    <2>2. CASE failing = {}
        <3>1. Len(s) \in 1..Len(s)
            BY <1>1
        <3> QED
            BY <2>2, <3>1
    <2> QED
        BY <2>1, <2>2
<1>3. PICK m \in 1..Len(s) : \A i \in 1..Len(s) : s[i] <= s[m]
    BY <1>2
<1>4. s[m] \in Elements(s) /\ \A x \in Elements(s) : x <= s[m]
    BY <1>3 DEF Elements
<1>5. Maximum(Elements(s)) \in Elements(s) /\ \A x \in Elements(s) : x <= Maximum(Elements(s))
    BY <1>4 DEF Maximum
<1> QED
    BY <1>1, <1>5 DEF Elements

(* A refusal is for the first test that fails.                               *)
LEMMA RefusedFor ==
    ASSUME NEW tests, Len(tests) \in Nat, ~Holds(tests)
    PROVE  \E i \in 1..Len(tests) :
             /\ ~tests[i].holds /\ FirstFailure(tests) = tests[i].why
             /\ \A j \in 1..Len(tests) : j < i => tests[j].holds
<1> DEFINE failing == {i \in 1..Len(tests) : ~tests[i].holds}
<1>1. failing \subseteq Nat /\ failing # {}
    BY DEF Holds
<1>2. PICK i \in failing : \A j \in failing : i <= j
    <2> HIDE DEF failing
    <2> QED
        BY <1>1, LeastExists
<1>3. \A j \in 1..(i - 1) : tests[j].holds
    BY <1>2
<1>4. \E k \in 1..Len(tests) : ~tests[k].holds /\ \A j \in 1..(k - 1) : tests[j].holds
    BY <1>2, <1>3
<1> DEFINE first == CHOOSE k \in 1..Len(tests) : ~tests[k].holds /\ \A j \in 1..(k - 1) : tests[j].holds
<1>5. first \in 1..Len(tests) /\ ~tests[first].holds /\ \A j \in 1..(first - 1) : tests[j].holds
    BY <1>4
<1>6. FirstFailure(tests) = tests[first].why
    BY DEF FirstFailure
<1> HIDE DEF first
<1> QED
    BY <1>5, <1>6

(* What a list lists.                                                        *)
LEMMA ElementsOfList ==
    ASSUME NEW S, NEW s \in Seq(S)
    PROVE  /\ IsFiniteSet(Elements(s)) /\ Cardinality(Elements(s)) \in Nat
           /\ Cardinality(Elements(s)) <= Len(s) /\ Elements(s) \subseteq S
           /\ Cardinality(Elements(s)) = Len(s) <=> \A i, j \in 1..Len(s) : s[i] = s[j] => i = j
<1>1. Len(s) \in Nat /\ s \in [1..Len(s) -> S] /\ Elements(s) \subseteq S
    BY DEF Elements
<1>2. s \in Surjection(1..Len(s), Elements(s))
    BY <1>1 DEF Surjection, Elements
<1>3. IsFiniteSet(1..Len(s)) /\ Cardinality(1..Len(s)) = Len(s)
    BY <1>1, FS_Interval
<1>4. /\ IsFiniteSet(Elements(s)) /\ Cardinality(Elements(s)) <= Len(s)
      /\ Cardinality(Elements(s)) = Len(s) <=> s \in Injection(1..Len(s), Elements(s))
    BY <1>2, <1>3, FS_Surjection
<1>5. s \in Injection(1..Len(s), Elements(s)) <=> \A i, j \in 1..Len(s) : s[i] = s[j] => i = j
    BY <1>2 DEF Injection, Surjection, IsInjective
<1> QED
    BY <1>1, <1>4, <1>5, FS_CardinalityType

(* The keys of a set of pairs.                                               *)
LEMMA KeysOfPairs ==
    ASSUME NEW A, IsFiniteSet(A)
    PROVE  LET keys == {p[1] : p \in A}
           IN  /\ IsFiniteSet(keys) /\ Cardinality(keys) \in Nat /\ Cardinality(A) \in Nat
               /\ Cardinality(keys) <= Cardinality(A)
               /\ Cardinality(keys) = Cardinality(A) <=> \A p, q \in A : p[1] = q[1] => p = q
<1> DEFINE keys == {p[1] : p \in A}
           f == [p \in A |-> p[1]]
<1>1. f \in Surjection(A, keys)
    BY DEF Surjection
<1>2. /\ IsFiniteSet(keys) /\ Cardinality(keys) <= Cardinality(A)
      /\ Cardinality(keys) = Cardinality(A) <=> f \in Injection(A, keys)
    BY <1>1, FS_Surjection
<1>3. f \in Injection(A, keys) <=> \A p, q \in A : p[1] = q[1] => p = q
    BY DEF Injection, IsInjective
<1> QED
    BY <1>2, <1>3, FS_CardinalityType

-----------------------------------------------------------------------------
(* Running sums of a list of numbers, and that a total is the last of them.  *)
IsRunningSum(g, c) ==
    /\ g \in [0..Len(c) -> Nat] /\ g[0] = 0
    /\ \A k \in 1..Len(c) : g[k] = g[k - 1] + c[k]
SumTo(c, k) == (CHOOSE g : IsRunningSum(g, c))[k]

AddsUp(f, c) ==
    f = [S \in SUBSET (1..Len(c)) |-> IF S = {} THEN 0 ELSE f[S \ {Max(S)}] + c[Max(S)]]

(* The sum of a list of numbers, as such a fold.                             *)
LEMMA AddingExists ==
    ASSUME NEW c \in Seq(Nat)
    PROVE  \E f : AddsUp(f, c)
<1> DEFINE n == Len(c)
           op == [p \in Nat \X (1..n) |-> p[1] + c[p[2]]]
<1>1. n \in Nat /\ \A k \in 1..n : c[k] \in Nat
    OBVIOUS
<1>2. op \in [Nat \X (1..n) -> Nat]
    BY <1>1
<1>3. PICK f \in [SUBSET (1..n) -> Nat] : IsFold(f, n, 0, op)
    <2> HIDE DEF op
    <2> QED
        BY <1>1, <1>2, FoldExists
<1>4. ASSUME NEW S \in SUBSET (1..n), S # {}
      PROVE  op[<<f[S \ {Max(S)}], Max(S)>>] = f[S \ {Max(S)}] + c[Max(S)]
    <2>1. Max(S) \in 1..n
        BY <1>1, <1>4, MaxOfIndices
    <2>2. f[S \ {Max(S)}] \in Nat
        BY <1>3
    <2> QED
        BY <2>1, <2>2
<1> HIDE DEF op
<1>5. \A S \in SUBSET (1..n) : f[S] = IF S = {} THEN 0 ELSE op[<<f[S \ {Max(S)}], Max(S)>>]
    BY <1>3 DEF IsFold
<1>6. \A S \in SUBSET (1..n) : f[S] = IF S = {} THEN 0 ELSE f[S \ {Max(S)}] + c[Max(S)]
    BY <1>4, <1>5
<1>7. f = [S \in SUBSET (1..n) |-> f[S]]
    BY <1>3
<1> QED
    BY <1>6, <1>7, Zenon DEF AddsUp

(* The values of the fold on the first k indices are running sums, and there *)
(* is one sequence of running sums.                                          *)
LEMMA AddingRuns ==
    ASSUME NEW c \in Seq(Nat), NEW f, AddsUp(f, c)
    PROVE  IsRunningSum([k \in 0..Len(c) |-> f[1..k]], c)
<1> DEFINE n == Len(c)
           failing == {k \in 0..n : f[1..k] \notin Nat}
<1>1. n \in Nat /\ \A k \in 1..n : c[k] \in Nat
    OBVIOUS
<1>2. f[1..0] = 0
    <2>1. 1..0 = {}
        OBVIOUS
    <2> QED
        BY <2>1 DEF AddsUp
<1> HIDE DEF failing
<1>3. ASSUME NEW k \in 1..n
      PROVE  f[1..k] = f[1..(k - 1)] + c[k]
    <2>1. 1..k \in SUBSET (1..n) /\ 1..k # {} /\ k \in 1..k
        <3>1. k \in Nat /\ k <= n /\ 1 <= k
            BY <1>1
        <3> HIDE DEF n
        <3>2. \A i \in 1..k : i \in 1..n
            BY <1>1, <3>1
        <3>3. k \in 1..k
            BY <3>1
        <3> QED
            BY <3>2, <3>3
    <2>2. Max(1..k) \in 1..k /\ k <= Max(1..k)
        BY <1>1, <2>1, MaxOfIndices
    <2>3. Max(1..k) = k
        BY <2>2
    <2>4. (1..k) \ {k} = 1..(k - 1)
        OBVIOUS
    <2>5. f[1..k] = f[(1..k) \ {Max(1..k)}] + c[Max(1..k)]
        BY <2>1 DEF AddsUp
    <2> QED
        BY <2>3, <2>4, <2>5
<1>4. \A k \in 0..n : f[1..k] \in Nat
    <2> SUFFICES ASSUME failing # {} PROVE FALSE
        BY DEF failing
    <2>1. failing \subseteq Nat
        BY <1>1 DEF failing
    <2>2. PICK k \in failing : \A j \in failing : k <= j
        BY <2>1, LeastExists
    <2>3. k \in 0..n /\ f[1..k] \notin Nat
        BY DEF failing
    <2>4. k \in 1..n
        BY <2>3, <1>2
    <2>5. k - 1 \in 0..n /\ k - 1 \notin failing
        BY <2>2, <2>4
    <2>6. f[1..(k - 1)] \in Nat
        BY <2>5 DEF failing
    <2> QED
        BY <1>1, <1>3, <2>3, <2>4, <2>6
<1> DEFINE g == [k \in 0..n |-> f[1..k]]
<1>5. g \in [0..n -> Nat] /\ g[0] = 0
    BY <1>1, <1>2, <1>4
<1>6. ASSUME NEW k \in 1..n PROVE g[k] = g[k - 1] + c[k]
    <2>1. k \in 0..n /\ k - 1 \in 0..n
        BY <1>1
    <2> QED
        BY <1>3, <2>1
<1> QED
    BY <1>5, <1>6 DEF IsRunningSum

LEMMA RunningSumsAgree ==
    ASSUME NEW c \in Seq(Nat), NEW g, IsRunningSum(g, c), NEW h, IsRunningSum(h, c)
    PROVE  \A k \in 0..Len(c) : g[k] = h[k]
<1> DEFINE n == Len(c)
           failing == {k \in 0..n : g[k] # h[k]}
<1>1. n \in Nat /\ failing \subseteq Nat
    OBVIOUS
<1> SUFFICES ASSUME failing # {} PROVE FALSE
    OBVIOUS
<1> HIDE DEF failing
<1>2. PICK k \in failing : \A j \in failing : k <= j
    BY <1>1, LeastExists
<1>3. k \in 0..n /\ g[k] # h[k]
    BY DEF failing
<1>4. k \in 1..n
    BY <1>3 DEF IsRunningSum
<1>5. k - 1 \in 0..n /\ k - 1 \notin failing
    BY <1>2, <1>4
<1>6. g[k - 1] = h[k - 1]
    BY <1>5 DEF failing
<1> QED
    BY <1>3, <1>4, <1>6 DEF IsRunningSum

(* SumTo, the sum of the first k numbers, is what one expects.               *)
LEMMA SumsRun ==
    ASSUME NEW c \in Seq(Nat)
    PROVE  /\ SumTo(c, 0) = 0 /\ \A k \in 0..Len(c) : SumTo(c, k) \in Nat
           /\ \A k \in 1..Len(c) : SumTo(c, k) = SumTo(c, k - 1) + c[k]
<1>1. PICK f : AddsUp(f, c)
    BY AddingExists
<1>2. \E g : IsRunningSum(g, c)
    BY <1>1, AddingRuns
<1>3. IsRunningSum(CHOOSE g : IsRunningSum(g, c), c)
    BY <1>2, Zenon
<1> QED
    BY <1>3 DEF IsRunningSum, SumTo

(* So the fold is SumTo. A theorem about TotalOf for every size function     *)
(* would take an operator as a parameter: there is one for each of the four. *)
LEMMA AddingSums ==
    ASSUME NEW c \in Seq(Nat), NEW f, AddsUp(f, c)
    PROVE  f[1..Len(c)] = SumTo(c, Len(c))
<1> DEFINE g == [k \in 0..Len(c) |-> f[1..k]]
<1>1. IsRunningSum(g, c)
    BY AddingRuns
<1>2. IsRunningSum(CHOOSE h : IsRunningSum(h, c), c)
    BY <1>1, Zenon
<1>3. Len(c) \in 0..Len(c)
    OBVIOUS
<1>4. g[Len(c)] = (CHOOSE h : IsRunningSum(h, c))[Len(c)]
    BY <1>1, <1>2, <1>3, RunningSumsAgree
<1>5. g[Len(c)] = f[1..Len(c)]
    BY <1>3
<1> QED
    BY <1>4, <1>5 DEF SumTo

LEMMA TotalOfNames ==
    ASSUME NEW s, DOMAIN s = 1..Len(s),
           NEW c \in Seq(Nat), Len(c) = Len(s), \A i \in 1..Len(s) : c[i] = NameBytes(s[i])
    PROVE  TotalOf(s, NameBytes) = SumTo(c, Len(c))
<1> DEFINE n == Len(c)
           Solves(f) == f = [S \in SUBSET (DOMAIN s) |->
                               IF S = {} THEN 0 ELSE f[S \ {Max(S)}] + NameBytes(s[Max(S)])]
           f0 == CHOOSE f : Solves(f)
<1>1. TotalOf(s, NameBytes) = f0[DOMAIN s]
    BY DEF TotalOf, FoldLeft, MapThenFoldSet
<1>2. n \in Nat
    OBVIOUS
<1>3. \A S \in SUBSET (1..n) : S # {} => c[Max(S)] = NameBytes(s[Max(S)])
    BY <1>2, MaxOfIndices
<1>4. \A f : Solves(f) <=> AddsUp(f, c)
    BY <1>3 DEF AddsUp
<1>5. \E f : Solves(f)
    BY <1>4, AddingExists
<1>6. Solves(f0)
    BY <1>5, Zenon
<1> HIDE DEF Solves, f0
<1> QED
    BY <1>1, <1>4, <1>6, AddingSums

(* A sum of more of the numbers is no smaller, and depends on no other of    *)
(* them.                                                                     *)
LEMMA SumsGrow ==
    ASSUME NEW c \in Seq(Nat), NEW k \in 0..Len(c)
    PROVE  \A m \in 0..Len(c) : k <= m => SumTo(c, k) <= SumTo(c, m)
<1> DEFINE failing == {m \in 0..Len(c) : k <= m /\ ~(SumTo(c, k) <= SumTo(c, m))}
<1>1. Len(c) \in Nat /\ failing \subseteq Nat
    OBVIOUS
<1> SUFFICES ASSUME failing # {} PROVE FALSE
    OBVIOUS
<1> HIDE DEF failing
<1>2. PICK m \in failing : \A j \in failing : m <= j
    BY <1>1, LeastExists
<1>3. m \in 0..Len(c) /\ k <= m /\ ~(SumTo(c, k) <= SumTo(c, m))
    BY DEF failing
<1>4. m # k
    BY <1>3, SumsRun
<1>5. m \in 1..Len(c) /\ m - 1 \in 0..Len(c) /\ k <= m - 1 /\ ~(m <= m - 1)
    BY <1>1, <1>3, <1>4
<1>6. SumTo(c, k) <= SumTo(c, m - 1)
    BY <1>2, <1>5 DEF failing
<1>7. /\ c[m] \in Nat /\ SumTo(c, m) = SumTo(c, m - 1) + c[m] /\ SumTo(c, m - 1) \in Nat
      /\ SumTo(c, k) \in Nat
    BY <1>5, SumsRun
<1> QED
    BY <1>3, <1>6, <1>7

LEMMA SumsOfBeginnings ==
    ASSUME NEW c \in Seq(Nat), NEW d \in Seq(Nat), NEW n \in 0..Len(c), n <= Len(d),
           \A i \in 1..n : c[i] = d[i]
    PROVE  \A k \in 0..n : SumTo(c, k) = SumTo(d, k)
<1> DEFINE failing == {k \in 0..n : SumTo(c, k) # SumTo(d, k)}
<1>1. n \in Nat /\ Len(c) \in Nat /\ Len(d) \in Nat /\ failing \subseteq Nat
    OBVIOUS
<1> SUFFICES ASSUME failing # {} PROVE FALSE
    OBVIOUS
<1> HIDE DEF failing
<1>2. PICK k \in failing : \A j \in failing : k <= j
    BY <1>1, LeastExists
<1>3. k \in 0..n /\ SumTo(c, k) # SumTo(d, k)
    BY DEF failing
<1>4. k # 0
    BY <1>3, SumsRun
<1>5. k \in 1..n /\ k \in 1..Len(c) /\ k \in 1..Len(d) /\ k - 1 \in 0..n /\ ~(k <= k - 1)
    BY <1>1, <1>3, <1>4
<1>6. SumTo(c, k - 1) = SumTo(d, k - 1)
    BY <1>2, <1>5 DEF failing
<1>7. SumTo(c, k) = SumTo(c, k - 1) + c[k] /\ SumTo(d, k) = SumTo(d, k - 1) + d[k]
    BY <1>5, SumsRun
<1> QED
    BY <1>3, <1>5, <1>6, <1>7
-----------------------------------------------------------------------------
(* A text is flattened to the bytes of its characters.                       *)
Flattens(f, parts, k) == f = [i \in 1..k |-> IF i = 1 THEN parts[i] ELSE f[i - 1] \o parts[i]]

(* What a text decodes to is a list of bytes.                                *)
LEMMA FlatteningExists ==
    ASSUME NEW n \in Nat, NEW parts, NEW S, \A i \in 1..n : parts[i] \in Seq(S)
    PROVE  \E f \in [1..n -> Seq(S)] : Flattens(f, parts, n)
<1> DEFINE Exists(k) == \E f \in [1..k -> Seq(S)] : Flattens(f, parts, k)
           failing == {k \in 0..n : ~Exists(k)}
<1> HIDE DEF Exists
<1>1. n \in 0..n /\ failing \subseteq Nat
    OBVIOUS
<1> SUFFICES ASSUME failing # {} PROVE FALSE
    <2>1. failing = {} => Exists(n)
        BY <1>1
    <2> QED
        BY <2>1 DEF Exists
<1> HIDE DEF failing
<1>2. PICK k \in failing : \A j \in failing : k <= j
    BY <1>1, LeastExists
<1>3. k \in 0..n /\ ~Exists(k)
    BY DEF failing
<1>4. k # 0
    <2>1. Flattens(<<>>, parts, 0) /\ <<>> \in [1..0 -> Seq(S)]
        BY DEF Flattens
    <2> QED
        BY <1>3, <2>1 DEF Exists
<1>5. k \in 1..n /\ k - 1 \in 0..n /\ ~(k <= k - 1)
    BY <1>3, <1>4
<1>6. Exists(k - 1)
    BY <1>2, <1>5 DEF failing
<1>7. PICK g \in [1..(k - 1) -> Seq(S)] : Flattens(g, parts, k - 1)
    BY <1>6 DEF Exists
<1> DEFINE f == [i \in 1..k |-> IF i = k THEN (IF k = 1 THEN parts[k] ELSE g[k - 1] \o parts[k]) ELSE g[i]]
<1>8. ASSUME NEW i \in 1..k
      PROVE  f[i] \in Seq(S) /\ f[i] = IF i = 1 THEN parts[i] ELSE f[i - 1] \o parts[i]
    <2>1. parts[k] \in Seq(S)
        BY <1>5
    <2>2. CASE i = k
        <3>1. k # 1 => k - 1 \in 1..k /\ k - 1 \in 1..(k - 1) /\ k - 1 # k
            BY <1>5
        <3>2. k # 1 => g[k - 1] \in Seq(S) /\ f[k - 1] = g[k - 1]
            BY <3>1, <1>7
        <3>3. f[k] = IF k = 1 THEN parts[k] ELSE g[k - 1] \o parts[k]
            BY <1>5
        <3> HIDE DEF f
        <3> QED
            BY <2>1, <2>2, <3>2, <3>3
    <2>3. CASE i # k
        <3>1. i \in 1..(k - 1) /\ (i # 1 => i - 1 \in 1..k /\ i - 1 # k)
            BY <1>5, <2>3
        <3>2. f[i] = g[i] /\ g[i] \in Seq(S) /\ (i # 1 => f[i - 1] = g[i - 1])
            BY <1>7, <2>3, <3>1
        <3>3. g[i] = IF i = 1 THEN parts[i] ELSE g[i - 1] \o parts[i]
            BY <1>7, <3>1 DEF Flattens
        <3> HIDE DEF f
        <3> QED
            BY <3>2, <3>3
    <2> QED
        BY <2>2, <2>3
<1>9. f = [i \in 1..k |-> f[i]]
    OBVIOUS
<1> HIDE DEF f
<1>10. f \in [1..k -> Seq(S)] /\ Flattens(f, parts, k)
    <2>1. f \in [1..k -> Seq(S)]
        BY <1>8, <1>9, Zenon
    <2>2. Flattens(f, parts, k)
        BY <1>8, <1>9, Zenon DEF Flattens
    <2> QED
        BY <2>1, <2>2
<1> QED
    BY <1>3, <1>10 DEF Exists

LEMMA FlattenedTyped ==
    ASSUME NEW parts, NEW S, parts \in Seq(Seq(S))
    PROVE  FlattenSeq(parts) \in Seq(S)
<1> DEFINE n == Len(parts)
           f0 == CHOOSE f : Flattens(f, parts, n)
           failing == {i \in 1..n : f0[i] \notin Seq(S)}
<1>1. n \in Nat /\ \A i \in 1..n : parts[i] \in Seq(S)
    OBVIOUS
<1>2. CASE n = 0
    <2>1. FlattenSeq(parts) = parts /\ parts = <<>>
        BY <1>2 DEF FlattenSeq
    <2> QED
        BY <2>1
<1>3. CASE n # 0
    <2>1. FlattenSeq(parts) = f0[n]
        BY <1>3, Zenon DEF FlattenSeq, Flattens
    <2> HIDE DEF failing
    <2>2. \E f : Flattens(f, parts, n)
        BY <1>1, FlatteningExists
    <2>3. Flattens(f0, parts, n)
        BY <2>2, Zenon
    <2> HIDE DEF f0
    <2>4. \A i \in 1..n : f0[i] = IF i = 1 THEN parts[i] ELSE f0[i - 1] \o parts[i]
        BY <2>3 DEF Flattens
    <2>5. failing = {}
        <3> SUFFICES ASSUME failing # {} PROVE FALSE
            OBVIOUS
        <3>1. failing \subseteq Nat
            BY <1>1 DEF failing
        <3>2. PICK i \in failing : \A j \in failing : i <= j
            BY <3>1, LeastExists
        <3>3. i \in 1..n /\ f0[i] \notin Seq(S)
            BY DEF failing
        <3>4. i # 1
            BY <3>3, <2>4, <1>1
        <3>5. i - 1 \in 1..n /\ ~(i <= i - 1)
            BY <3>3, <3>4, <1>1
        <3>6. f0[i - 1] \in Seq(S)
            BY <3>2, <3>5 DEF failing
        <3>7. f0[i] = f0[i - 1] \o parts[i] /\ parts[i] \in Seq(S)
            BY <3>3, <3>4, <2>4, <1>1
        <3>8. f0[i - 1] \o parts[i] \in Seq(S)
            BY <3>6, <3>7
        <3> QED
            BY <3>3, <3>7, <3>8
    <2>6. n \in 1..n
        BY <1>1, <1>3
    <2> QED
        BY <2>1, <2>5, <2>6 DEF failing
<1> QED
    BY <1>2, <1>3

LEMMA TextIsBytes ==
    ASSUME NEW piece \in Seq(Characters)
    PROVE  Flat(piece) \in Seq(Bytes) /\ Decoded(piece) \in Seq(Bytes)
<1> DEFINE parts == [i \in 1..Len(piece) |-> Utf8[piece[i]]]
<1>1. Len(piece) \in Nat /\ \A i \in 1..Len(piece) : piece[i] \in Characters
    OBVIOUS
<1>2. parts \in Seq(Seq(Bytes))
    BY <1>1, ImportAssumption
<1>3. Flat(piece) \in Seq(Bytes)
    <2> HIDE DEF parts
    <2>1. FlattenSeq(parts) \in Seq(Bytes)
        BY <1>2, FlattenedTyped
    <2> QED
        BY <2>1 DEF Flat, parts
<1>4. AllMapped(piece) => [i \in 1..Len(piece) |-> ByteOf[piece[i]]] \in Seq(Bytes)
    BY <1>1, ImportAssumption DEF AllMapped
<1> QED
    BY <1>3, <1>4 DEF Decoded
-----------------------------------------------------------------------------
(* The import of a tokenizer.                                                *)

(* What the import of a document has come to.  Of the vocabulary and of the  *)
(* added tokens the first n are read; the entries hold just the pieces of    *)
(* those, and none of them after the last.                                   *)
Vocabulary(n) ==
    IF document.model = "map" THEN {<<pair.id, pair.piece>> : pair \in Elements(SubSeq(document.vocabulary, 1, n))}
    ELSE {<<i - 1, document.vocabulary[i]>> : i \in 1..n}
AddedTo(n) == {<<document.added[i].id, document.added[i].piece>> : i \in 1..n}

Entry == [piece : Seq(Characters) \cup {NotText}, special : BOOLEAN]
Size == Cardinality(DOMAIN entries)
Filled(A) ==
    /\ \A id \in DOMAIN entries :
         IF entries[id].piece = NotText THEN entries[id] = NoEntry ELSE <<id, entries[id].piece>> \in A
    /\ \A p \in A : p[1] \in DOMAIN entries /\ p[2] \in Seq(Characters) /\ entries[p[1]].piece = p[2]
    /\ DOMAIN entries # {} => \E p \in A : p[1] = Size - 1

Started == {"called", "read", "vocabulary", "eos", "added", "tokens", "imported", "refused"}
Opened == {"vocabulary", "eos", "added", "tokens", "imported"}
Listing == {"eos", "added", "tokens", "imported"}
Merging == {"added", "tokens", "imported"}

ImportTyped ==
    /\ phase \in {"none"} \cup Started
    /\ phase # "none" => document \in Documents /\ eos_ids \in EosLists
    /\ item \in Nat \ {0} /\ {work, decoded, membership} \subseteq Nat
    /\ \E n \in Nat : entries \in [0..(n - 1) -> Entry]
    /\ tokens \in Seq(Seq(Bytes) \cup {Eos})
    /\ singleton \subseteq Bytes

ImportBounded ==
    /\ work <= MaxImportWork /\ decoded <= MaxDecoded
    /\ Size <= MaxVocabulary /\ membership <= MaxVocabulary
    /\ Len(tokens) <= Size

ReadFacts ==
    /\ phase = "read" \/ phase \in Opened => document.utf8 /\ NotAnId \notin Elements(eos_ids)
    /\ phase \in Opened =>
         /\ document.json /\ document.decoder /\ document.model \in {"map", "list"}
         /\ eos_ids # <<>> /\ Len(document.vocabulary) <= MaxVocabulary

VocabularyFacts ==
    /\ phase \in {"called", "read"} => entries = <<>> /\ pairs = <<>>
    /\ phase \in {"called", "read", "vocabulary", "eos", "added"} => tokens = <<>> /\ singleton = {} /\ decoded = 0
    /\ phase = "vocabulary" =>
         /\ item <= Len(document.vocabulary) + 1
         /\ Filled(IF document.model = "map" THEN {} ELSE Vocabulary(item - 1))
         /\ document.model = "map" =>
              /\ pairs = SubSeq(document.vocabulary, 1, item - 1)
              /\ \A i \in 1..(item - 1) : pairs[i].id # NotAnId
         /\ document.model = "list" => DOMAIN entries = 0..(item - 2)
    /\ phase \in Listing =>
         /\ Cardinality(Listed(document)) = Len(document.vocabulary)
         /\ NotAnId \notin {p[1] : p \in Listed(document)}
    /\ phase = "eos" => document.model = "map" /\ Filled(Listed(document))
    /\ phase \in {"vocabulary", "eos"} => \A id \in DOMAIN entries : ~entries[id].special

AddedFacts ==
    LET merged == IF phase = "added" THEN item - 1 ELSE Len(document.added)
    IN phase \in Merging =>
         /\ membership = Maximum(Elements(eos_ids)) + 1
         /\ Cardinality(Elements(eos_ids)) = Len(eos_ids)
         /\ item <= Len(document.added) + 1 \/ phase # "added"
         /\ \A i \in 1..merged :
              LET token == document.added[i]
              IN /\ token.id \in Nat /\ token.piece # NotText /\ token.special # "absent"
                 /\ token.special = "yes" => token.id \in Elements(eos_ids)
         /\ Filled(Listed(document) \cup AddedTo(merged))
         /\ \A id \in DOMAIN entries : entries[id].special => id \in Elements(eos_ids)

TokenFacts ==
    phase \in {"tokens", "imported"} =>
      /\ DOMAIN entries # {} /\ Elements(eos_ids) \subseteq DOMAIN entries
      /\ item \in 1..(Size + 1) /\ Len(tokens) = item - 1
      /\ \A i \in 1..(item - 1) :
           /\ entries[i - 1] # NoEntry
           /\ tokens[i] = IF i - 1 \in Elements(eos_ids) THEN Eos ELSE Decoded(entries[i - 1].piece)
           /\ i - 1 \notin Elements(eos_ids) =>
                tokens[i] # <<>> /\ (Len(tokens[i]) = 1 => tokens[i][1] \in singleton)
      /\ \A b \in singleton : \E i \in 1..(item - 1) : i - 1 \notin Elements(eos_ids) /\ tokens[i] = <<b>>
      /\ phase = "imported" => item = Size + 1 /\ singleton = Bytes

Refusable == ~Compatible(document, eos_ids) \/ Cardinality(Ids(document)) > MaxVocabulary
RefusalFacts == phase = "refused" /\ reason \notin Limits => Refusable

ImportInv ==
    /\ ImportTyped /\ ImportBounded /\ ReadFacts /\ VocabularyFacts /\ AddedFacts
    /\ TokenFacts /\ RefusalFacts
-----------------------------------------------------------------------------
(* The size of the vocabulary that is being built, and the types of a        *)
(* document.                                                                 *)
LEMMA SizeOfEntries ==
    ASSUME ImportTyped
    PROVE  /\ Size \in Nat /\ entries \in [0..(Size - 1) -> Entry]
           /\ DOMAIN entries = 0..(Size - 1) /\ IsFiniteSet(DOMAIN entries)
<1>1. PICK n \in Nat : entries \in [0..(n - 1) -> Entry]
    BY DEF ImportTyped
<1>2. Cardinality(0..(n - 1)) = n /\ IsFiniteSet(0..(n - 1))
    BY FS_Interval
<1>3. DOMAIN entries = 0..(n - 1)
    BY <1>1
<1> QED
    BY <1>1, <1>2, <1>3 DEF Size

LEMMA SizeOfRange ==
    ASSUME NEW n \in Nat
    PROVE  Cardinality(0..(n - 1)) = n /\ IsFiniteSet(0..(n - 1))
BY FS_Interval

LEMMA DocumentTyped ==
    ASSUME ImportTyped, phase # "none"
    PROVE  /\ document.bytes \in Nat /\ document.fields \in Nat
           /\ {document.utf8, document.json, document.decoder} \subseteq BOOLEAN
           /\ document.model \in {"map", "list", "other"}
           /\ document.model = "map" =>
                document.vocabulary \in Seq([piece : Seq(Characters), id : Nat \cup {NotAnId}])
           /\ document.model = "list" => document.vocabulary \in Seq(Seq(Characters) \cup {NotText})
           /\ document.added \in Seq([piece : Seq(Characters) \cup {NotText}, id : Nat \cup {NotAnId},
                                      special : {"yes", "no", "absent"}])
           /\ eos_ids \in Seq(Nat \cup {NotAnId})
BY ImportAssumption DEF ImportTyped

(* The pairs of a document, and the first of them.                           *)
LEMMA FirstPairs ==
    ASSUME ImportTyped, phase # "none", document.model \in {"map", "list"},
           NEW n \in 0..Len(document.vocabulary)
    PROVE  /\ document.model = "map" =>
                Vocabulary(n) = {<<document.vocabulary[i].id, document.vocabulary[i].piece>> : i \in 1..n}
           /\ document.model = "list" => Vocabulary(n) = {<<i - 1, document.vocabulary[i]>> : i \in 1..n}
           /\ Listed(document) = Vocabulary(Len(document.vocabulary))
           /\ Vocabulary(n) \subseteq Listed(document)
           /\ IsFiniteSet(Vocabulary(n)) /\ Cardinality(Vocabulary(n)) \in Nat
           /\ Cardinality(Vocabulary(n)) <= n
<1> DEFINE v == document.vocabulary
<1>1. /\ Len(v) \in Nat /\ n \in Nat /\ n <= Len(v) /\ DOMAIN v = 1..Len(v)
      /\ 1..n \subseteq 1..Len(v)
    BY DocumentTyped
<1>2. CASE document.model = "map"
    <2>1. v \in Seq([piece : Seq(Characters), id : Nat \cup {NotAnId}])
        BY <1>2, DocumentTyped
    <2>2. ASSUME NEW m \in 0..Len(v)
          PROVE  Vocabulary(m) = {<<v[i].id, v[i].piece>> : i \in 1..m}
        <3>1. Elements(SubSeq(v, 1, m)) = {v[i] : i \in 1..m}
            <4>1. Len(SubSeq(v, 1, m)) = m /\ \A i \in 1..m : SubSeq(v, 1, m)[i] = v[i]
                BY <2>1
            <4> QED
                BY <4>1 DEF Elements
        <3> QED
            BY <1>2, <3>1 DEF Vocabulary
    <2>3. Listed(document) = {<<v[i].id, v[i].piece>> : i \in 1..Len(v)}
        BY <1>2 DEF Listed, Elements
    <2>4. Vocabulary(n) = {<<v[i].id, v[i].piece>> : i \in 1..n} /\ Len(v) \in 0..Len(v)
        BY <1>1, <2>2
    <2>5. Vocabulary(n) \subseteq Listed(document)
        BY <1>1, <2>3, <2>4
    <2> DEFINE f == [i \in 1..n |-> <<v[i].id, v[i].piece>>]
    <2>6. f \in Surjection(1..n, Vocabulary(n))
        BY <2>4 DEF Surjection
    <2>7. IsFiniteSet(1..n) /\ Cardinality(1..n) = n
        BY <1>1, FS_Interval
    <2>8. IsFiniteSet(Vocabulary(n)) /\ Cardinality(Vocabulary(n)) <= n
        BY <2>6, <2>7, FS_Surjection
    <2> QED
        BY <1>2, <2>2, <2>3, <2>4, <2>5, <2>8, FS_CardinalityType
<1>3. CASE document.model = "list"
    <2>1. \A m : Vocabulary(m) = {<<i - 1, v[i]>> : i \in 1..m}
        BY <1>3 DEF Vocabulary
    <2>2. Listed(document) = Vocabulary(Len(v))
        BY <1>3, <2>1 DEF Listed
    <2>3. Vocabulary(n) \subseteq Listed(document)
        BY <1>1, <2>1, <2>2
    <2> DEFINE f == [i \in 1..n |-> <<i - 1, v[i]>>]
    <2>4. f \in Surjection(1..n, Vocabulary(n))
        BY <2>1 DEF Surjection
    <2>5. IsFiniteSet(1..n) /\ Cardinality(1..n) = n
        BY <1>1, FS_Interval
    <2>6. IsFiniteSet(Vocabulary(n)) /\ Cardinality(Vocabulary(n)) <= n
        BY <2>4, <2>5, FS_Surjection
    <2> QED
        BY <1>3, <2>1, <2>2, <2>3, <2>6, FS_CardinalityType
<1> QED
    BY <1>2, <1>3

(* The first n of the added tokens are among all of them.                    *)
LEMMA FirstAdded ==
    ASSUME ImportTyped, phase # "none", NEW n \in 0..Len(document.added)
    PROVE  /\ AddedTo(n) \subseteq AddedTo(Len(document.added)) /\ IsFiniteSet(AddedTo(n))
           /\ Assigned(document) = Listed(document) \cup AddedTo(Len(document.added))
<1> DEFINE a == document.added
<1>1. Len(a) \in Nat /\ n \in Nat /\ 1..n \subseteq 1..Len(a)
    BY DocumentTyped
<1>2. Assigned(document) = Listed(document) \cup AddedTo(Len(document.added))
    BY DEF Assigned, AddedTo, Elements
<1>3. AddedTo(n) \subseteq AddedTo(Len(a))
    BY <1>1 DEF AddedTo
<1> DEFINE f == [i \in 1..n |-> <<a[i].id, a[i].piece>>]
<1>4. f \in Surjection(1..n, AddedTo(n))
    BY DEF Surjection, AddedTo
<1>5. IsFiniteSet(1..n)
    BY <1>1, FS_Interval
<1>6. IsFiniteSet(AddedTo(n))
    BY <1>4, <1>5, FS_Surjection
<1> QED
    BY <1>2, <1>3, <1>6

(* What a compatible document is: each id has one piece.                     *)
LEMMA CompatibleDocuments ==
    ASSUME ImportTyped, phase # "none", Compatible(document, eos_ids)
    PROVE  LET ids == Ids(document)
           IN  /\ ids = {p[1] : p \in Assigned(document)} /\ ids = 0..(Cardinality(ids) - 1)
               /\ Cardinality(ids) \in Nat /\ IsFiniteSet(ids) /\ ids # {}
               /\ \A p, q \in Assigned(document) : p[1] = q[1] => p = q
               /\ Listed(document) \subseteq Assigned(document)
               /\ Len(document.vocabulary) <= Cardinality(ids) /\ Len(eos_ids) <= Cardinality(ids)
<1> DEFINE A == Assigned(document)
           ids == Ids(document)
<1>1. /\ document.model \in {"map", "list"} /\ ids = 0..(Cardinality(A) - 1) /\ ids # {}
      /\ Cardinality(Listed(document)) = Len(document.vocabulary)
      /\ Elements(eos_ids) \subseteq ids /\ Cardinality(Elements(eos_ids)) = Len(eos_ids)
    BY DEF Compatible
<1>2. document.vocabulary \in Seq([piece : Seq(Characters), id : Nat \cup {NotAnId}]) \/
      document.vocabulary \in Seq(Seq(Characters) \cup {NotText})
    BY <1>1, DocumentTyped
<1>3. /\ Len(document.vocabulary) \in 0..Len(document.vocabulary)
      /\ Len(document.added) \in 0..Len(document.added)
    BY <1>2, DocumentTyped
<1>4. IsFiniteSet(Listed(document)) /\ IsFiniteSet(AddedTo(Len(document.added)))
    BY <1>1, <1>3, FirstPairs, FirstAdded
<1>5. A = Listed(document) \cup AddedTo(Len(document.added)) /\ IsFiniteSet(A)
    BY <1>3, <1>4, FirstAdded, FS_Union
<1>6. ids = {p[1] : p \in A}
    BY DEF Ids
<1>7. IsFiniteSet(ids) /\ Cardinality(ids) \in Nat /\ Cardinality(A) \in Nat
    BY <1>5, <1>6, KeysOfPairs
<1>8. Cardinality(ids) = Cardinality(A)
    BY <1>1, <1>7, SizeOfRange
<1>9. \A p, q \in A : p[1] = q[1] => p = q
    BY <1>5, <1>6, <1>8, KeysOfPairs
<1>10. Cardinality(Listed(document)) <= Cardinality(A)
    BY <1>5, FS_Subset
<1>11. Cardinality(Elements(eos_ids)) <= Cardinality(ids)
    BY <1>1, <1>7, FS_Subset
<1> HIDE DEF A, ids
<1> QED
    BY <1>1, <1>5, <1>6, <1>7, <1>8, <1>9, <1>10, <1>11 DEF A, ids

(* A refusal keeps the invariant when it is for a limit or when the document *)
(* deserves it; it is for the first test that fails.                         *)
LEMMA RefusalPreserves ==
    ASSUME ImportInv, phase # "none", NEW tests, RefusesUnless(tests),
           FirstFailure(tests) \notin Limits => Refusable
    PROVE  ImportInv'
<1>1. /\ phase' = "refused" /\ reason' = FirstFailure(tests)
      /\ UNCHANGED <<document, eos_ids, item, work, decoded, pairs, entries, membership, tokens, singleton>>
    BY DEF RefusesUnless
<1>2. ImportTyped'
    BY <1>1 DEF ImportInv, ImportTyped, Started
<1>3. ImportBounded'
    BY <1>1 DEF ImportInv, ImportBounded, Size
<1>4. ReadFacts' /\ VocabularyFacts' /\ AddedFacts' /\ TokenFacts'
    BY <1>1 DEF ReadFacts, VocabularyFacts, AddedFacts, TokenFacts, Opened, Listing, Merging
<1>5. RefusalFacts'
    BY <1>1 DEF RefusalFacts, Refusable
<1> QED
    BY <1>2, <1>3, <1>4, <1>5 DEF ImportInv

LEMMA FailsFirst ==
    ASSUME NEW tests, Len(tests) \in Nat, ~Holds(tests)
    PROVE  \E i \in 1..Len(tests) :
             /\ ~tests[i].holds /\ FirstFailure(tests) = tests[i].why
             /\ \A j \in 1..(i - 1) : tests[j].holds
<1>1. PICK i \in 1..Len(tests) :
             /\ ~tests[i].holds /\ FirstFailure(tests) = tests[i].why
             /\ \A j \in 1..Len(tests) : j < i => tests[j].holds
    BY RefusedFor
<1>2. \A j \in 1..(i - 1) : tests[j].holds
    <2> TAKE j \in 1..(i - 1)
    <2>1. j \in 1..Len(tests) /\ j < i
        OBVIOUS
    <2> QED
        BY <1>1, <2>1
<1> QED
    BY <1>1, <1>2

(* TokenizerManifest.from_transformers: the ids of the ends of sentence.     *)
LEMMA FromTransformersKeeps ==
    ASSUME ImportInv, FromTransformers
    PROVE  ImportInv'
<1> DEFINE tests ==
       << Test(Len(eos_ids) <= MaxVocabulary, "incompatible"),
          Test(NotAnId \notin Elements(eos_ids), "incompatible"),
          Test(Cardinality(Elements(eos_ids)) = Len(eos_ids), "incompatible"),
          Test(eos_ids # <<>>, "missing_eos"), Test(document.utf8, "incompatible"),
          Test(document.bytes <= MaxJsonBytes, "json_too_large") >>
<1>1. phase = "called" /\ Len(tests) = 6 /\ ImportTyped /\ document.utf8 \in BOOLEAN
    BY DocumentTyped DEF FromTransformers, ImportInv
<1>2. CASE /\ Goes(tests, 0, "read", 1)
           /\ UNCHANGED <<decoded, pairs, entries, membership, tokens, singleton>>
    <2>1. document.utf8 /\ NotAnId \notin Elements(eos_ids)
        <3>1. tests[2].holds /\ tests[5].holds
            BY <1>1, <1>2 DEF Goes, Holds
        <3> QED
            BY <1>1, <3>1 DEF Test
    <2>2. /\ phase' = "read" /\ item' = 1 /\ work' = work + 0
          /\ UNCHANGED <<document, eos_ids, reason>>
        BY <1>2 DEF Goes
    <2> HIDE DEF tests
    <2>3. ImportTyped'
        BY <1>1, <1>2, <2>2 DEF ImportTyped, Started
    <2>4. ImportBounded'
        BY <1>1, <1>2, <2>2 DEF ImportInv, ImportTyped, ImportBounded, Size
    <2>5. ReadFacts'
        BY <2>1, <2>2 DEF ReadFacts, Opened
    <2>6. VocabularyFacts' /\ AddedFacts' /\ TokenFacts' /\ RefusalFacts'
        BY <1>1, <1>2, <2>2 DEF ImportInv, VocabularyFacts, AddedFacts, TokenFacts, RefusalFacts,
           Listing, Merging
    <2> QED
        BY <2>3, <2>4, <2>5, <2>6 DEF ImportInv
<1>3. CASE RefusesUnless(tests)
    <2>1. PICK i \in 1..6 : /\ ~tests[i].holds /\ FirstFailure(tests) = tests[i].why
                            /\ \A j \in 1..(i - 1) : tests[j].holds
        BY <1>1, <1>3, FailsFirst DEF RefusesUnless
    <2>2. CASE i \in {1, 2, 3, 4, 5}
        <3>1. ~(/\ Len(eos_ids) <= MaxVocabulary /\ NotAnId \notin Elements(eos_ids)
                /\ Cardinality(Elements(eos_ids)) = Len(eos_ids) /\ eos_ids # <<>> /\ document.utf8)
            <4>1. ~(tests[1].holds /\ tests[2].holds /\ tests[3].holds /\ tests[4].holds /\ tests[5].holds)
                <5> HIDE DEF tests
                <5> QED
                    BY <2>1, <2>2
            <4> QED
                BY <4>1 DEF Test
        <3> HIDE DEF tests
        <3>2. SUFFICES ASSUME Compatible(document, eos_ids) PROVE Cardinality(Ids(document)) > MaxVocabulary
            <4>1. Refusable => ImportInv'
                BY <1>1, <1>3, RefusalPreserves
            <4> QED
                BY <4>1 DEF Refusable
        <3>3. ~(Len(eos_ids) <= MaxVocabulary)
            BY <3>1, <3>2 DEF Compatible
        <3>4. /\ Len(eos_ids) <= Cardinality(Ids(document))
              /\ Cardinality(Ids(document)) \in Nat /\ Len(eos_ids) \in Nat
            BY <1>1, <3>2, CompatibleDocuments, DocumentTyped
        <3> QED
            BY <3>3, <3>4, ImportAssumption
    <2>3. CASE i = 6
        <3>1. FirstFailure(tests) \in Limits
            BY <2>1, <2>3 DEF Test, Limits
        <3> HIDE DEF tests
        <3> QED
            BY <1>1, <1>3, <3>1, RefusalPreserves
    <2> QED
        BY <2>2, <2>3
<1> QED
    BY <1>2, <1>3 DEF FromTransformers

(* Opening and parsing the document.                                         *)
LEMMA NothingFilled ==
    ASSUME entries = <<>>
    PROVE  Filled({}) /\ DOMAIN entries = {} /\ DOMAIN entries = 0..(-1)
BY DEF Filled

LEMMA OpenKeeps ==
    ASSUME ImportInv, Open
    PROVE  ImportInv'
<1> DEFINE tests == << Test(document.bytes <= MaxJsonBytes, "json_too_large"),
                    Test(eos_ids # <<>>, "missing_eos"),
                    Affords(document.bytes),
                    Test(document.json, "invalid_json"),
                    Affords(document.bytes + document.fields),
                    Test(document.decoder, "incompatible"),
                    Test(document.model \in {"map", "list"}, "incompatible"),
                    Test(Len(document.vocabulary) <= MaxVocabulary, "incompatible") >>
<1>1. /\ phase = "read" /\ Len(tests) = 8 /\ ImportTyped
      /\ document.json \in BOOLEAN /\ document.decoder \in BOOLEAN
      /\ document.bytes \in Nat /\ document.fields \in Nat
    BY DocumentTyped DEF Open, ImportInv
<1>2. CASE /\ Goes(tests, document.bytes + document.fields, "vocabulary", 1)
           /\ UNCHANGED <<decoded, pairs, entries, membership, tokens, singleton>>
    <2>1. /\ eos_ids # <<>> /\ document.json
          /\ work + (document.bytes + document.fields) <= MaxImportWork
          /\ document.decoder /\ document.model \in {"map", "list"}
          /\ Len(document.vocabulary) <= MaxVocabulary
        <3>1. /\ tests[2].holds /\ tests[4].holds /\ tests[5].holds /\ tests[6].holds
              /\ tests[7].holds /\ tests[8].holds
            <4> HIDE DEF tests
            <4> QED
                BY <1>1, <1>2 DEF Goes, Holds
        <3> QED
            BY <1>1, <3>1 DEF Test, Affords
    <2>2. /\ phase' = "vocabulary" /\ item' = 1
          /\ work' = work + (document.bytes + document.fields)
          /\ UNCHANGED <<document, eos_ids, reason>>
        BY <1>2 DEF Goes
    <2> HIDE DEF tests
    <2>3. ImportTyped'
        <3>1. work' \in Nat /\ decoded' \in Nat /\ membership' \in Nat /\ item' \in Nat \ {0}
            BY <1>1, <1>2, <2>2 DEF ImportTyped
        <3> QED
            BY <1>1, <1>2, <2>2, <3>1 DEF ImportTyped, Started
    <2>4. ImportBounded'
        BY <1>1, <1>2, <2>1, <2>2 DEF ImportInv, ImportBounded, Size
    <2>5. ReadFacts'
        BY <1>1, <2>1, <2>2 DEF ImportInv, ReadFacts, Opened
    <2>6. VocabularyFacts'
        <3>1. entries = <<>> /\ pairs = <<>> /\ tokens = <<>> /\ singleton = {} /\ decoded = 0
            BY <1>1 DEF ImportInv, VocabularyFacts
        <3>2. Len(document.vocabulary) \in Nat /\ SubSeq(document.vocabulary, 1, 0) = <<>>
            BY <1>1, <2>1, DocumentTyped
        <3>3. Filled({})' /\ (DOMAIN entries)' = 0..(-1)
            BY <1>2, <3>1, NothingFilled DEF Filled, Size
        <3>4. document.model # "map" => Vocabulary(0) = {}
            BY DEF Vocabulary
        <3>5. (document.model # "map" => Vocabulary(0) = {})'
            BY <2>2, <3>4 DEF Vocabulary
        <3>6. /\ item' - 1 = 0 /\ item' - 2 = -1 /\ item' <= Len(document'.vocabulary) + 1
            BY <2>2, <3>2
        <3>7. Filled(IF document.model = "map" THEN {} ELSE Vocabulary(item - 1))'
            BY <3>3, <3>5, <3>6
        <3>8. (\A id \in DOMAIN entries : ~entries[id].special)'
            BY <3>3
        <3> QED
            BY <1>2, <2>2, <3>1, <3>2, <3>3, <3>6, <3>7, <3>8 DEF VocabularyFacts, Listing
    <2>7. AddedFacts' /\ TokenFacts' /\ RefusalFacts'
        BY <2>2 DEF ImportInv, AddedFacts, TokenFacts, RefusalFacts, Merging
    <2> QED
        BY <2>3, <2>4, <2>5, <2>6, <2>7 DEF ImportInv
<1>3. CASE RefusesUnless(tests)
    <2>1. PICK i \in 1..8 : /\ ~tests[i].holds /\ FirstFailure(tests) = tests[i].why
                            /\ \A j \in 1..(i - 1) : tests[j].holds
        BY <1>1, <1>3, FailsFirst DEF RefusesUnless
    <2>2. CASE i \in {2, 4, 6, 7, 8}
        <3>1. /\ ~(eos_ids # <<>> /\ document.json /\ document.decoder
                   /\ document.model \in {"map", "list"} /\ Len(document.vocabulary) <= MaxVocabulary)
            <4>1. ~(tests[2].holds /\ tests[4].holds /\ tests[6].holds /\ tests[7].holds /\ tests[8].holds)
                <5> HIDE DEF tests
                <5> QED
                    BY <2>1, <2>2
            <4> QED
                BY <4>1 DEF Test
        <3> HIDE DEF tests
        <3>2. SUFFICES ASSUME Compatible(document, eos_ids) PROVE Cardinality(Ids(document)) > MaxVocabulary
            <4>1. Refusable => ImportInv'
                BY <1>1, <1>3, RefusalPreserves
            <4> QED
                BY <4>1 DEF Refusable
        <3>3. ~(Len(document.vocabulary) <= MaxVocabulary) /\ document.model \in {"map", "list"}
            BY <3>1, <3>2 DEF Compatible
        <3>4. Len(document.vocabulary) \in Nat
            BY <1>1, <3>3, DocumentTyped
        <3>5. /\ Len(document.vocabulary) <= Cardinality(Ids(document))
              /\ Cardinality(Ids(document)) \in Nat
            BY <1>1, <3>2, CompatibleDocuments
        <3> QED
            BY <3>3, <3>4, <3>5, ImportAssumption
    <2>3. CASE i \in {1, 3, 5}
        <3>1. FirstFailure(tests) \in Limits
            <4>1. tests[1].why \in Limits /\ tests[3].why \in Limits /\ tests[5].why \in Limits
                BY DEF Test, Affords, Limits
            <4> HIDE DEF tests
            <4> QED
                BY <2>1, <2>3, <4>1
        <3> HIDE DEF tests
        <3> QED
            BY <1>1, <1>3, <3>1, RefusalPreserves
    <2> QED
        BY <2>2, <2>3
<1> QED
    BY <1>2, <1>3 DEF Open

(* One pair of a vocabulary that is a map.                                   *)
LEMMA ElementOfList ==
    ASSUME NEW S, NEW s \in Seq(S), NEW i \in 1..Len(s)
    PROVE  s[i] \in S
OBVIOUS

LEMMA ReadPairKeeps ==
    ASSUME ImportInv, ReadPair
    PROVE  ImportInv'
<1> DEFINE v == document.vocabulary
           pair == v[item]
           tests == << Affords(PieceBytes(pair.piece) + 1), Test(pair.id # NotAnId, "incompatible") >>
<1>1. Len(tests) = 2
    OBVIOUS
<1> HIDE DEF tests, v, pair
<1>2. /\ phase = "vocabulary" /\ ImportTyped /\ document.model = "map" /\ item \in Nat \ {0}
      /\ item <= Len(v)
    BY DEF ReadPair, ImportInv, ImportTyped, v
<1>3. v \in Seq([piece : Seq(Characters), id : Nat \cup {NotAnId}])
    BY <1>2, DocumentTyped DEF v
<1>4. Len(v) \in Nat /\ item \in 1..Len(v)
    BY <1>2, <1>3
<1>5. /\ pair.piece \in Seq(Characters) /\ pair.id \in Nat \cup {NotAnId}
      /\ PieceBytes(pair.piece) \in Nat
    <2>1. pair.piece \in Seq(Characters) /\ pair.id \in Nat \cup {NotAnId}
        <3>1. pair \in [piece : Seq(Characters), id : Nat \cup {NotAnId}]
            BY <1>3, <1>4, ElementOfList, Zenon DEF pair
        <3> QED
            BY <3>1
    <2>2. Len(Flat(pair.piece)) \in Nat
        BY <2>1, TextIsBytes
    <2> QED
        BY <2>1, <2>2 DEF PieceBytes
<1>6. CASE /\ Goes(tests, PieceBytes(pair.piece) + 1, phase, item + 1)
           /\ pairs' = Append(pairs, pair)
           /\ UNCHANGED <<decoded, entries, membership, tokens, singleton>>
    <2>1. work + (PieceBytes(pair.piece) + 1) <= MaxImportWork /\ pair.id # NotAnId
        <3>1. tests[1].holds /\ tests[2].holds
            BY <1>1, <1>6 DEF Goes, Holds
        <3> QED
            BY <3>1 DEF tests, Test, Affords
    <2>2. /\ phase' = phase /\ item' = item + 1
          /\ work' = work + (PieceBytes(pair.piece) + 1)
          /\ UNCHANGED <<document, eos_ids, reason>>
        BY <1>6 DEF Goes
    <2>3. ImportTyped'
        <3>1. work' \in Nat /\ item' \in Nat \ {0}
            BY <1>5, <1>2, <2>2 DEF ImportTyped
        <3> QED
            BY <1>2, <1>6, <2>2, <3>1 DEF ImportTyped
    <2>4. ImportBounded'
        BY <1>2, <1>6, <2>1, <2>2 DEF ImportInv, ImportBounded, Size
    <2>5. ReadFacts'
        BY <2>2 DEF ImportInv, ReadFacts
    <2>6. VocabularyFacts'
        <3>1. /\ Filled({}) /\ pairs = SubSeq(v, 1, item - 1)
              /\ \A i \in 1..(item - 1) : pairs[i].id # NotAnId
              /\ tokens = <<>> /\ singleton = {} /\ decoded = 0
              /\ \A id \in DOMAIN entries : ~entries[id].special
            BY <1>2 DEF ImportInv, VocabularyFacts, v
        <3>2. pairs' = SubSeq(v, 1, item)
            <4>1. Append(SubSeq(v, 1, item - 1), v[item]) = SubSeq(v, 1, item)
                BY <1>3, <1>4
            <4> QED
                BY <1>6, <3>1, <4>1 DEF pair
        <3>3. \A i \in 1..item : pairs'[i].id # NotAnId
            <4> TAKE i \in 1..item
            <4>1. pairs'[i] = v[i] /\ (i # item => i \in 1..(item - 1) /\ pairs[i] = v[i])
                BY <1>3, <1>4, <3>1, <3>2
            <4> QED
                BY <2>1, <3>1, <4>1 DEF pair
        <3>4. item' - 1 = item /\ item' <= Len(v) + 1 /\ document'.vocabulary = v
            BY <1>4, <2>2 DEF v
        <3>5. Filled({})' /\ (\A id \in DOMAIN entries : ~entries[id].special)'
            BY <1>6, <3>1 DEF Filled, Size
        <3> QED
            BY <1>2, <1>6, <2>2, <3>1, <3>2, <3>3, <3>4, <3>5 DEF VocabularyFacts, Listing
    <2>7. AddedFacts' /\ TokenFacts' /\ RefusalFacts'
        BY <1>2, <2>2 DEF ImportInv, AddedFacts, TokenFacts, RefusalFacts, Merging
    <2> QED
        BY <2>3, <2>4, <2>5, <2>6, <2>7 DEF ImportInv
<1>7. CASE RefusesUnless(tests)
    <2>1. PICK i \in 1..2 : /\ ~tests[i].holds /\ FirstFailure(tests) = tests[i].why
                            /\ \A j \in 1..(i - 1) : tests[j].holds
        BY <1>1, <1>7, FailsFirst DEF RefusesUnless
    <2>2. CASE i = 2
        <3>1. pair.id = NotAnId
            <4>1. ~tests[2].holds
                BY <2>1, <2>2
            <4> QED
                BY <4>1 DEF tests, Test
        <3>2. ~Compatible(document, eos_ids)
            <4>1. <<pair.id, pair.piece>> \in Assigned(document)
                BY <1>2, <1>4 DEF Assigned, Listed, Elements, pair, v
            <4>2. NotAnId \in Ids(document)
                BY <3>1, <4>1 DEF Ids
            <4> QED
                BY <4>2 DEF Compatible
        <3> QED
            BY <1>2, <1>7, <3>2, RefusalPreserves DEF Refusable
    <2>3. CASE i = 1
        <3>1. FirstFailure(tests) \in Limits
            <4>1. tests[1].why \in Limits
                BY DEF tests, Test, Affords, Limits
            <4> QED
                BY <2>1, <2>3, <4>1
        <3> QED
            BY <1>2, <1>7, <3>1, RefusalPreserves
    <2> QED
        BY <2>2, <2>3
<1> QED
    BY <1>6, <1>7 DEF ReadPair, tests, v, pair

(* The vocabulary that is a map, once all of its pairs are read: it is built *)
(* when its ids are 0 to n - 1, each once.                                   *)
LEMMA IdsOfMap ==
    ASSUME ImportTyped, phase # "none", document.model = "map",
           \A i \in 1..Len(document.vocabulary) : document.vocabulary[i].id # NotAnId
    PROVE  LET v == document.vocabulary
               ids == {v[i].id : i \in 1..Len(v)}
           IN  /\ ids \subseteq Nat /\ (ids = {} <=> Len(v) = 0)
               /\ ids # {} => Maximum(ids) \in ids /\ \A m \in ids : m <= Maximum(ids)
               /\ Cardinality(ids) = Len(v) <=> \A i, j \in 1..Len(v) : v[i].id = v[j].id => i = j
               /\ Cardinality(ids) = Len(v) => Cardinality(Listed(document)) = Len(v)
               /\ Compatible(document, eos_ids) => Cardinality(ids) = Len(v)
<1> DEFINE v == document.vocabulary
           ids == {v[i].id : i \in 1..Len(v)}
           c == [i \in 1..Len(v) |-> v[i].id]
           d == [i \in 1..Len(v) |-> <<v[i].id, v[i].piece>>]
<1>1. v \in Seq([piece : Seq(Characters), id : Nat \cup {NotAnId}]) /\ Len(v) \in Nat
    BY DocumentTyped
<1>2. \A i \in 1..Len(v) : v[i].id \in Nat /\ v[i].piece \in Seq(Characters)
    <2> TAKE i \in 1..Len(v)
    <2>1. v[i] \in [piece : Seq(Characters), id : Nat \cup {NotAnId}]
        <3> HIDE DEF v
        <3> QED
            BY <1>1, ElementOfList, Zenon
    <2>2. v[i].id # NotAnId
        OBVIOUS
    <2> QED
        BY <2>1, <2>2
<1>3. Listed(document) = {<<v[i].id, v[i].piece>> : i \in 1..Len(v)}
    BY DEF Listed, Elements
<1> HIDE DEF v
<1>4. c \in Seq(Nat) /\ Len(c) = Len(v) /\ Elements(c) = ids
    BY <1>1, <1>2 DEF Elements
<1>5. d \in Seq(Nat \X Seq(Characters)) /\ Len(d) = Len(v) /\ Elements(d) = Listed(document)
    BY <1>1, <1>2, <1>3 DEF Elements
<1>6. ids \subseteq Nat /\ (ids = {} <=> Len(v) = 0)
    <2>1. CASE Len(v) = 0
        <3>1. 1..Len(v) = {}
            BY <2>1
        <3> QED
            BY <2>1, <3>1
    <2>2. CASE Len(v) # 0
        <3>1. 1 \in 1..Len(v)
            BY <1>1, <2>2
        <3>2. v[1].id \in ids
            BY <3>1
        <3> QED
            BY <1>2, <2>2, <3>2
    <2> QED
        BY <2>1, <2>2
<1>7. ids # {} => Maximum(ids) \in ids /\ \A m \in ids : m <= Maximum(ids)
    <2>1. ids # {} => c # <<>>
        BY <1>4, <1>6
    <2> HIDE DEF c, ids
    <2> QED
        BY <1>4, <2>1, LargestOfList
<1>8. Cardinality(ids) = Len(v) <=> \A i, j \in 1..Len(v) : v[i].id = v[j].id => i = j
    <2>1. \A i \in 1..Len(v) : c[i] = v[i].id
        OBVIOUS
    <2> HIDE DEF c, ids
    <2>2. c \in Seq(Nat)
        BY <1>4
    <2>3. Cardinality(Elements(c)) = Len(c) <=> \A i, j \in 1..Len(c) : c[i] = c[j] => i = j
        BY <2>2, ElementsOfList, Zenon
    <2>4. (\A i, j \in 1..Len(v) : c[i] = c[j] => i = j) <=>
            (\A i, j \in 1..Len(v) : v[i].id = v[j].id => i = j)
        BY <2>1
    <2>5. Len(c) = Len(v) /\ Elements(c) = ids
        BY <1>4
    <2> QED
        BY <2>3, <2>4, <2>5
<1>9. Cardinality(Listed(document)) = Len(v) <=> \A i, j \in 1..Len(v) : d[i] = d[j] => i = j
    <2> HIDE DEF d
    <2>1. Cardinality(Elements(d)) = Len(d) <=> \A i, j \in 1..Len(d) : d[i] = d[j] => i = j
        BY <1>5, ElementsOfList
    <2> QED
        BY <1>5, <2>1
<1>10. \A i, j \in 1..Len(v) : d[i] = d[j] <=> v[i].id = v[j].id /\ v[i].piece = v[j].piece
    OBVIOUS
<1>11. Cardinality(ids) = Len(v) => Cardinality(Listed(document)) = Len(v)
    <2> HIDE DEF d, ids
    <2> QED
        BY <1>8, <1>9, <1>10
<1>12. ASSUME Compatible(document, eos_ids) PROVE Cardinality(ids) = Len(v)
    <2>1. \A p, q \in Listed(document) : p[1] = q[1] => p = q
        BY <1>12, CompatibleDocuments
    <2>2. \A i \in 1..Len(v) : d[i] \in Listed(document) /\ d[i][1] = v[i].id
        BY <1>3
    <2> HIDE DEF d, ids
    <2>3. \A i, j \in 1..Len(v) : v[i].id = v[j].id => d[i] = d[j]
        BY <2>1, <2>2
    <2>4. Cardinality(Listed(document)) = Len(v)
        BY <1>12 DEF Compatible, v
    <2> QED
        BY <1>8, <1>9, <2>3, <2>4
<1> HIDE DEF ids, c, d
<1> QED
    BY <1>6, <1>7, <1>8, <1>11, <1>12 DEF ids, v

LEMMA BuildDenseKeeps ==
    ASSUME ImportInv, BuildDense
    PROVE  ImportInv'
<1> DEFINE v == document.vocabulary
           ids == {pair.id : pair \in Elements(pairs)}
           size == IF ids = {} THEN 0 ELSE Maximum(ids) + 1
           tests == << Affords(Len(pairs)), Test(size <= MaxVocabulary, "incompatible"),
                       Test(Cardinality(ids) = Len(pairs), "incompatible") >>
           held(id) == CHOOSE pair \in Elements(pairs) : pair.id = id
           made == [id \in 0..(size - 1) |->
                      IF id \in ids THEN [piece |-> held(id).piece, special |-> FALSE] ELSE NoEntry]
<1>1. \/ /\ Goes(tests, Len(pairs), "eos", 1)
         /\ entries' = made /\ pairs' = <<>>
         /\ UNCHANGED <<decoded, membership, tokens, singleton>>
      \/ RefusesUnless(tests)
    BY DEF BuildDense
<1>2. /\ Len(tests) = 3
      /\ tests[1].holds => work + Len(pairs) <= MaxImportWork
      /\ tests[2].holds <=> size <= MaxVocabulary
      /\ tests[3].holds <=> Cardinality(ids) = Len(pairs)
      /\ tests[1].why \in Limits
    <2> HIDE DEF size, ids
    <2> QED
        BY DEF Test, Affords, Limits
<1>3. made = [id \in 0..(size - 1) |->
                IF id \in ids THEN [piece |-> held(id).piece, special |-> FALSE] ELSE NoEntry]
    OBVIOUS
<1> HIDE DEF tests, v, made, ids, held, size
<1>4. /\ phase = "vocabulary" /\ ImportTyped /\ document.model = "map" /\ item \in Nat \ {0}
      /\ item > Len(v)
      /\ item <= Len(v) + 1
      /\ pairs = SubSeq(v, 1, item - 1) /\ \A i \in 1..(item - 1) : pairs[i].id # NotAnId
    <2>1. phase = "vocabulary" /\ document.model = "map" /\ item > Len(v)
        BY DEF BuildDense, v
    <2>2. /\ item <= Len(v) + 1
          /\ pairs = SubSeq(v, 1, item - 1) /\ \A i \in 1..(item - 1) : pairs[i].id # NotAnId
        BY <2>1 DEF ImportInv, VocabularyFacts, v
    <2>3. ImportTyped /\ item \in Nat \ {0}
        BY DEF ImportInv, ImportTyped
    <2> QED
        BY <2>1, <2>2, <2>3
<1>5. v \in Seq([piece : Seq(Characters), id : Nat \cup {NotAnId}]) /\ Len(v) \in Nat
    BY <1>4, DocumentTyped DEF v
<1>6. pairs = v /\ item - 1 = Len(v) /\ \A i \in 1..Len(v) : v[i].id # NotAnId
    <2>1. item - 1 = Len(v) /\ SubSeq(v, 1, Len(v)) = v
        BY <1>4, <1>5
    <2> QED
        BY <1>4, <2>1
<1>7. ids = {v[i].id : i \in 1..Len(v)}
    BY <1>6 DEF Elements, ids
<1>8. \A i \in 1..Len(v) : held(v[i].id) \in Elements(v) /\ held(v[i].id).id = v[i].id
    BY <1>6 DEF Elements, held
<1>9. /\ ids \subseteq Nat /\ (ids = {} <=> Len(v) = 0)
      /\ ids # {} => Maximum(ids) \in ids /\ \A m \in ids : m <= Maximum(ids)
      /\ Cardinality(ids) = Len(v) <=> \A i, j \in 1..Len(v) : v[i].id = v[j].id => i = j
      /\ Cardinality(ids) = Len(v) => Cardinality(Listed(document)) = Len(v)
      /\ Compatible(document, eos_ids) => Cardinality(ids) = Len(v)
    BY <1>4, <1>6, <1>7, IdsOfMap DEF v
<1>10. Listed(document) = {<<v[i].id, v[i].piece>> : i \in 1..Len(v)}
    BY <1>4 DEF Listed, Elements, v
<1>11. /\ size \in Nat /\ \A id \in ids : id \in 0..(size - 1)
       /\ ids # {} => size - 1 \in ids /\ size - 1 = Maximum(ids) /\ size = Maximum(ids) + 1
       /\ ids = {} => size = 0
    <2>1. CASE ids = {}
        BY <2>1 DEF size
    <2>2. CASE ids # {}
        <3>1. size = Maximum(ids) + 1 /\ Maximum(ids) \in Nat /\ Maximum(ids) \in ids
            BY <1>9, <2>2 DEF size
        <3>2. size \in Nat /\ size - 1 = Maximum(ids)
            BY <3>1
        <3>3. \A id \in ids : id \in Nat /\ id <= Maximum(ids)
            BY <1>9, <2>2
        <3>4. \A id \in ids : id \in 0..(size - 1)
            BY <3>1, <3>2, <3>3
        <3> QED
            BY <2>2, <3>1, <3>2, <3>4
    <2> QED
        BY <2>1, <2>2
<1>12. CASE /\ Goes(tests, Len(pairs), "eos", 1)
            /\ entries' = made /\ pairs' = <<>>
            /\ UNCHANGED <<decoded, membership, tokens, singleton>>
    <2>1. work + Len(v) <= MaxImportWork /\ size <= MaxVocabulary /\ Cardinality(ids) = Len(v)
        <3>1. tests[1].holds /\ tests[2].holds /\ tests[3].holds
            BY <1>2, <1>12 DEF Goes, Holds
        <3> QED
            BY <1>2, <1>6, <3>1
    <2>2. /\ phase' = "eos" /\ item' = 1 /\ work' = work + Len(v)
          /\ UNCHANGED <<document, eos_ids, reason>>
        BY <1>6, <1>12 DEF Goes
    <2>3. \A i \in 1..Len(v) : held(v[i].id) = v[i] /\ v[i].piece \in Seq(Characters)
        <3> TAKE i \in 1..Len(v)
        <3>1. PICK j \in 1..Len(v) : held(v[i].id) = v[j] /\ v[j].id = v[i].id
            BY <1>8 DEF Elements
        <3>2. i = j
            BY <1>9, <2>1, <3>1
        <3>3. v[i] \in [piece : Seq(Characters), id : Nat \cup {NotAnId}]
            BY <1>5, ElementOfList, Zenon
        <3> QED
            BY <3>1, <3>2, <3>3
    <2>4. \A id \in 0..(size - 1) :
            /\ made[id] \in Entry /\ ~made[id].special
            /\ id \in ids => <<id, made[id].piece>> \in Listed(document) /\ made[id].piece \in Seq(Characters)
            /\ id \notin ids => made[id] = NoEntry
        <3> TAKE id \in 0..(size - 1)
        <3>1. CASE id \in ids
            <4>1. PICK i \in 1..Len(v) : id = v[i].id
                BY <1>7, <3>1
            <4>2. made[id] = [piece |-> v[i].piece, special |-> FALSE]
                BY <1>3, <2>3, <3>1, <4>1
            <4> QED
                BY <1>10, <2>3, <3>1, <4>1, <4>2 DEF Entry
        <3>2. CASE id \notin ids
            <4>1. made[id] = NoEntry
                BY <1>3, <3>2
            <4> QED
                BY <3>2, <4>1 DEF Entry, NoEntry
        <3> QED
            BY <3>1, <3>2
    <2>5. \A i \in 1..Len(v) : v[i].id \in ids /\ v[i].id \in 0..(size - 1) /\ made[v[i].id].piece = v[i].piece
        <3> TAKE i \in 1..Len(v)
        <3>1. v[i].id \in ids /\ v[i].id \in 0..(size - 1)
            BY <1>7, <1>11
        <3> QED
            BY <1>3, <2>3, <3>1
    <2>6. DOMAIN made = 0..(size - 1) /\ made = [id \in 0..(size - 1) |-> made[id]]
        BY <1>3
    <2>7. made \in [0..(size - 1) -> Entry]
        BY <2>4, <2>6
    <2>8. Size' = size
        BY <1>11, <1>12, <2>6, SizeOfRange DEF Size
    <2>9. ImportTyped'
        <3>1. work' \in Nat /\ item' \in Nat \ {0}
            BY <1>4, <1>5, <2>2 DEF ImportTyped
        <3> QED
            BY <1>4, <1>11, <1>12, <2>2, <2>7, <3>1 DEF ImportTyped, Started
    <2>10. ImportBounded'
        <3>1. tokens = <<>>
            BY <1>4 DEF ImportInv, VocabularyFacts
        <3> QED
            BY <1>4, <1>11, <1>12, <2>1, <2>2, <2>8, <3>1 DEF ImportInv, ImportBounded
    <2>11. ReadFacts'
        BY <1>4, <2>2 DEF ImportInv, ReadFacts, Opened
    <2>12. Filled(Listed(document))'
        <3>1. \A id \in DOMAIN made :
                 IF made[id].piece = NotText THEN made[id] = NoEntry ELSE <<id, made[id].piece>> \in Listed(document)
            <4> TAKE id \in DOMAIN made
            <4>1. id \in 0..(size - 1)
                BY <2>6
            <4>2. CASE id \in ids
                BY <2>4, <4>1, <4>2, ImportAssumption
            <4>3. CASE id \notin ids
                BY <2>4, <4>1, <4>3 DEF NoEntry
            <4> QED
                BY <4>2, <4>3
        <3>2. \A p \in Listed(document) :
                 p[1] \in DOMAIN made /\ p[2] \in Seq(Characters) /\ made[p[1]].piece = p[2]
            BY <1>10, <2>3, <2>5, <2>6
        <3>3. DOMAIN made # {} => \E p \in Listed(document) : p[1] = size - 1
            <4>1. DOMAIN made # {} => ids # {}
                BY <1>11, <2>6
            <4>2. \A id \in ids : \E p \in Listed(document) : p[1] = id
                <5> TAKE id \in ids
                <5>1. PICK i \in 1..Len(v) : id = v[i].id
                    BY <1>7
                <5>2. <<v[i].id, v[i].piece>> \in Listed(document)
                    BY <1>10
                <5> QED
                    BY <5>1, <5>2
            <4> QED
                BY <1>11, <4>1, <4>2
        <3> QED
            BY <1>12, <2>2, <2>8, <3>1, <3>2, <3>3 DEF Filled
    <2>13. VocabularyFacts'
        <3>1. tokens = <<>> /\ singleton = {} /\ decoded = 0
            BY <1>4 DEF ImportInv, VocabularyFacts
        <3>2. NotAnId \notin {p[1] : p \in Listed(document)}
            BY <1>6, <1>10
        <3>3. (\A id \in DOMAIN entries : ~entries[id].special)'
            BY <1>12, <2>4, <2>6
        <3> QED
            BY <1>4, <1>9, <1>12, <2>1, <2>2, <2>12, <3>1, <3>2, <3>3 DEF VocabularyFacts, v
    <2>14. AddedFacts' /\ TokenFacts' /\ RefusalFacts'
        BY <1>4, <2>2 DEF ImportInv, AddedFacts, TokenFacts, RefusalFacts, Merging
    <2> QED
        BY <2>9, <2>10, <2>11, <2>13, <2>14 DEF ImportInv
<1>13. CASE RefusesUnless(tests)
    <2>1. PICK i \in 1..3 : /\ ~tests[i].holds /\ FirstFailure(tests) = tests[i].why
                            /\ \A j \in 1..(i - 1) : tests[j].holds
        BY <1>2, <1>13, FailsFirst DEF RefusesUnless
    <2>2. CASE i = 1
        <3>1. FirstFailure(tests) \in Limits
            BY <1>2, <2>1, <2>2
        <3> QED
            BY <1>4, <1>13, <3>1, RefusalPreserves
    <2>3. CASE i = 2 \/ i = 3
        <3> SUFFICES ASSUME Compatible(document, eos_ids) PROVE Cardinality(Ids(document)) > MaxVocabulary
            <4>1. Refusable => ImportInv'
                BY <1>4, <1>13, RefusalPreserves
            <4> QED
                BY <4>1 DEF Refusable
        <3>1. ~(size <= MaxVocabulary)
            BY <1>2, <1>6, <1>9, <2>1, <2>3
        <3>2. /\ ids # {} /\ Maximum(ids) \in ids /\ Maximum(ids) \in Nat
              /\ ~(Maximum(ids) + 1 <= MaxVocabulary)
            BY <1>9, <1>11, <3>1, ImportAssumption
        <3>3. Maximum(ids) \in Ids(document)
            <4>1. \A i_ \in 1..Len(v) : <<v[i_].id, v[i_].piece>> \in Assigned(document)
                BY <1>10 DEF Assigned
            <4>2. \A id \in ids : id \in Ids(document)
                <5> TAKE id \in ids
                <5>1. PICK j \in 1..Len(v) : id = v[j].id
                    BY <1>7
                <5>2. <<v[j].id, v[j].piece>> \in Assigned(document)
                    BY <4>1
                <5> QED
                    BY <5>1, <5>2 DEF Ids
            <4> QED
                BY <3>2, <4>2
        <3>4. /\ Ids(document) = 0..(Cardinality(Ids(document)) - 1)
              /\ Cardinality(Ids(document)) \in Nat
            BY <1>4, CompatibleDocuments
        <3> QED
            BY <3>2, <3>3, <3>4, ImportAssumption
    <2> QED
        BY <2>1, <2>2, <2>3
<1> QED
    BY <1>1, <1>12, <1>13

(* Entries that one more pair is added to, after the last of them.           *)
LEMMA ReadPieceKeeps ==
    ASSUME ImportInv, ReadPiece
    PROVE  ImportInv'
<1> DEFINE v == document.vocabulary
           piece == v[item]
           tests == << Affords(1), Test(piece # NotText, "incompatible"), Affords(1 + PieceBytes(piece)) >>
           made == [id \in 0..(item - 1) |->
                      IF id = item - 1 THEN [piece |-> piece, special |-> FALSE] ELSE entries[id]]
<1>1. \/ /\ Goes(tests, 1 + PieceBytes(piece), phase, item + 1)
         /\ entries' = made
         /\ UNCHANGED <<decoded, pairs, membership, tokens, singleton>>
      \/ RefusesUnless(tests)
    BY DEF ReadPiece
<1>2. /\ Len(tests) = 3
      /\ tests[3].holds => work + (1 + PieceBytes(piece)) <= MaxImportWork
      /\ tests[2].holds <=> piece # NotText
      /\ tests[1].why \in Limits /\ tests[3].why \in Limits
    <2> HIDE DEF piece
    <2> QED
        BY DEF Test, Affords, Limits
<1>3. made = [id \in 0..(item - 1) |->
                IF id = item - 1 THEN [piece |-> piece, special |-> FALSE] ELSE entries[id]]
    OBVIOUS
<1> HIDE DEF tests, v, made, piece
<1>4. /\ phase = "vocabulary" /\ ImportTyped /\ document.model = "list" /\ item \in Nat \ {0}
      /\ item <= Len(v) /\ Len(v) <= MaxVocabulary
      /\ Filled(Vocabulary(item - 1)) /\ DOMAIN entries = 0..(item - 2)
      /\ \A id \in DOMAIN entries : ~entries[id].special
    <2>1. phase = "vocabulary" /\ document.model = "list" /\ item <= Len(v)
        BY DEF ReadPiece, v
    <2>2. /\ Filled(Vocabulary(item - 1)) /\ DOMAIN entries = 0..(item - 2)
          /\ \A id \in DOMAIN entries : ~entries[id].special
        BY <2>1 DEF ImportInv, VocabularyFacts, v
    <2>3. ImportTyped /\ item \in Nat \ {0} /\ Len(v) <= MaxVocabulary
        BY <2>1 DEF ImportInv, ImportTyped, ReadFacts, Opened, v
    <2> QED
        BY <2>1, <2>2, <2>3
<1>5. v \in Seq(Seq(Characters) \cup {NotText}) /\ Len(v) \in Nat /\ item \in 1..Len(v)
    <2>1. v \in Seq(Seq(Characters) \cup {NotText})
        BY <1>4, DocumentTyped DEF v
    <2> QED
        BY <1>4, <2>1
<1>6. piece \in Seq(Characters) \cup {NotText} /\ PieceBytes(piece) \in Nat
    <2>1. piece \in Seq(Characters) \cup {NotText}
        BY <1>5, ElementOfList, Zenon DEF piece
    <2>2. piece # NotText => Len(Flat(piece)) \in Nat
        BY <2>1, TextIsBytes
    <2> QED
        BY <2>1, <2>2 DEF PieceBytes
<1>7. Vocabulary(item) = Vocabulary(item - 1) \cup {<<item - 1, piece>>}
    <2>1. /\ Vocabulary(item) = {<<i - 1, v[i]>> : i \in 1..item}
          /\ Vocabulary(item - 1) = {<<i - 1, v[i]>> : i \in 1..(item - 1)}
        BY <1>4 DEF Vocabulary, v
    <2>2. 1..item = 1..(item - 1) \cup {item}
        BY <1>4
    <2> QED
        BY <2>1, <2>2 DEF piece
<1>8. Vocabulary(item) \subseteq Assigned(document)
    BY <1>4, <1>5, FirstPairs DEF Assigned, v
<1>9. CASE /\ Goes(tests, 1 + PieceBytes(piece), phase, item + 1)
           /\ entries' = made
           /\ UNCHANGED <<decoded, pairs, membership, tokens, singleton>>
    <2>1. work + (1 + PieceBytes(piece)) <= MaxImportWork /\ piece # NotText
        <3>1. tests[2].holds /\ tests[3].holds
            BY <1>2, <1>9 DEF Goes, Holds
        <3> QED
            BY <1>2, <3>1
    <2>2. /\ phase' = phase /\ item' = item + 1 /\ work' = work + (1 + PieceBytes(piece))
          /\ UNCHANGED <<document, eos_ids, reason>>
        BY <1>9 DEF Goes
    <2>3. DOMAIN made = 0..(item - 1) /\ made = [id \in 0..(item - 1) |-> made[id]]
        BY <1>3
    <2>4. \A id \in 0..(item - 1) : \/ id = item - 1 /\ made[id] = [piece |-> piece, special |-> FALSE]
                                    \/ id \in DOMAIN entries /\ made[id] = entries[id]
        BY <1>3, <1>4
    <2>5. entries \in [DOMAIN entries -> Entry]
        BY <1>4, SizeOfEntries
    <2>6. \A id \in 0..(item - 1) : made[id] \in Entry /\ ~made[id].special
        <3> TAKE id \in 0..(item - 1)
        <3>1. CASE made[id] = [piece |-> piece, special |-> FALSE]
            BY <1>6, <3>1 DEF Entry
        <3>2. CASE id \in DOMAIN entries /\ made[id] = entries[id]
            <4>1. entries[id] \in Entry /\ ~entries[id].special
                BY <1>4, <2>5, <3>2
            <4> QED
                BY <3>2, <4>1
        <3> QED
            BY <2>4, <3>1, <3>2
    <2>7. made \in [0..(item - 1) -> Entry]
        BY <2>3, <2>6
    <2>8. Size' = item
        BY <1>4, <1>9, <2>3, SizeOfRange DEF Size
    <2>9. ImportTyped'
        <3>1. work' \in Nat /\ item' \in Nat \ {0}
            BY <1>4, <1>6, <2>2 DEF ImportTyped
        <3> QED
            BY <1>4, <1>9, <2>2, <2>7, <3>1 DEF ImportTyped
    <2>10. ImportBounded'
        <3>1. tokens = <<>>
            BY <1>4 DEF ImportInv, VocabularyFacts
        <3>2. item <= MaxVocabulary
            BY <1>4, <1>5, ImportAssumption
        <3> QED
            BY <1>4, <1>9, <2>1, <2>2, <2>8, <3>1, <3>2 DEF ImportInv, ImportBounded
    <2>11. ReadFacts'
        BY <1>4, <2>2 DEF ImportInv, ReadFacts, Opened
    <2>12. Filled(Vocabulary(item - 1))'
        <3>1. Vocabulary(item - 1)' = Vocabulary(item)
            <4>1. item' - 1 = item /\ document' = document
                BY <1>4, <2>2
            <4> QED
                BY <4>1 DEF Vocabulary
        <3>2. \A id \in DOMAIN made :
                 IF made[id].piece = NotText THEN made[id] = NoEntry ELSE <<id, made[id].piece>> \in Vocabulary(item)
            <4> TAKE id \in DOMAIN made
            <4>1. CASE id = item - 1 /\ made[id] = [piece |-> piece, special |-> FALSE]
                BY <1>7, <2>1, <4>1
            <4>2. CASE id \in DOMAIN entries /\ made[id] = entries[id]
                BY <1>4, <1>7, <4>2 DEF Filled
            <4> QED
                BY <2>3, <2>4, <4>1, <4>2
        <3>3. \A p \in Vocabulary(item) :
                 p[1] \in DOMAIN made /\ p[2] \in Seq(Characters) /\ made[p[1]].piece = p[2]
            <4> TAKE p \in Vocabulary(item)
            <4>1. CASE p = <<item - 1, piece>>
                <5>1. item - 1 \in DOMAIN made /\ item - 1 \notin DOMAIN entries
                    BY <1>4, <2>3
                <5>2. made[item - 1] = [piece |-> piece, special |-> FALSE]
                    BY <2>3, <2>4, <5>1
                <5> QED
                    BY <1>6, <2>1, <4>1, <5>1, <5>2
            <4>2. CASE p \in Vocabulary(item - 1)
                <5>1. /\ p[1] \in DOMAIN entries /\ p[2] \in Seq(Characters)
                      /\ entries[p[1]].piece = p[2]
                    BY <1>4, <4>2 DEF Filled
                <5>2. p[1] \in DOMAIN made /\ p[1] # item - 1
                    BY <1>4, <2>3, <5>1
                <5> QED
                    BY <2>3, <2>4, <5>1, <5>2
            <4> QED
                BY <1>7, <4>1, <4>2
        <3>4. \E p \in Vocabulary(item) : p[1] = item - 1
            <4>1. <<item - 1, piece>>[1] = item - 1
                OBVIOUS
            <4> QED
                BY <1>7, <4>1
        <3>5. Size' - 1 = item - 1 /\ entries' = made
            BY <1>9, <2>8
        <3> QED
            BY <3>1, <3>2, <3>3, <3>4, <3>5 DEF Filled
    <2>13. VocabularyFacts'
        <3>1. tokens = <<>> /\ singleton = {} /\ decoded = 0
            BY <1>4 DEF ImportInv, VocabularyFacts
        <3>2. (\A id \in DOMAIN entries : ~entries[id].special)'
            BY <1>9, <2>3, <2>6
        <3>3. item' - 1 = item /\ item' - 2 = item - 1 /\ item' <= Len(v) + 1
            BY <1>4, <1>5, <2>2
        <3> QED
            BY <1>4, <1>9, <2>2, <2>3, <2>12, <3>1, <3>2, <3>3 DEF VocabularyFacts, Listing, v
    <2>14. AddedFacts' /\ TokenFacts' /\ RefusalFacts'
        BY <1>4, <2>2 DEF ImportInv, AddedFacts, TokenFacts, RefusalFacts, Merging
    <2> QED
        BY <2>9, <2>10, <2>11, <2>13, <2>14 DEF ImportInv
<1>10. CASE RefusesUnless(tests)
    <2>1. PICK i \in 1..3 : /\ ~tests[i].holds /\ FirstFailure(tests) = tests[i].why
                            /\ \A j \in 1..(i - 1) : tests[j].holds
        BY <1>2, <1>10, FailsFirst DEF RefusesUnless
    <2>2. CASE i = 1 \/ i = 3
        <3>1. FirstFailure(tests) \in Limits
            BY <1>2, <2>1, <2>2
        <3> QED
            BY <1>4, <1>10, <3>1, RefusalPreserves
    <2>3. CASE i = 2
        <3>1. <<item - 1, NotText>> \in Assigned(document)
            BY <1>2, <1>7, <1>8, <2>1, <2>3
        <3>2. ~Compatible(document, eos_ids)
            BY <3>1 DEF Compatible
        <3> QED
            BY <1>4, <1>10, <3>2, RefusalPreserves DEF Refusable
    <2> QED
        BY <2>1, <2>2, <2>3
<1> QED
    BY <1>1, <1>9, <1>10

(* The ends of sentence, and the size of the table of which ids they are.    *)
LEMMA EndsAreIds ==
    ASSUME ImportTyped, ReadFacts, phase \in Opened
    PROVE  /\ eos_ids \in Seq(Nat) /\ Elements(eos_ids) \subseteq Nat /\ Len(eos_ids) \in Nat
           /\ Maximum(Elements(eos_ids)) \in Elements(eos_ids)
           /\ Maximum(Elements(eos_ids)) \in Nat
           /\ \A id \in Elements(eos_ids) : id <= Maximum(Elements(eos_ids))
<1>1. eos_ids \in Seq(Nat \cup {NotAnId}) /\ NotAnId \notin Elements(eos_ids) /\ eos_ids # <<>>
    BY DocumentTyped DEF ReadFacts, Opened
<1>2. Len(eos_ids) \in Nat /\ \A i \in 1..Len(eos_ids) : eos_ids[i] \in Nat
    BY <1>1 DEF Elements
<1>3. eos_ids \in Seq(Nat)
    BY <1>1, <1>2
<1>4. Elements(eos_ids) \subseteq Nat
    BY <1>2 DEF Elements
<1> QED
    BY <1>1, <1>2, <1>3, <1>4, LargestOfList

(* A list has a position for each piece.                                     *)
LEMMA ListedByPosition ==
    ASSUME ImportTyped, phase # "none", document.model = "list"
    PROVE  /\ Cardinality(Listed(document)) = Len(document.vocabulary)
           /\ NotAnId \notin {p[1] : p \in Listed(document)}
<1> DEFINE v == document.vocabulary
           d == [i \in 1..Len(v) |-> <<i - 1, v[i]>>]
<1>1. v \in Seq(Seq(Characters) \cup {NotText})
    BY DocumentTyped
<1>2. Listed(document) = {<<i - 1, v[i]>> : i \in 1..Len(v)}
    BY DEF Listed
<1> HIDE DEF v
<1>3. /\ Len(v) \in Nat
      /\ \A i \in 1..Len(v) : i - 1 \in Nat /\ v[i] \in Seq(Characters) \cup {NotText}
    BY <1>1
<1>4. /\ d \in Seq(Nat \X (Seq(Characters) \cup {NotText})) /\ Len(d) = Len(v)
      /\ Elements(d) = Listed(document)
    BY <1>2, <1>3 DEF Elements
<1>5. \A i, j \in 1..Len(d) : d[i] = d[j] => i = j
    <2>1. \A i \in 1..Len(v) : d[i] = <<i - 1, v[i]>>
        OBVIOUS
    <2> HIDE DEF d
    <2> TAKE i, j \in 1..Len(d)
    <2>2. d[i] = d[j] => i - 1 = j - 1
        BY <1>4, <2>1
    <2> QED
        BY <1>3, <1>4, <2>2
<1> HIDE DEF d
<1>6. Cardinality(Elements(d)) = Len(d) <=> \A i, j \in 1..Len(d) : d[i] = d[j] => i = j
    BY <1>4, ElementsOfList
<1>7. NotAnId \notin {p[1] : p \in Listed(document)}
    BY <1>2, <1>3, ImportAssumption
<1> QED
    BY <1>4, <1>5, <1>6, <1>7 DEF v

LEMMA CollectEosKeeps ==
    ASSUME ImportInv, CollectEos
    PROVE  ImportInv'
<1> DEFINE count == Len(eos_ids)
           largest == Maximum(Elements(eos_ids))
           tests == << Test(count <= MaxVocabulary, "incompatible"), Affords(count),
                    Test(largest < MaxVocabulary, "incompatible"), Affords(2 * count),
                    Test(Cardinality(Elements(eos_ids)) = count, "incompatible"),
                    Affords(2 * count + largest + 1) >>
<1>1. \/ /\ Goes(tests, 2 * count + largest + 1, "added", 1)
         /\ membership' = largest + 1
         /\ UNCHANGED <<decoded, pairs, entries, tokens, singleton>>
      \/ RefusesUnless(tests)
    BY DEF CollectEos
<1> HIDE DEF count, largest
<1>2. /\ Len(tests) = 6
      /\ tests[1].holds <=> count <= MaxVocabulary
      /\ tests[3].holds <=> largest < MaxVocabulary
      /\ tests[5].holds <=> Cardinality(Elements(eos_ids)) = count
      /\ tests[6].holds => work + (2 * count + largest + 1) <= MaxImportWork
      /\ tests[2].why \in Limits /\ tests[4].why \in Limits /\ tests[6].why \in Limits
    BY DEF Test, Affords, Limits
<1> HIDE DEF tests
<1>3. /\ phase \in {"vocabulary", "eos"} /\ ImportTyped
      /\ phase = "vocabulary" => document.model = "list" /\ item > Len(document.vocabulary)
    BY DEF CollectEos, ImportInv
<1>4. /\ Filled(Listed(document)) /\ Cardinality(Listed(document)) = Len(document.vocabulary)
      /\ NotAnId \notin {p[1] : p \in Listed(document)}
    <2>1. CASE phase = "eos"
        BY <2>1 DEF ImportInv, VocabularyFacts, Listing
    <2>2. CASE phase = "vocabulary"
        <3>1. /\ document.model = "list" /\ item > Len(document.vocabulary)
              /\ item <= Len(document.vocabulary) + 1
              /\ Filled(Vocabulary(item - 1))
            BY <1>3, <2>2 DEF ImportInv, VocabularyFacts
        <3>2. Len(document.vocabulary) \in Nat
            BY <1>3, <2>2, <3>1, DocumentTyped
        <3>3. item - 1 = Len(document.vocabulary)
            BY <1>3, <3>1, <3>2 DEF ImportTyped
        <3>4. Listed(document) = Vocabulary(Len(document.vocabulary))
            BY <1>3, <2>2, <3>1, <3>2, FirstPairs
        <3> QED
            BY <1>3, <2>2, <3>1, <3>3, <3>4, ListedByPosition
    <2> QED
        BY <1>3, <2>1, <2>2
<1>5. /\ count \in Nat /\ largest \in Nat /\ largest \in Elements(eos_ids)
      /\ tokens = <<>> /\ singleton = {} /\ decoded = 0
      /\ \A id \in DOMAIN entries : ~entries[id].special
    <2>1. phase \in Opened
        BY <1>3 DEF Opened
    <2>2. count \in Nat /\ largest \in Nat /\ largest \in Elements(eos_ids)
        BY <1>3, <2>1, EndsAreIds DEF ImportInv, count, largest
    <2> QED
        BY <1>3, <2>2 DEF ImportInv, VocabularyFacts
<1>6. CASE /\ Goes(tests, 2 * count + largest + 1, "added", 1)
           /\ membership' = largest + 1
           /\ UNCHANGED <<decoded, pairs, entries, tokens, singleton>>
    <2>1. /\ largest < MaxVocabulary /\ Cardinality(Elements(eos_ids)) = count
          /\ work + (2 * count + largest + 1) <= MaxImportWork
        <3>1. tests[3].holds /\ tests[5].holds /\ tests[6].holds
            BY <1>2, <1>6 DEF Goes, Holds
        <3> QED
            BY <1>2, <3>1
    <2>2. /\ phase' = "added" /\ item' = 1 /\ work' = work + (2 * count + largest + 1)
          /\ UNCHANGED <<document, eos_ids, reason>>
        BY <1>6 DEF Goes
    <2>3. /\ work' \in Nat /\ item' \in Nat \ {0} /\ membership' \in Nat
          /\ membership' <= MaxVocabulary
        BY <1>3, <1>5, <1>6, <2>1, <2>2, ImportAssumption DEF ImportTyped
    <2>4. ImportTyped'
        BY <1>3, <1>6, <2>2, <2>3 DEF ImportTyped, Started
    <2>5. ImportBounded'
        BY <1>3, <1>6, <2>1, <2>2, <2>3 DEF ImportInv, ImportBounded, Size
    <2>6. ReadFacts'
        BY <1>3, <2>2 DEF ImportInv, ReadFacts, Opened
    <2>7. VocabularyFacts'
        BY <1>4, <1>5, <1>6, <2>2 DEF VocabularyFacts
    <2>8. AddedFacts'
        <3>1. document.added \in Seq([piece : Seq(Characters) \cup {NotText}, id : Nat \cup {NotAnId},
                                      special : {"yes", "no", "absent"}])
            BY <1>3, DocumentTyped
        <3>2. Len(document.added) \in Nat
            BY <3>1
        <3>3. AddedTo(0)' = {} /\ item' - 1 = 0 /\ item' <= Len(document'.added) + 1
            BY <2>2, <3>2 DEF AddedTo
        <3>4. Filled(Listed(document) \cup AddedTo(0))'
            <4>1. Listed(document)' = Listed(document)
                BY <2>2 DEF Listed
            <4> QED
                BY <1>4, <1>6, <3>3, <4>1 DEF Filled, Size
        <3>5. (\A id \in DOMAIN entries : entries[id].special => id \in Elements(eos_ids))'
            BY <1>5, <1>6
        <3>6. (membership = Maximum(Elements(eos_ids)) + 1 /\ Cardinality(Elements(eos_ids)) = Len(eos_ids))'
            BY <1>6, <2>1, <2>2 DEF count, largest
        <3> QED
            BY <2>2, <3>3, <3>4, <3>5, <3>6 DEF AddedFacts
    <2>9. TokenFacts' /\ RefusalFacts'
        BY <1>3, <2>2 DEF ImportInv, TokenFacts, RefusalFacts
    <2> QED
        BY <2>4, <2>5, <2>6, <2>7, <2>8, <2>9 DEF ImportInv
<1>7. CASE RefusesUnless(tests)
    <2>1. phase # "none"
        BY <1>3
    <2>2. PICK i \in 1..6 : /\ ~tests[i].holds /\ FirstFailure(tests) = tests[i].why
                            /\ \A j \in 1..(i - 1) : tests[j].holds
        BY <1>2, <1>7, FailsFirst DEF RefusesUnless
    <2>3. CASE i = 2 \/ i = 4 \/ i = 6
        <3>1. FirstFailure(tests) \in Limits
            BY <1>2, <2>2, <2>3
        <3> QED
            BY <1>7, <2>1, <3>1, RefusalPreserves
    <2>4. CASE i = 1 \/ i = 3 \/ i = 5
        <3> SUFFICES ASSUME Compatible(document, eos_ids) PROVE Cardinality(Ids(document)) > MaxVocabulary
            <4>1. Refusable => ImportInv'
                BY <1>7, <2>1, RefusalPreserves
            <4> QED
                BY <4>1 DEF Refusable
        <3>1. Elements(eos_ids) \subseteq Ids(document) /\ Cardinality(Elements(eos_ids)) = count
            BY DEF Compatible, count
        <3>2. /\ Ids(document) = 0..(Cardinality(Ids(document)) - 1)
              /\ Cardinality(Ids(document)) \in Nat /\ count <= Cardinality(Ids(document))
            BY <1>3, <2>1, CompatibleDocuments DEF count
        <3>3. ~(count <= MaxVocabulary) \/ ~(largest < MaxVocabulary)
            BY <1>2, <2>2, <2>4, <3>1
        <3>4. largest < Cardinality(Ids(document))
            BY <1>5, <3>1, <3>2
        <3> QED
            BY <1>5, <3>2, <3>3, <3>4, ImportAssumption
    <2> QED
        BY <2>2, <2>3, <2>4
<1> QED
    BY <1>1, <1>6, <1>7

(* One of the added tokens.                                                  *)
LEMMA LargerOfTwo ==
    ASSUME NEW a \in Int, NEW b \in Int
    PROVE  Maximum({a, b}) = IF a <= b THEN b ELSE a
<1>1. CASE a <= b
    <2>1. b \in {a, b} /\ \A m \in {a, b} : m <= b
        BY <1>1
    <2>2. Maximum({a, b}) \in {a, b} /\ b <= Maximum({a, b})
        BY <2>1 DEF Maximum
    <2> QED
        BY <1>1, <2>2
<1>2. CASE ~(a <= b)
    <2>1. a \in {a, b} /\ \A m \in {a, b} : m <= a
        BY <1>2
    <2>2. Maximum({a, b}) \in {a, b} /\ a <= Maximum({a, b})
        BY <2>1 DEF Maximum
    <2> QED
        BY <1>2, <2>2
<1> QED
    BY <1>1, <1>2

(* Once the ends of sentence are collected, their bits are theirs.           *)
LEMMA EndsHaveBits ==
    ASSUME ImportTyped, ReadFacts, phase \in Merging, AddedFacts, NEW id \in Nat
    PROVE  IsEos(id) <=> id \in Elements(eos_ids)
<1>1. /\ \A n \in Elements(eos_ids) : n <= Maximum(Elements(eos_ids))
      /\ Maximum(Elements(eos_ids)) \in Nat /\ membership = Maximum(Elements(eos_ids)) + 1
    BY EndsAreIds DEF AddedFacts, Merging, Opened
<1> QED
    BY <1>1 DEF IsEos

(* An added token joins the pairs that the entries hold.                     *)
LEMMA AddedIsFilled ==
    ASSUME ImportTyped, NEW A, Filled(A), NEW token, token.id \in Nat, token.piece \in Seq(Characters),
           token.special \in {"yes", "no"}, Held(token.id).piece \in {NotText, token.piece}
    PROVE  LET made == WithAdded(token)
               size == IF Size <= token.id THEN token.id + 1 ELSE Size
               B == A \cup {<<token.id, token.piece>>}
           IN  /\ size \in Nat /\ made \in [0..(size - 1) -> Entry]
               /\ \A id \in DOMAIN made :
                    IF made[id].piece = NotText THEN made[id] = NoEntry ELSE <<id, made[id].piece>> \in B
               /\ \A p \in B : p[1] \in DOMAIN made /\ p[2] \in Seq(Characters) /\ made[p[1]].piece = p[2]
               /\ \E p \in B : p[1] = size - 1
               /\ \A id \in DOMAIN made :
                    made[id].special =>
                      \/ id = token.id /\ token.special = "yes"
                      \/ id \in DOMAIN entries /\ entries[id].special
<1> DEFINE made == WithAdded(token)
           size == IF Size <= token.id THEN token.id + 1 ELSE Size
           B == A \cup {<<token.id, token.piece>>}
           id0 == token.id
<1>1. Size \in Nat /\ entries \in [0..(Size - 1) -> Entry] /\ DOMAIN entries = 0..(Size - 1)
    BY SizeOfEntries
<1>2. /\ Maximum({token.id, Cardinality(DOMAIN entries) - 1}) = size - 1
      /\ size \in Nat /\ id0 \in 0..(size - 1) /\ Size <= size
      /\ size - 1 = id0 \/ (size = Size /\ DOMAIN entries # {})
    <2>1. Maximum({token.id, Size - 1}) = IF token.id <= Size - 1 THEN Size - 1 ELSE token.id
        BY <1>1, LargerOfTwo
    <2>2. CASE Size <= token.id
        <3>1. size = token.id + 1 /\ Maximum({token.id, Size - 1}) = token.id
            BY <1>1, <2>1, <2>2
        <3> HIDE DEF size
        <3> QED
            BY <1>1, <2>2, <3>1 DEF Size
    <2>3. CASE ~(Size <= token.id)
        <3>1. 0 \in DOMAIN entries
            BY <1>1, <2>3
        <3>2. size = Size /\ token.id <= Size - 1
            BY <1>1, <2>3
        <3>3. Maximum({token.id, Size - 1}) = Size - 1
            BY <2>1, <3>2
        <3> HIDE DEF size
        <3> QED
            BY <1>1, <3>1, <3>2, <3>3 DEF Size
    <2> QED
        BY <2>2, <2>3
<1>3. made = [id \in 0..(size - 1) |->
                IF id # id0 THEN Held(id)
                ELSE [piece |-> token.piece, special |-> Held(id).special \/ token.special = "yes"]]
    BY <1>2 DEF WithAdded
<1> HIDE DEF made, size
<1>4. \A id : id \in DOMAIN entries => Held(id) = entries[id] /\ entries[id] \in Entry
    BY <1>1 DEF Held
<1>5. \A id : id \notin DOMAIN entries => Held(id) = NoEntry
    BY DEF Held
<1>6. NoEntry \in Entry /\ ~NoEntry.special /\ NoEntry.piece = NotText
    BY DEF NoEntry, Entry
<1>7. \A id : Held(id) \in Entry /\ Held(id).special \in BOOLEAN
    <2> TAKE id
    <2>1. Held(id) \in Entry
        BY <1>4, <1>5, <1>6
    <2> QED
        BY <2>1 DEF Entry
<1>8. made[id0] = [piece |-> token.piece, special |-> Held(id0).special \/ token.special = "yes"]
    BY <1>2, <1>3
<1>9. /\ made[id0] \in Entry /\ made[id0].piece = token.piece
      /\ (made[id0].special => Held(id0).special \/ token.special = "yes")
    BY <1>7, <1>8 DEF Entry
<1>10. \A id \in 0..(size - 1) : id # id0 => made[id] = Held(id)
    BY <1>3
<1>11. DOMAIN made = 0..(size - 1) /\ made = [id \in 0..(size - 1) |-> made[id]]
    BY <1>3
<1>12. \A id \in 0..(size - 1) : made[id] \in Entry
    BY <1>7, <1>9, <1>10
<1>13. made \in [0..(size - 1) -> Entry]
    BY <1>11, <1>12
<1>14. \A id \in DOMAIN made :
          IF made[id].piece = NotText THEN made[id] = NoEntry ELSE <<id, made[id].piece>> \in B
    <2> TAKE id \in DOMAIN made
    <2>1. CASE id = id0
        BY <1>9, <2>1, ImportAssumption
    <2>2. CASE id # id0 /\ id \in DOMAIN entries
        <3>1. made[id] = entries[id]
            BY <1>4, <1>10, <1>11, <2>2
        <3> QED
            BY <2>2, <3>1 DEF Filled
    <2>3. CASE id # id0 /\ id \notin DOMAIN entries
        BY <1>5, <1>6, <1>10, <1>11, <2>3
    <2> QED
        BY <2>1, <2>2, <2>3
<1>15. \A p \in B : p[1] \in DOMAIN made /\ p[2] \in Seq(Characters) /\ made[p[1]].piece = p[2]
    <2> TAKE p \in B
    <2>1. CASE p = <<token.id, token.piece>>
        BY <1>2, <1>9, <1>11, <2>1
    <2>2. CASE p \in A
        <3>1. p[1] \in DOMAIN entries /\ p[2] \in Seq(Characters) /\ entries[p[1]].piece = p[2]
            BY <2>2 DEF Filled
        <3>2. p[1] \in DOMAIN made /\ Held(p[1]) = entries[p[1]]
            BY <1>1, <1>2, <1>4, <1>11, <3>1
        <3>3. CASE p[1] = id0
            BY <1>9, <3>1, <3>2, <3>3, ImportAssumption
        <3>4. CASE p[1] # id0
            BY <1>10, <1>11, <3>1, <3>2, <3>4
        <3> QED
            BY <3>3, <3>4
    <2> QED
        BY <2>1, <2>2
<1>16. \E p \in B : p[1] = size - 1
    <2>1. CASE size - 1 = id0
        <3>1. <<token.id, token.piece>>[1] = size - 1
            BY <2>1
        <3> QED
            BY <3>1
    <2>2. CASE size = Size /\ DOMAIN entries # {}
        BY <2>2 DEF Filled
    <2> QED
        BY <1>2, <2>1, <2>2
<1>17. \A id \in DOMAIN made :
         made[id].special =>
           \/ id = token.id /\ token.special = "yes"
           \/ id \in DOMAIN entries /\ entries[id].special
    <2> TAKE id \in DOMAIN made
    <2>1. Held(id).special => id \in DOMAIN entries /\ entries[id].special
        BY <1>4, <1>5, <1>6
    <2>2. made[id].special => Held(id).special \/ (id = id0 /\ token.special = "yes")
        BY <1>9, <1>10, <1>11
    <2> QED
        BY <2>1, <2>2
<1> HIDE DEF B
<1> QED
    BY <1>2, <1>13, <1>14, <1>15, <1>16, <1>17 DEF made, size, B

LEMMA MergeAddedKeeps ==
    ASSUME ImportInv, MergeAdded
    PROVE  ImportInv'
<1> DEFINE a == document.added
           token == a[item]
           front == IF item = 1 THEN Len(document.added) ELSE 0
           tests == AddedTests(token, front)
           A == Listed(document) \cup AddedTo(item - 1)
           made == WithAdded(token)
           size == IF Size <= token.id THEN token.id + 1 ELSE Size
<1>1. \/ /\ Goes(tests, front + PieceBytes(token.piece), phase, item + 1)
         /\ entries' = made
         /\ UNCHANGED <<decoded, pairs, membership, tokens, singleton>>
      \/ RefusesUnless(tests)
    BY DEF MergeAdded
<1> HIDE DEF token, front
<1>2. /\ Len(tests) = 8
      /\ tests[2].holds <=> token.id # NotAnId
      /\ tests[3].holds <=> token.id < MaxVocabulary
      /\ tests[4].holds <=> token.piece # NotText
      /\ tests[5].holds => work + (front + PieceBytes(token.piece)) <= MaxImportWork
      /\ tests[6].holds <=> token.special # "absent"
      /\ tests[7].holds <=> (token.special = "yes" => IsEos(token.id))
      /\ tests[8].holds <=> Held(token.id).piece \in {NotText, token.piece}
      /\ tests[1].why \in Limits /\ tests[5].why \in Limits
    BY DEF Test, Affords, Limits, AddedTests
<1> HIDE DEF tests, made, size, A, a
<1>3. /\ phase = "added" /\ ImportTyped /\ ReadFacts /\ AddedFacts /\ item \in Nat \ {0}
      /\ item <= Len(a)
    BY DEF MergeAdded, ImportInv, ImportTyped, a
<1>4. a \in Seq([piece : Seq(Characters) \cup {NotText}, id : Nat \cup {NotAnId}, special : {"yes", "no", "absent"}])
    BY <1>3, DocumentTyped DEF a
<1>5. Len(a) \in Nat /\ item \in 1..Len(a)
    BY <1>3, <1>4
<1>6. /\ token.piece \in Seq(Characters) \cup {NotText} /\ token.id \in Nat \cup {NotAnId}
      /\ token.special \in {"yes", "no", "absent"} /\ PieceBytes(token.piece) \in Nat
      /\ front \in Nat
    <2>1. token \in [piece : Seq(Characters) \cup {NotText}, id : Nat \cup {NotAnId}, special : {"yes", "no", "absent"}]
        BY <1>4, <1>5, ElementOfList, Zenon DEF token
    <2>2. token.piece \in Seq(Characters) \cup {NotText} /\ token.id \in Nat \cup {NotAnId}
          /\ token.special \in {"yes", "no", "absent"}
        BY <2>1
    <2>3. token.piece # NotText => Len(Flat(token.piece)) \in Nat
        BY <2>2, TextIsBytes
    <2>4. PieceBytes(token.piece) \in Nat
        BY <2>3 DEF PieceBytes
    <2>5. front \in Nat
        BY <1>5 DEF front, a
    <2> QED
        BY <2>2, <2>4, <2>5
<1>7. Filled(A)
    BY <1>3 DEF AddedFacts, Merging, A
<1>8. AddedTo(item) = AddedTo(item - 1) \cup {<<token.id, token.piece>>}
    <2>1. 1..item = 1..(item - 1) \cup {item}
        BY <1>3
    <2> QED
        BY <2>1 DEF AddedTo, token, a
<1>9. A \subseteq Assigned(document) /\ <<token.id, token.piece>> \in Assigned(document)
    <2>1. item - 1 \in 0..Len(a) /\ item \in 0..Len(a)
        BY <1>5
    <2>2. /\ AddedTo(item) \subseteq AddedTo(Len(a))
          /\ Assigned(document) = Listed(document) \cup AddedTo(Len(a))
        BY <1>3, <2>1, FirstAdded DEF a
    <2> QED
        BY <1>8, <2>2 DEF A
<1>10. CASE /\ Goes(tests, front + PieceBytes(token.piece), phase, item + 1)
            /\ entries' = made
            /\ UNCHANGED <<decoded, pairs, membership, tokens, singleton>>
    <2>1. /\ token.id \in Nat /\ token.id < MaxVocabulary /\ token.piece \in Seq(Characters)
          /\ work + (front + PieceBytes(token.piece)) <= MaxImportWork
          /\ token.special \in {"yes", "no"} /\ (token.special = "yes" => IsEos(token.id))
          /\ Held(token.id).piece \in {NotText, token.piece}
        <3>1. /\ tests[2].holds /\ tests[3].holds /\ tests[4].holds /\ tests[5].holds
              /\ tests[6].holds /\ tests[7].holds /\ tests[8].holds
            BY <1>2, <1>10 DEF Goes, Holds
        <3> QED
            BY <1>2, <1>6, <3>1
    <2>2. /\ phase' = phase /\ item' = item + 1
          /\ work' = work + (front + PieceBytes(token.piece))
          /\ UNCHANGED <<document, eos_ids, reason>>
        BY <1>10 DEF Goes
    <2>3. /\ size \in Nat /\ made \in [0..(size - 1) -> Entry]
          /\ \A id \in DOMAIN made :
               IF made[id].piece = NotText THEN made[id] = NoEntry ELSE <<id, made[id].piece>> \in A \cup {<<token.id, token.piece>>}
          /\ \A p \in A \cup {<<token.id, token.piece>>} :
               p[1] \in DOMAIN made /\ p[2] \in Seq(Characters) /\ made[p[1]].piece = p[2]
          /\ \E p \in A \cup {<<token.id, token.piece>>} : p[1] = size - 1
          /\ \A id \in DOMAIN made :
               made[id].special =>
                 \/ id = token.id /\ token.special = "yes"
                 \/ id \in DOMAIN entries /\ entries[id].special
        BY <1>3, <1>7, <2>1, AddedIsFilled DEF made, size
    <2>4. size <= MaxVocabulary
        <3>1. Size \in Nat /\ Size <= MaxVocabulary
            BY <1>3, SizeOfEntries DEF ImportInv, ImportBounded
        <3> QED
            BY <2>1, <3>1, ImportAssumption DEF size
    <2>5. Size' = size /\ DOMAIN made = 0..(size - 1)
        <3>1. DOMAIN made = 0..(size - 1)
            BY <2>3
        <3> QED
            BY <1>10, <2>3, <3>1, SizeOfRange DEF Size
    <2>6. ImportTyped'
        <3>1. work' \in Nat /\ item' \in Nat \ {0}
            BY <1>3, <1>6, <2>2 DEF ImportTyped
        <3> QED
            BY <1>3, <1>10, <2>2, <2>3, <3>1 DEF ImportTyped
    <2>7. tokens = <<>> /\ singleton = {} /\ decoded = 0
        BY <1>3 DEF ImportInv, VocabularyFacts
    <2>8. ImportBounded'
        BY <1>3, <1>10, <2>1, <2>2, <2>3, <2>4, <2>5, <2>7 DEF ImportInv, ImportBounded
    <2>9. ReadFacts'
        BY <1>3, <2>2 DEF ReadFacts, Opened
    <2>10. VocabularyFacts'
        <3>1. /\ Cardinality(Listed(document)) = Len(document.vocabulary)
              /\ NotAnId \notin {p[1] : p \in Listed(document)}
            BY <1>3 DEF ImportInv, VocabularyFacts, Listing
        <3> QED
            BY <1>3, <1>10, <2>2, <2>7, <3>1 DEF VocabularyFacts
    <2>11. AddedFacts'
        <3>1. item' - 1 = item /\ item' <= Len(a) + 1
            BY <1>5, <2>2
        <3>2. (Listed(document) \cup AddedTo(item - 1))' = A \cup {<<token.id, token.piece>>}
            <4>1. AddedTo(item - 1)' = AddedTo(item) /\ Listed(document)' = Listed(document)
                BY <2>2, <3>1 DEF AddedTo, Listed
            <4> QED
                BY <1>8, <4>1 DEF A
        <3>3. Filled(Listed(document) \cup AddedTo(item - 1))'
            BY <1>10, <2>3, <2>5, <3>2 DEF Filled
        <3>4. (\A id \in DOMAIN entries : entries[id].special => id \in Elements(eos_ids))'
            <4>1. \A id \in DOMAIN entries : entries[id].special => id \in Elements(eos_ids)
                BY <1>3 DEF AddedFacts, Merging
            <4> QED
                BY <1>10, <2>1, <2>2, <2>3, <4>1 DEF IsEos
        <3>5. \A i \in 1..item :
                /\ a[i].id \in Nat /\ a[i].piece # NotText /\ a[i].special # "absent"
                /\ a[i].special = "yes" => a[i].id \in Elements(eos_ids)
            <4> TAKE i \in 1..item
            <4>1. CASE i = item
                BY <1>6, <2>1, <4>1, ImportAssumption DEF token, IsEos
            <4>2. CASE i # item
                <5>1. i \in 1..(item - 1)
                    BY <1>3, <4>2
                <5> QED
                    BY <1>3, <5>1 DEF AddedFacts, Merging, a
            <4> QED
                BY <4>1, <4>2
        <3>6. /\ membership = Maximum(Elements(eos_ids)) + 1
              /\ Cardinality(Elements(eos_ids)) = Len(eos_ids)
            BY <1>3 DEF AddedFacts, Merging
        <3> QED
            BY <1>3, <1>10, <2>2, <3>1, <3>3, <3>4, <3>5, <3>6 DEF AddedFacts, a
    <2>12. TokenFacts' /\ RefusalFacts'
        BY <1>3, <2>2 DEF ImportInv, TokenFacts, RefusalFacts
    <2> QED
        BY <2>6, <2>8, <2>9, <2>10, <2>11, <2>12 DEF ImportInv
<1>11. CASE RefusesUnless(tests)
    <2>1. PICK i \in 1..8 : /\ ~tests[i].holds /\ FirstFailure(tests) = tests[i].why
                            /\ \A j \in 1..(i - 1) : tests[j].holds
        <3>1. Len(tests) = 8 /\ ~Holds(tests)
            BY <1>2, <1>11 DEF RefusesUnless
        <3> QED
            BY <3>1, FailsFirst
    <2>2. CASE i = 1 \/ i = 5
        <3>1. FirstFailure(tests) \in Limits
            BY <1>2, <2>1, <2>2
        <3> QED
            BY <1>3, <1>11, <3>1, RefusalPreserves
    <2>3. CASE i \in {2, 3, 4, 6, 7, 8}
        <3> SUFFICES ASSUME Compatible(document, eos_ids) PROVE Cardinality(Ids(document)) > MaxVocabulary
            <4>1. Refusable => ImportInv'
                BY <1>3, <1>11, RefusalPreserves
            <4> QED
                BY <4>1 DEF Refusable
        <3>1. token.id \in Ids(document) /\ token.id # NotAnId
            <4>1. token.id \in Ids(document)
                BY <1>9 DEF Ids
            <4> QED
                BY <4>1 DEF Compatible
        <3>2. token.piece # NotText
            BY <1>9 DEF Compatible
        <3>3. /\ token.special # "absent"
              /\ (token.special = "yes" => token.id \in Elements(eos_ids))
            <4>1. token \in Elements(document.added)
                BY <1>5 DEF token, a, Elements
            <4> QED
                BY <4>1 DEF Compatible
        <3>4. token.special = "yes" => IsEos(token.id)
            BY <1>3, <1>6, <3>1, <3>3, EndsHaveBits DEF Merging
        <3>5. Held(token.id).piece \in {NotText, token.piece}
            <4>1. CASE token.id \in DOMAIN entries /\ entries[token.id].piece # NotText
                <5>1. <<token.id, entries[token.id].piece>> \in Assigned(document)
                    BY <1>7, <1>9, <4>1 DEF Filled
                <5>2. <<token.id, entries[token.id].piece>> = <<token.id, token.piece>>
                    <6>1. \A p, q \in Assigned(document) : p[1] = q[1] => p = q
                        BY <1>3, CompatibleDocuments
                    <6>2. <<token.id, entries[token.id].piece>>[1] = <<token.id, token.piece>>[1]
                        OBVIOUS
                    <6> QED
                        BY <1>9, <5>1, <6>1, <6>2
                <5> QED
                    BY <4>1, <5>2 DEF Held
            <4>2. CASE ~(token.id \in DOMAIN entries /\ entries[token.id].piece # NotText)
                BY <4>2 DEF Held, NoEntry
            <4> QED
                BY <4>1, <4>2
        <3>6. ~(token.id < MaxVocabulary)
            BY <1>2, <2>1, <2>3, <3>1, <3>2, <3>3, <3>4, <3>5
        <3>7. /\ Ids(document) = 0..(Cardinality(Ids(document)) - 1)
              /\ Cardinality(Ids(document)) \in Nat
            BY <1>3, CompatibleDocuments
        <3> QED
            BY <1>6, <3>1, <3>6, <3>7, ImportAssumption
    <2> QED
        BY <2>1, <2>2, <2>3
<1> QED
    BY <1>1, <1>10, <1>11

(* When all is merged the entries hold just what the document says.          *)
LEMMA AllIsFilled ==
    ASSUME ImportTyped, AddedFacts, phase \in Merging, phase = "added" => item > Len(document.added)
    PROVE  Filled(Assigned(document))
<1>1. Len(document.added) \in Nat
    BY DocumentTyped DEF Merging
<1>2. Assigned(document) = Listed(document) \cup AddedTo(Len(document.added))
    BY <1>1, FirstAdded DEF Merging
<1>3. CASE phase = "added"
    <2>1. item - 1 = Len(document.added)
        BY <1>1, <1>3 DEF AddedFacts, ImportTyped, Merging
    <2> QED
        BY <1>2, <1>3, <2>1 DEF AddedFacts, Merging
<1>4. CASE phase # "added"
    BY <1>2, <1>4 DEF AddedFacts
<1> QED
    BY <1>3, <1>4

(* The ends of sentence are ids of the vocabulary.                           *)
LEMMA CheckRangeKeeps ==
    ASSUME ImportInv, CheckRange
    PROVE  ImportInv'
<1> DEFINE size == Cardinality(DOMAIN entries)
           inside == {id \in Elements(eos_ids) : id < size}
           outside == Elements(eos_ids) \ inside
           looked == Cardinality(inside) + (IF outside = {} THEN 0 ELSE 1)
           tests == << Test(size \in 1..MaxVocabulary, "incompatible"), Affords(looked),
                       Test(outside = {}, "incompatible") >>
<1>1. \/ /\ Goes(tests, looked, "tokens", 1)
         /\ UNCHANGED <<decoded, pairs, entries, membership, tokens, singleton>>
      \/ RefusesUnless(tests)
    BY DEF CheckRange
<1>2. outside = {} <=> \A id \in Elements(eos_ids) : id < size
    OBVIOUS
<1>3. size = Size /\ inside \subseteq Elements(eos_ids)
    BY DEF Size
<1>4. looked = Cardinality(inside) + (IF outside = {} THEN 0 ELSE 1)
    OBVIOUS
<1> HIDE DEF inside, outside, size, looked
<1>5. /\ Len(tests) = 3
      /\ tests[1].holds <=> size \in 1..MaxVocabulary
      /\ tests[2].holds => work + looked <= MaxImportWork
      /\ tests[3].holds <=> outside = {}
      /\ tests[2].why \in Limits
    BY DEF Test, Affords, Limits
<1> HIDE DEF tests
<1>6. /\ phase = "added" /\ ImportTyped /\ ReadFacts /\ AddedFacts
      /\ item > Len(document.added)
    BY DEF CheckRange, ImportInv
<1>7. /\ Size \in Nat /\ Size <= MaxVocabulary /\ DOMAIN entries = 0..(Size - 1)
      /\ tokens = <<>> /\ singleton = {} /\ decoded = 0
      /\ Elements(eos_ids) \subseteq Nat /\ eos_ids \in Seq(Nat)
      /\ Filled(Assigned(document))
    <2>1. Size \in Nat /\ Size <= MaxVocabulary /\ DOMAIN entries = 0..(Size - 1)
        BY <1>6, SizeOfEntries DEF ImportInv, ImportBounded
    <2>2. tokens = <<>> /\ singleton = {} /\ decoded = 0
        BY <1>6 DEF ImportInv, VocabularyFacts
    <2>3. Elements(eos_ids) \subseteq Nat /\ eos_ids \in Seq(Nat)
        BY <1>6, EndsAreIds DEF Opened
    <2>4. Filled(Assigned(document))
        BY <1>6, AllIsFilled DEF Merging
    <2> QED
        BY <2>1, <2>2, <2>3, <2>4
<1>8. looked \in Nat
    <2>1. IsFiniteSet(Elements(eos_ids))
        BY <1>7, ElementsOfList
    <2>2. Cardinality(inside) \in Nat
        BY <1>3, <2>1, FS_Subset, FS_CardinalityType
    <2> QED
        BY <1>4, <2>2
<1>9. CASE /\ Goes(tests, looked, "tokens", 1)
           /\ UNCHANGED <<decoded, pairs, entries, membership, tokens, singleton>>
    <2>1. /\ Size \in 1..MaxVocabulary /\ outside = {} /\ work + looked <= MaxImportWork
        <3>1. tests[1].holds /\ tests[2].holds /\ tests[3].holds
            BY <1>5, <1>9 DEF Goes, Holds
        <3> QED
            BY <1>5, <1>3, <3>1
    <2>2. /\ phase' = "tokens" /\ item' = 1 /\ work' = work + looked
          /\ UNCHANGED <<document, eos_ids, reason>>
        BY <1>9 DEF Goes
    <2>3. work' \in Nat /\ item' \in Nat \ {0}
        BY <1>6, <1>8, <2>2 DEF ImportTyped
    <2>4. ImportTyped'
        BY <1>6, <1>9, <2>2, <2>3 DEF ImportTyped, Started
    <2>5. Size' = Size /\ item' = 1
        BY <1>9, <2>2 DEF Size
    <2>6. ImportBounded'
        BY <1>6, <1>9, <2>1, <2>2, <2>5 DEF ImportInv, ImportBounded
    <2>7. ReadFacts'
        BY <1>6, <2>2 DEF ReadFacts, Opened
    <2>8. VocabularyFacts'
        <3>1. /\ Cardinality(Listed(document)) = Len(document.vocabulary)
              /\ NotAnId \notin {p[1] : p \in Listed(document)}
            BY <1>6 DEF ImportInv, VocabularyFacts, Listing
        <3> QED
            BY <2>2, <3>1 DEF VocabularyFacts
    <2>9. AddedFacts'
        <3>1. Len(document.added) \in Nat /\ item - 1 = Len(document.added)
            <4>1. Len(document.added) \in Nat
                BY <1>6, DocumentTyped
            <4> QED
                BY <1>6, <4>1 DEF AddedFacts, ImportTyped, Merging
        <3> DEFINE Merged(n) ==
                /\ \A i \in 1..n :
                     LET token == document.added[i]
                     IN /\ token.id \in Nat /\ token.piece # NotText /\ token.special # "absent"
                        /\ token.special = "yes" => token.id \in Elements(eos_ids)
                /\ Filled(Listed(document) \cup AddedTo(n))
        <3>2. /\ membership = Maximum(Elements(eos_ids)) + 1
              /\ Cardinality(Elements(eos_ids)) = Len(eos_ids)
              /\ \A id \in DOMAIN entries : entries[id].special => id \in Elements(eos_ids)
              /\ Merged(item - 1)
            BY <1>6 DEF AddedFacts, Merging
        <3>3. Merged(Len(document.added))
            BY <3>1, <3>2
        <3>4. Filled(Listed(document) \cup AddedTo(Len(document.added)))'
            <4>1. /\ Listed(document)' = Listed(document)
                  /\ AddedTo(Len(document.added))' = AddedTo(Len(document.added))
                BY <2>2 DEF Listed, AddedTo
            <4> QED
                BY <1>9, <2>2, <2>5, <3>3, <4>1 DEF Filled
        <3> QED
            BY <1>9, <2>2, <3>2, <3>3, <3>4 DEF AddedFacts
    <2>10. TokenFacts'
        <3>1. (DOMAIN entries # {})' /\ (Elements(eos_ids) \subseteq DOMAIN entries)'
            <4>1. 0 \in DOMAIN entries
                BY <1>7, <2>1
            <4>2. Elements(eos_ids) \subseteq DOMAIN entries
                <5>1. \A id \in Elements(eos_ids) : id < Size /\ id \in Nat
                    BY <1>7, <1>2, <1>3, <2>1
                <5> QED
                    BY <1>7, <5>1
            <4> QED
                BY <1>9, <2>2, <4>1, <4>2
        <3>2. /\ item' \in 1..(Size' + 1) /\ Len(tokens') = item' - 1 /\ 1..(item' - 1) = {}
              /\ singleton' = {}
            BY <1>7, <1>9, <2>5
        <3> QED
            BY <2>2, <3>1, <3>2 DEF TokenFacts
    <2>11. RefusalFacts'
        BY <2>2 DEF RefusalFacts
    <2> QED
        BY <2>4, <2>6, <2>7, <2>8, <2>9, <2>10, <2>11 DEF ImportInv
<1>10. CASE RefusesUnless(tests)
    <2>1. PICK i \in 1..3 : /\ ~tests[i].holds /\ FirstFailure(tests) = tests[i].why
                            /\ \A j \in 1..(i - 1) : tests[j].holds
        <3>1. Len(tests) = 3 /\ ~Holds(tests)
            BY <1>5, <1>10 DEF RefusesUnless
        <3> QED
            BY <3>1, FailsFirst
    <2>2. CASE i = 2
        <3>1. FirstFailure(tests) \in Limits
            BY <1>5, <2>1, <2>2
        <3> QED
            BY <1>6, <1>10, <3>1, RefusalPreserves
    <2>3. CASE i = 1 \/ i = 3
        <3> SUFFICES ASSUME Compatible(document, eos_ids) PROVE FALSE
            <4>1. Refusable => ImportInv'
                BY <1>6, <1>10, RefusalPreserves
            <4> QED
                BY <4>1 DEF Refusable
        <3>1. \A id \in Ids(document) : id \in DOMAIN entries
            BY <1>7 DEF Filled, Ids
        <3>2. Ids(document) # {} /\ Elements(eos_ids) \subseteq Ids(document)
            BY DEF Compatible
        <3>3. Size \in 1..MaxVocabulary
            <4>1. DOMAIN entries # {}
                BY <3>1, <3>2
            <4>2. Size # 0
                BY <1>7, <4>1
            <4> QED
                BY <1>7, <4>2, ImportAssumption
        <3>4. outside = {}
            BY <1>7, <1>2, <1>3, <3>1, <3>2
        <3> QED
            BY <1>5, <1>3, <2>1, <2>3, <3>3, <3>4
    <2> QED
        BY <2>1, <2>2, <2>3
<1> QED
    BY <1>1, <1>9, <1>10

(* The piece of an id; a document that can be imported leaves no id without. *)
LEMMA PieceOfEntry ==
    ASSUME Filled(Assigned(document)), NEW id \in DOMAIN entries, entries[id].piece # NotText
    PROVE  PieceOf(document, id) = entries[id].piece /\ id \in Ids(document)
<1> DEFINE chosen == CHOOSE pair \in Assigned(document) : pair[1] = id
<1>1. <<id, entries[id].piece>> \in Assigned(document)
    BY DEF Filled
<1>2. \E pair \in Assigned(document) : pair[1] = id
    BY <1>1
<1>3. chosen \in Assigned(document) /\ chosen[1] = id
    BY <1>2, Zenon
<1>4. PieceOf(document, id) = chosen[2]
    BY DEF PieceOf
<1>5. id \in Ids(document)
    BY <1>2 DEF Ids
<1> HIDE DEF chosen
<1>6. chosen[2] = entries[id].piece
    BY <1>3 DEF Filled
<1> QED
    BY <1>4, <1>5, <1>6

LEMMA CompatibleHasNoGap ==
    ASSUME ImportTyped, phase # "none", Filled(Assigned(document)), Compatible(document, eos_ids),
           NEW id \in DOMAIN entries
    PROVE  entries[id] # NoEntry
<1>1. Size \in Nat /\ DOMAIN entries = 0..(Size - 1)
    BY SizeOfEntries
<1>2. Ids(document) = 0..(Cardinality(Ids(document)) - 1) /\ Cardinality(Ids(document)) \in Nat
      /\ Ids(document) = {p[1] : p \in Assigned(document)}
    BY CompatibleDocuments
<1>3. Size - 1 \in Ids(document)
    <2>1. \E p \in Assigned(document) : p[1] = Size - 1
        BY DEF Filled
    <2> QED
        BY <1>2, <2>1
<1>4. id \in Ids(document)
    <2>1. PICK n \in Nat : Ids(document) = 0..(n - 1)
        BY <1>2
    <2>2. Size - 1 \in 0..(n - 1) /\ id \in 0..(Size - 1)
        BY <1>1, <1>3, <2>1
    <2>3. id \in 0..(n - 1)
        BY <1>1, <2>2
    <2> QED
        BY <2>1, <2>3
<1>5. PICK p \in Assigned(document) : p[1] = id
    BY <1>2, <1>4
<1>6. entries[id].piece \in Seq(Characters)
    BY <1>5 DEF Filled
<1> QED
    BY <1>6, ImportAssumption DEF NoEntry

(* A token that is emitted is what its entry says.                           *)
LEMMA TokensFollowEntries ==
    ASSUME ImportInv, phase = "tokens", NEW token,
           token \in Seq(Bytes) \cup {Eos},
           item - 1 \in DOMAIN entries, entries[item - 1] # NoEntry,
           token = IF item - 1 \in Elements(eos_ids) THEN Eos ELSE Decoded(entries[item - 1].piece),
           item - 1 \notin Elements(eos_ids) => token # <<>> /\ token \in Seq(Bytes),
           phase' = phase, item' = item + 1, tokens' = Append(tokens, token),
           singleton' = IF item - 1 \notin Elements(eos_ids) /\ Len(token) = 1
                        THEN singleton \cup {token[1]} ELSE singleton,
           UNCHANGED <<document, eos_ids, entries, pairs, membership, reason>>,
           work' \in Nat, work' <= MaxImportWork, decoded' \in Nat, decoded' <= MaxDecoded
    PROVE  ImportInv'
<1>1. /\ ImportTyped /\ Size \in Nat /\ DOMAIN entries = 0..(Size - 1) /\ item \in 1..Size
      /\ Size' = Size
      /\ item' \in Nat \ {0}
    <2>1. ImportTyped /\ Size \in Nat /\ DOMAIN entries = 0..(Size - 1) /\ Size' = Size
        BY SizeOfEntries DEF ImportInv, Size
    <2>2. item \in 1..Size
        BY <2>1 DEF ImportTyped
    <2> QED
        BY <2>1, <2>2
<1>2. tokens \in Seq(Seq(Bytes) \cup {Eos}) /\ Len(tokens) = item - 1
    BY DEF ImportInv, ImportTyped, TokenFacts
<1>3. /\ tokens' \in Seq(Seq(Bytes) \cup {Eos}) /\ Len(tokens') = item
      /\ tokens'[item] = token /\ \A i \in 1..(item - 1) : tokens'[i] = tokens[i]
    BY <1>1, <1>2
<1>4. singleton' \subseteq Bytes
    <2>1. item - 1 \notin Elements(eos_ids) /\ Len(token) = 1 => token[1] \in Bytes
        OBVIOUS
    <2> QED
        BY <1>1, <2>1 DEF ImportTyped
<1>5. ImportTyped'
    BY <1>1, <1>3, <1>4 DEF ImportTyped
<1>6. ImportBounded'
    BY <1>1, <1>3 DEF ImportInv, ImportBounded
<1>7. ReadFacts' /\ VocabularyFacts' /\ RefusalFacts'
    <2>1. ReadFacts'
        BY DEF ImportInv, ReadFacts, Opened
    <2>2. VocabularyFacts'
        <3>1. /\ Cardinality(Listed(document)) = Len(document.vocabulary)
              /\ NotAnId \notin {p[1] : p \in Listed(document)}
            BY DEF ImportInv, VocabularyFacts, Listing
        <3> QED
            BY <3>1 DEF VocabularyFacts
    <2> QED
        BY <2>1, <2>2 DEF RefusalFacts
<1>8. AddedFacts'
    <2>1. (Listed(document) \cup AddedTo(Len(document.added)))' = Listed(document) \cup AddedTo(Len(document.added))
        BY DEF Listed, AddedTo
    <2>2. Filled(Listed(document) \cup AddedTo(Len(document.added)))'
        BY <2>1, <1>1 DEF ImportInv, AddedFacts, Merging, Filled
    <2> QED
        BY <2>2 DEF ImportInv, AddedFacts, Merging
<1>9. TokenFacts'
    <2>1. item' - 1 = item /\ item' \in 1..(Size' + 1)
        BY <1>1
    <2>2. \A i \in 1..item :
            /\ entries[i - 1] # NoEntry
            /\ tokens'[i] = IF i - 1 \in Elements(eos_ids) THEN Eos ELSE Decoded(entries[i - 1].piece)
            /\ i - 1 \notin Elements(eos_ids) =>
                 tokens'[i] # <<>> /\ (Len(tokens'[i]) = 1 => tokens'[i][1] \in singleton')
        <3> TAKE i \in 1..item
        <3>1. CASE i = item
            BY <1>3, <3>1
        <3>2. CASE i # item
            <4>1. i \in 1..(item - 1) /\ singleton \subseteq singleton'
                BY <1>1, <3>2
            <4> QED
                BY <1>3, <4>1 DEF ImportInv, TokenFacts
        <3> QED
            BY <3>1, <3>2
    <2>3. \A b \in singleton' : \E i \in 1..item : i - 1 \notin Elements(eos_ids) /\ tokens'[i] = <<b>>
        <3> TAKE b \in singleton'
        <3>1. CASE b \in singleton
            <4>1. PICK i \in 1..(item - 1) : i - 1 \notin Elements(eos_ids) /\ tokens[i] = <<b>>
                BY <3>1 DEF ImportInv, TokenFacts
            <4>2. i \in 1..item
                BY <1>1
            <4> QED
                BY <1>3, <4>1, <4>2
        <3>2. CASE b \notin singleton
            <4>1. item - 1 \notin Elements(eos_ids) /\ Len(token) = 1 /\ b = token[1]
                BY <3>2
            <4>2. token = <<b>>
                BY <4>1
            <4>3. item \in 1..item
                BY <1>1
            <4> QED
                BY <1>3, <4>1, <4>2, <4>3
        <3> QED
            BY <3>1, <3>2
    <2>4. DOMAIN entries # {} /\ Elements(eos_ids) \subseteq DOMAIN entries
        BY DEF ImportInv, TokenFacts
    <2> QED
        BY <1>3, <2>1, <2>2, <2>3, <2>4 DEF TokenFacts
<1> QED
    BY <1>5, <1>6, <1>7, <1>8, <1>9 DEF ImportInv

(* One token: the bytes of its piece, or the mark of an end of sentence.     *)
LEMMA EmitTokenKeeps ==
    ASSUME ImportInv, EmitToken
    PROVE  ImportInv'
<1> DEFINE id == item - 1
           held == entries[id]
           bytes == IF held = NoEntry THEN <<>> ELSE Decoded(held.piece)
           listed == << Affords(1), Test(held # NoEntry, "incompatible"),
                        Test(held.special => IsEos(id), "incompatible") >>
           ordinary == << Affords(1 + Len(held.piece)),
                       Test(decoded + Len(bytes) <= MaxDecoded, "too_much_output"),
                       Affords(1 + Len(held.piece) + Len(bytes)),
                       Test(bytes # <<>>, "empty_token") >>
           tests == IF IsEos(id) THEN listed ELSE listed \o ordinary
<1>1. \/ /\ IsEos(id)
         /\ Goes(tests, 1, phase, item + 1)
         /\ tokens' = Append(tokens, Eos)
         /\ UNCHANGED <<decoded, pairs, entries, membership, singleton>>
      \/ /\ ~IsEos(id)
         /\ Goes(tests, 1 + Len(held.piece) + Len(bytes), phase, item + 1)
         /\ tokens' = Append(tokens, bytes)
         /\ decoded' = decoded + Len(bytes)
         /\ singleton' = IF Len(bytes) = 1 THEN singleton \cup {bytes[1]} ELSE singleton
         /\ UNCHANGED <<pairs, entries, membership>>
      \/ RefusesUnless(tests)
    BY DEF EmitToken
<1>2. held # NoEntry => bytes = Decoded(held.piece)
    OBVIOUS
<1>3. held = NoEntry => bytes = <<>>
    OBVIOUS
<1> HIDE DEF held, bytes
<1>4. /\ Len(listed) = 3
      /\ listed[1].holds => work + 1 <= MaxImportWork
      /\ listed[2].holds <=> held # NoEntry
      /\ listed[3].holds <=> (held.special => IsEos(id))
      /\ listed[1].why \in Limits
    BY DEF Test, Affords, Limits
<1>5. /\ Len(ordinary) = 4
      /\ ordinary[2].holds => decoded + Len(bytes) <= MaxDecoded
      /\ ordinary[3].holds => work + (1 + Len(held.piece) + Len(bytes)) <= MaxImportWork
      /\ ordinary[4].holds <=> bytes # <<>>
      /\ ordinary[1].why \in Limits /\ ordinary[2].why \in Limits /\ ordinary[3].why \in Limits
    BY DEF Test, Affords, Limits
<1>6. ~IsEos(id) => /\ Len(tests) = 7 /\ tests[1] = listed[1] /\ tests[2] = listed[2] /\ tests[3] = listed[3]
                    /\ tests[4] = ordinary[1] /\ tests[5] = ordinary[2] /\ tests[6] = ordinary[3]
                    /\ tests[7] = ordinary[4]
    BY DEF Test, Affords
<1>7. IsEos(id) => tests = listed
    OBVIOUS
<1> HIDE DEF listed, ordinary, tests
<1>8. /\ phase = "tokens" /\ id \in DOMAIN entries /\ ImportTyped /\ ReadFacts /\ AddedFacts
      /\ item \in Nat \ {0} /\ id \in Nat
    <2>1. phase = "tokens" /\ id \in DOMAIN entries /\ ImportTyped /\ ReadFacts /\ AddedFacts
        BY DEF EmitToken, ImportInv
    <2>2. item \in Nat \ {0}
        BY <2>1 DEF ImportTyped
    <2> QED
        BY <2>1, <2>2
<1>9. IsEos(id) <=> id \in Elements(eos_ids)
    BY <1>8, EndsHaveBits DEF Merging
<1>10. held \in Entry
    BY <1>8, SizeOfEntries DEF held
<1>11. Filled(Assigned(document)) /\ (held.special => id \in Elements(eos_ids))
    <2>1. Filled(Assigned(document))
        BY <1>8, AllIsFilled DEF Merging
    <2>2. held.special => id \in Elements(eos_ids)
        BY <1>8 DEF AddedFacts, Merging, held
    <2> QED
        BY <2>1, <2>2
<1>12. held # NoEntry => held.piece \in Seq(Characters) /\ held.piece # NotText /\ bytes \in Seq(Bytes)
    <2> SUFFICES ASSUME held # NoEntry PROVE held.piece \in Seq(Characters) /\ held.piece # NotText /\ bytes \in Seq(Bytes)
        OBVIOUS
    <2>1. held.piece # NotText
        BY <1>8, <1>11 DEF Filled, held
    <2>2. held.piece \in Seq(Characters)
        BY <1>10, <2>1 DEF Entry
    <2> QED
        BY <1>2, <2>1, <2>2, TextIsBytes
<1>13. CASE /\ IsEos(id)
            /\ Goes(tests, 1, phase, item + 1)
            /\ tokens' = Append(tokens, Eos)
            /\ UNCHANGED <<decoded, pairs, entries, membership, singleton>>
    <2>1. held # NoEntry /\ work + 1 <= MaxImportWork
        <3>1. listed[1].holds /\ listed[2].holds
            <4>1. Len(listed) = 3 /\ Holds(listed)
                BY <1>7, <1>4, <1>13 DEF Goes
            <4> QED
                BY <4>1 DEF Holds
        <3> QED
            BY <1>4, <3>1
    <2>2. /\ phase' = phase /\ item' = item + 1 /\ work' = work + 1
          /\ UNCHANGED <<document, eos_ids, reason>>
        BY <1>13 DEF Goes
    <2>3. work' \in Nat /\ decoded' \in Nat /\ decoded' <= MaxDecoded /\ work' <= MaxImportWork
        BY <1>8, <1>13, <2>1, <2>2 DEF ImportTyped, ImportInv, ImportBounded
    <2>4. Eos \in Seq(Bytes) \cup {Eos} /\ id \in Elements(eos_ids)
        BY <1>9, <1>13
    <2> QED
        BY <1>8, <1>13, <2>1, <2>2, <2>3, <2>4, TokensFollowEntries DEF held
<1>14. CASE /\ ~IsEos(id)
            /\ Goes(tests, 1 + Len(held.piece) + Len(bytes), phase, item + 1)
            /\ tokens' = Append(tokens, bytes)
            /\ decoded' = decoded + Len(bytes)
            /\ singleton' = IF Len(bytes) = 1 THEN singleton \cup {bytes[1]} ELSE singleton
            /\ UNCHANGED <<pairs, entries, membership>>
    <2>1. /\ held # NoEntry /\ bytes # <<>> /\ decoded + Len(bytes) <= MaxDecoded
          /\ work + (1 + Len(held.piece) + Len(bytes)) <= MaxImportWork
        <3>1. tests[2].holds /\ tests[5].holds /\ tests[6].holds /\ tests[7].holds
            <4>1. Len(tests) = 7 /\ Holds(tests)
                BY <1>6, <1>14 DEF Goes
            <4> QED
                BY <4>1 DEF Holds
        <3>2. listed[2].holds /\ ordinary[2].holds /\ ordinary[3].holds /\ ordinary[4].holds
            BY <1>6, <1>14, <3>1
        <3> QED
            BY <1>4, <1>5, <3>2
    <2>2. /\ phase' = phase /\ item' = item + 1
          /\ work' = work + (1 + Len(held.piece) + Len(bytes))
          /\ UNCHANGED <<document, eos_ids, reason>>
        BY <1>14 DEF Goes
    <2>3. /\ bytes \in Seq(Bytes) /\ Len(bytes) \in Nat /\ Len(held.piece) \in Nat
          /\ bytes = Decoded(held.piece)
        BY <1>12, <1>2, <2>1
    <2>4. work' \in Nat /\ decoded' \in Nat /\ decoded' <= MaxDecoded /\ work' <= MaxImportWork
        <3>1. work \in Nat /\ decoded \in Nat
            BY <1>8 DEF ImportTyped
        <3>2. work' = work + (1 + Len(held.piece) + Len(bytes)) /\ decoded' = decoded + Len(bytes)
            BY <1>14, <2>2
        <3>3. \A m, n \in Nat : work + (1 + m + n) \in Nat /\ decoded + n \in Nat
            BY <3>1
        <3>4. work' \in Nat /\ decoded' \in Nat
            BY <2>3, <3>2, <3>3
        <3> QED
            BY <2>1, <3>2, <3>4
    <2>5. id \notin Elements(eos_ids)
        BY <1>9, <1>14
    <2> QED
        BY <1>8, <1>14, <2>1, <2>2, <2>3, <2>4, <2>5, TokensFollowEntries DEF held
<1>15. CASE RefusesUnless(tests)
    <2>1. /\ Compatible(document, eos_ids) => held # NoEntry
          /\ phase # "none"
        BY <1>8, <1>11, CompatibleHasNoGap DEF held
    <2>2. Refusable \/ FirstFailure(tests) \in Limits => ImportInv'
        BY <1>15, <2>1, RefusalPreserves
    <2>3. CASE IsEos(id)
        <3>1. PICK i \in 1..3 : /\ ~listed[i].holds /\ FirstFailure(tests) = listed[i].why
                                /\ \A j \in 1..(i - 1) : listed[j].holds
            <4>1. Len(tests) = 3 /\ ~Holds(tests) /\ tests = listed
                BY <1>7, <1>4, <1>15, <2>3 DEF RefusesUnless
            <4> QED
                BY <4>1, FailsFirst
        <3>2. listed[3].holds
            BY <1>4, <2>3
        <3>3. i = 1 \/ (i = 2 /\ held = NoEntry)
            BY <1>4, <3>1, <3>2
        <3> QED
            BY <1>4, <2>1, <2>2, <3>1, <3>3 DEF Refusable
    <2>4. CASE ~IsEos(id)
        <3>1. PICK i \in 1..7 : /\ ~tests[i].holds /\ FirstFailure(tests) = tests[i].why
                                /\ \A j \in 1..(i - 1) : tests[j].holds
            <4>1. Len(tests) = 7 /\ ~Holds(tests)
                BY <1>6, <1>15, <2>4 DEF RefusesUnless
            <4> QED
                BY <4>1, FailsFirst
        <3>2. CASE i \in {1, 4, 5, 6}
            <4>1. /\ tests[1].why \in Limits /\ tests[4].why \in Limits
                  /\ tests[5].why \in Limits /\ tests[6].why \in Limits
                BY <1>6, <1>4, <1>5, <2>4
            <4> QED
                BY <2>2, <3>1, <3>2, <4>1
        <3>3. CASE i = 2
            <4>1. held = NoEntry
                BY <1>6, <1>4, <2>4, <3>1, <3>3
            <4> QED
                BY <2>1, <2>2, <4>1 DEF Refusable
        <3>4. CASE i = 3
            <4>1. held.special /\ ~IsEos(id)
                BY <1>6, <1>4, <2>4, <3>1, <3>4
            <4> QED
                BY <1>9, <1>11, <4>1
        <3>5. CASE i = 7
            <4>1. bytes = <<>>
                BY <1>6, <1>5, <2>4, <3>1, <3>5
            <4>2. tests[2].holds
                <5>1. 2 \in 1..(i - 1)
                    BY <3>5
                <5> QED
                    BY <3>1, <5>1
            <4>3. held # NoEntry
                BY <1>6, <1>4, <2>4, <4>2
            <4>4. PieceOf(document, id) = held.piece /\ id \in Ids(document)
                BY <1>8, <1>11, <1>12, <4>3, PieceOfEntry DEF held
            <4>5. id \in Ordinary(document, eos_ids) /\ Decoded(PieceOf(document, id)) = <<>>
                BY <1>2, <1>9, <2>4, <4>1, <4>3, <4>4 DEF Ordinary
            <4>6. ~Compatible(document, eos_ids)
                BY <4>5 DEF Compatible
            <4> QED
                BY <2>2, <4>6 DEF Refusable
        <3> QED
            BY <3>1, <3>2, <3>3, <3>4, <3>5
    <2> QED
        BY <2>3, <2>4
<1> QED
    BY <1>1, <1>13, <1>14, <1>15

(* Every byte is a token of its own.                                         *)
LEMMA CoverBytesKeeps ==
    ASSUME ImportInv, CoverBytes
    PROVE  ImportInv'
<1> DEFINE tests == << Affords(Cardinality(Bytes)), Test(singleton = Bytes, "missing_byte") >>
<1>1. \/ /\ Goes(tests, Cardinality(Bytes), "imported", item)
         /\ UNCHANGED <<decoded, pairs, entries, membership, tokens, singleton>>
      \/ RefusesUnless(tests)
    BY DEF CoverBytes
<1>2. /\ Len(tests) = 2
      /\ tests[1].holds => work + Cardinality(Bytes) <= MaxImportWork
      /\ tests[2].holds <=> singleton = Bytes
      /\ tests[1].why \in Limits
    BY DEF Test, Affords, Limits
<1> HIDE DEF tests
<1>3. /\ phase = "tokens" /\ item - 1 \notin DOMAIN entries /\ ImportTyped /\ AddedFacts
      /\ TokenFacts
    BY DEF CoverBytes, ImportInv
<1>4. /\ Size \in Nat /\ DOMAIN entries = 0..(Size - 1) /\ item = Size + 1
      /\ singleton \subseteq Bytes
      /\ Filled(Assigned(document))
    <2>1. Size \in Nat /\ DOMAIN entries = 0..(Size - 1)
        BY <1>3, SizeOfEntries
    <2>2. item \in 1..(Size + 1)
        BY <1>3 DEF TokenFacts
    <2>3. item = Size + 1
        BY <1>3, <2>1, <2>2
    <2> QED
        BY <1>3, <2>1, <2>3, AllIsFilled DEF Merging, ImportTyped
<1>5. CASE /\ Goes(tests, Cardinality(Bytes), "imported", item)
           /\ UNCHANGED <<decoded, pairs, entries, membership, tokens, singleton>>
    <2>1. singleton = Bytes /\ work + Cardinality(Bytes) <= MaxImportWork
        <3>1. tests[1].holds /\ tests[2].holds
            BY <1>2, <1>5 DEF Goes, Holds
        <3> QED
            BY <1>2, <3>1
    <2>2. /\ phase' = "imported" /\ item' = item /\ work' = work + Cardinality(Bytes)
          /\ UNCHANGED <<document, eos_ids, reason>>
        BY <1>5 DEF Goes
    <2>3. work' \in Nat
        <3>1. Cardinality(Bytes) \in Nat
            BY ImportAssumption, FS_CardinalityType
        <3> QED
            BY <1>3, <2>2, <3>1 DEF ImportTyped
    <2>4. ImportTyped'
        BY <1>3, <1>5, <2>2, <2>3 DEF ImportTyped, Started
    <2>5. ImportBounded'
        BY <1>3, <1>5, <2>1, <2>2 DEF ImportInv, ImportBounded, Size
    <2>6. ReadFacts'
        BY <1>3, <2>2 DEF ImportInv, ReadFacts, Opened
    <2>7. VocabularyFacts'
        <3>1. /\ Cardinality(Listed(document)) = Len(document.vocabulary)
              /\ NotAnId \notin {p[1] : p \in Listed(document)}
            BY <1>3 DEF ImportInv, VocabularyFacts, Listing
        <3> QED
            BY <2>2, <3>1 DEF VocabularyFacts
    <2>8. AddedFacts'
        <3>1. (Listed(document) \cup AddedTo(Len(document.added)))' = Listed(document) \cup AddedTo(Len(document.added))
            BY <2>2 DEF Listed, AddedTo
        <3>2. Filled(Listed(document) \cup AddedTo(Len(document.added)))'
            BY <1>3, <1>5, <3>1 DEF AddedFacts, Merging, Filled, Size
        <3> QED
            BY <1>3, <1>5, <2>2, <3>2 DEF AddedFacts, Merging
    <2>9. TokenFacts'
        BY <1>3, <1>4, <1>5, <2>1, <2>2 DEF TokenFacts, Size
    <2>10. RefusalFacts'
        BY <2>2 DEF RefusalFacts
    <2> QED
        BY <2>4, <2>5, <2>6, <2>7, <2>8, <2>9, <2>10 DEF ImportInv
<1>6. CASE RefusesUnless(tests)
    <2>1. PICK i \in 1..2 : /\ ~tests[i].holds /\ FirstFailure(tests) = tests[i].why
                            /\ \A j \in 1..(i - 1) : tests[j].holds
        <3>1. Len(tests) = 2 /\ ~Holds(tests)
            BY <1>2, <1>6 DEF RefusesUnless
        <3> QED
            BY <3>1, FailsFirst
    <2>2. CASE i = 1
        <3>1. FirstFailure(tests) \in Limits
            BY <1>2, <2>1, <2>2
        <3> QED
            BY <1>3, <1>6, <3>1, RefusalPreserves
    <2>3. CASE i = 2
        <3> SUFFICES ASSUME Compatible(document, eos_ids) PROVE FALSE
            <4>1. Refusable => ImportInv'
                BY <1>3, <1>6, RefusalPreserves
            <4> QED
                BY <4>1 DEF Refusable
        <3>1. PICK b \in Bytes : b \notin singleton
            BY <1>2, <1>4, <2>1, <2>3
        <3>2. PICK id \in Ordinary(document, eos_ids) : Decoded(PieceOf(document, id)) = <<b>>
            BY DEF Compatible
        <3>3. /\ id \in DOMAIN entries /\ entries[id].piece \in Seq(Characters)
              /\ id \notin Elements(eos_ids)
            BY <1>4 DEF Ordinary, Ids, Filled
        <3>4. PieceOf(document, id) = entries[id].piece
            BY <1>4, <3>3, PieceOfEntry, ImportAssumption
        <3>5. id + 1 \in 1..(item - 1) /\ (id + 1) - 1 = id
            BY <1>4, <3>3
        <3>6. tokens[id + 1] = <<b>>
            BY <1>3, <3>2, <3>3, <3>4, <3>5 DEF TokenFacts
        <3>7. Len(tokens[id + 1]) = 1 => tokens[id + 1][1] \in singleton
            BY <1>3, <3>3, <3>5 DEF TokenFacts
        <3> QED
            BY <3>1, <3>6, <3>7
    <2> QED
        BY <2>1, <2>2, <2>3
<1> QED
    BY <1>1, <1>5, <1>6

(* What a document assigns is finite.                                        *)
LEMMA AssignedIsFinite ==
    ASSUME ImportTyped, phase # "none", document.model \in {"map", "list"}
    PROVE  IsFiniteSet(Assigned(document))
<1>1. document.vocabulary \in Seq([piece : Seq(Characters), id : Nat \cup {NotAnId}]) \/
      document.vocabulary \in Seq(Seq(Characters) \cup {NotText})
    BY DocumentTyped
<1>2. /\ Len(document.vocabulary) \in 0..Len(document.vocabulary)
      /\ Len(document.added) \in 0..Len(document.added)
    BY <1>1, DocumentTyped
<1>3. IsFiniteSet(Listed(document)) /\ IsFiniteSet(AddedTo(Len(document.added)))
    BY <1>2, FirstPairs, FirstAdded
<1>4. Assigned(document) = Listed(document) \cup AddedTo(Len(document.added))
    BY <1>2, FirstAdded
<1> QED
    BY <1>3, <1>4, FS_Union

(* What has been imported is what a compatible document says.                *)
LEMMA ImportedIsExact ==
    ASSUME ImportInv, phase = "imported"
    PROVE  /\ Compatible(document, eos_ids)
           /\ tokens = [i \in 1..Cardinality(Ids(document)) |->
                          IF i - 1 \in Elements(eos_ids) THEN Eos
                          ELSE Decoded(PieceOf(document, i - 1))]
<1>1. /\ ImportTyped /\ ReadFacts /\ VocabularyFacts /\ AddedFacts /\ TokenFacts
    BY DEF ImportInv
<1>2. /\ Size \in Nat /\ DOMAIN entries = 0..(Size - 1) /\ item = Size + 1 /\ singleton = Bytes
      /\ Filled(Assigned(document)) /\ Len(tokens) = Size
    <2>1. Size \in Nat /\ DOMAIN entries = 0..(Size - 1)
        BY <1>1, SizeOfEntries
    <2>2. Filled(Assigned(document))
        BY <1>1, AllIsFilled DEF Merging
    <2> QED
        BY <1>1, <2>1, <2>2 DEF TokenFacts
<1>3. \A id \in DOMAIN entries :
        /\ entries[id].piece # NotText /\ PieceOf(document, id) = entries[id].piece
        /\ id \in Ids(document)
        /\ tokens[id + 1] = IF id \in Elements(eos_ids) THEN Eos ELSE Decoded(PieceOf(document, id))
        /\ id \notin Elements(eos_ids) => tokens[id + 1] # <<>>
    <2> TAKE id \in DOMAIN entries
    <2>1. id + 1 \in 1..(item - 1) /\ (id + 1) - 1 = id
        BY <1>2
    <2>2. /\ entries[id] # NoEntry
          /\ tokens[id + 1] = IF id \in Elements(eos_ids) THEN Eos ELSE Decoded(entries[id].piece)
          /\ id \notin Elements(eos_ids) => tokens[id + 1] # <<>>
        BY <1>1, <2>1 DEF TokenFacts
    <2>3. entries[id].piece # NotText
        BY <1>2, <2>2 DEF Filled
    <2> QED
        BY <1>2, <2>2, <2>3, PieceOfEntry
<1>4. Ids(document) = DOMAIN entries
    <2>1. Ids(document) \subseteq DOMAIN entries
        BY <1>2 DEF Filled, Ids
    <2> QED
        BY <1>3, <2>1
<1>5. Cardinality(Ids(document)) = Size
    BY <1>4 DEF Size
<1>6. Cardinality(Assigned(document)) = Size
    <2>1. IsFiniteSet(Assigned(document))
        BY <1>1, AssignedIsFinite DEF ReadFacts, Opened
    <2>2. \A p \in Assigned(document) : p = <<p[1], p[2]>>
        BY DEF Assigned, Listed
    <2>3. \A p, q \in Assigned(document) : p[1] = q[1] => p = q
        <3> TAKE p, q \in Assigned(document)
        <3>1. entries[p[1]].piece = p[2] /\ entries[q[1]].piece = q[2]
            BY <1>2 DEF Filled
        <3> QED
            BY <2>2, <3>1
    <2>4. Cardinality({p[1] : p \in Assigned(document)}) = Cardinality(Assigned(document))
        BY <2>1, <2>3, KeysOfPairs
    <2> QED
        BY <1>5, <2>4 DEF Ids
<1>7. NotAnId \notin Ids(document) /\ \A pair \in Assigned(document) : pair[2] # NotText
    <2>1. NotAnId \notin Ids(document)
        BY <1>2, <1>4, ImportAssumption
    <2>2. \A pair \in Assigned(document) : pair[2] # NotText
        BY <1>2, ImportAssumption DEF Filled
    <2> QED
        BY <2>1, <2>2
<1>8. \A token \in Elements(document.added) :
        /\ token.special \in {"yes", "no"}
        /\ (token.special = "yes" => token.id \in Elements(eos_ids))
    <2> TAKE token \in Elements(document.added)
    <2>1. PICK i \in 1..Len(document.added) : token = document.added[i]
        BY DEF Elements
    <2>2. token.special # "absent" /\ (token.special = "yes" => token.id \in Elements(eos_ids))
        BY <1>1, <2>1 DEF AddedFacts, Merging
    <2>3. document.added \in Seq([piece : Seq(Characters) \cup {NotText}, id : Nat \cup {NotAnId},
                                  special : {"yes", "no", "absent"}])
        BY <1>1, DocumentTyped
    <2>4. token \in [piece : Seq(Characters) \cup {NotText}, id : Nat \cup {NotAnId}, special : {"yes", "no", "absent"}]
        BY <2>1, <2>3, ElementOfList, Zenon
    <2> QED
        BY <2>2, <2>4
<1>9. \A id \in Ordinary(document, eos_ids) : Decoded(PieceOf(document, id)) # <<>>
    BY <1>3, <1>4 DEF Ordinary
<1>10. {<<b>> : b \in Bytes} \subseteq {Decoded(PieceOf(document, id)) : id \in Ordinary(document, eos_ids)}
    <2>1. ASSUME NEW b \in Bytes PROVE \E id \in Ordinary(document, eos_ids) : Decoded(PieceOf(document, id)) = <<b>>
        <3>1. PICK i \in 1..(item - 1) : i - 1 \notin Elements(eos_ids) /\ tokens[i] = <<b>>
            BY <1>1, <1>2 DEF TokenFacts
        <3>2. i - 1 \in DOMAIN entries /\ (i - 1) + 1 = i
            BY <1>2
        <3>3. tokens[i] = Decoded(PieceOf(document, i - 1))
            BY <1>3, <3>1, <3>2
        <3> QED
            BY <1>4, <3>1, <3>2, <3>3 DEF Ordinary
    <2> QED
        BY <2>1
<1>11. /\ Ids(document) # {} /\ Ids(document) = 0..(Cardinality(Assigned(document)) - 1)
       /\ Elements(eos_ids) \subseteq Ids(document)
    BY <1>1, <1>2, <1>4, <1>6 DEF TokenFacts
<1>12. /\ document.utf8 /\ document.json /\ document.decoder /\ document.model \in {"map", "list"}
       /\ eos_ids # <<>> /\ Cardinality(Elements(eos_ids)) = Len(eos_ids)
       /\ Cardinality(Listed(document)) = Len(document.vocabulary)
    BY <1>1 DEF ReadFacts, Opened, AddedFacts, Merging, VocabularyFacts, Listing
<1>13. Compatible(document, eos_ids)
    BY <1>7, <1>8, <1>9, <1>10, <1>11, <1>12 DEF Compatible
<1>14. tokens = [i \in 1..Cardinality(Ids(document)) |->
                   IF i - 1 \in Elements(eos_ids) THEN Eos ELSE Decoded(PieceOf(document, i - 1))]
    <2>1. tokens = [i \in 1..Size |-> tokens[i]]
        BY <1>1, <1>2 DEF ImportTyped
    <2>2. \A i \in 1..Size : tokens[i] = IF i - 1 \in Elements(eos_ids) THEN Eos ELSE Decoded(PieceOf(document, i - 1))
        <3> TAKE i \in 1..Size
        <3>1. i - 1 \in DOMAIN entries /\ (i - 1) + 1 = i
            BY <1>2
        <3> QED
            BY <1>3, <3>1
    <2> QED
        BY <1>5, <2>1, <2>2, Zenon
<1> QED
    BY <1>13, <1>14

(* The invariant holds at the start and when an import begins anew.          *)
LEMMA NothingImported ==
    ASSUME entries = <<>>, tokens = <<>>, singleton = {}, item = 1, work = 0, decoded = 0, membership = 0, pairs = <<>>,
           phase \in {"none", "called", "read"},
           phase # "none" => document \in Documents /\ eos_ids \in EosLists,
           phase = "read" => document.utf8 /\ NotAnId \notin Elements(eos_ids)
    PROVE  ImportInv
<1>1. entries \in [0..(0 - 1) -> Entry] /\ DOMAIN entries = {} /\ Size = 0
    BY FS_EmptySet DEF Size
<1>2. ImportTyped
    BY <1>1 DEF ImportTyped, Started
<1>3. ImportBounded
    BY <1>1, ImportAssumption DEF ImportBounded
<1>4. ReadFacts /\ VocabularyFacts /\ AddedFacts /\ TokenFacts /\ RefusalFacts
    BY DEF ReadFacts, VocabularyFacts, AddedFacts, TokenFacts, RefusalFacts, Opened, Listing,
       Merging
<1> QED
    BY <1>2, <1>3, <1>4 DEF ImportInv

LEMMA ImportStarts == ToolchainInit => ImportInv
<1> SUFFICES ASSUME ToolchainInit PROVE ImportInv
    OBVIOUS
<1>1. CASE ImportInit
    BY <1>1, NothingImported DEF ImportInit
<1>2. CASE NoImport
    BY <1>2, NothingImported DEF NoImport
<1> QED
    BY <1>1, <1>2 DEF ToolchainInit

LEMMA ImportStepKeeps == ImportInv /\ ImportNext => ImportInv'
BY FromTransformersKeeps, OpenKeeps, ReadPairKeeps, BuildDenseKeeps, ReadPieceKeeps,
   CollectEosKeeps,
   MergeAddedKeeps, CheckRangeKeeps, EmitTokenKeeps, CoverBytesKeeps DEF ImportNext

LEMMA UseManifestKeeps ==
    ASSUME UseManifest
    PROVE  ImportInv'
<1>1. /\ entries' = <<>> /\ tokens' = <<>> /\ singleton' = {} /\ item' = 1 /\ work' = 0
      /\ decoded' = 0
      /\ membership' = 0 /\ pairs' = <<>> /\ phase' = "none"
    BY DEF UseManifest
<1>2. (DOMAIN entries = {})' /\ (entries \in [0..(0 - 1) -> Entry])' /\ Size' = 0
    BY <1>1, FS_EmptySet DEF Size
<1>3. ImportTyped'
    BY <1>1, <1>2 DEF ImportTyped, Started
<1>4. ImportBounded'
    BY <1>1, <1>2, ImportAssumption DEF ImportBounded
<1>5. ReadFacts' /\ VocabularyFacts' /\ AddedFacts' /\ TokenFacts' /\ RefusalFacts'
    BY <1>1 DEF ReadFacts, VocabularyFacts, AddedFacts, TokenFacts, RefusalFacts, Opened, Listing,
       Merging
<1> QED
    BY <1>3, <1>4, <1>5 DEF ImportInv

(* What is no step of the import leaves it alone.                            *)
LEMMA OtherStepsKeepImport ==
    ASSUME ImportInv, UNCHANGED importVars
    PROVE  ImportInv'
<1>1. ImportTyped' /\ ImportBounded'
    BY DEF ImportInv, ImportTyped, ImportBounded, importVars, Size
<1>2. ReadFacts' /\ RefusalFacts'
    BY DEF ImportInv, ReadFacts, RefusalFacts, Refusable, importVars
<1>3. VocabularyFacts' /\ AddedFacts'
    <2>1. \A n : Vocabulary(n)' = Vocabulary(n) /\ AddedTo(n)' = AddedTo(n)
        BY DEF importVars, Vocabulary, AddedTo
    <2> QED
        BY <2>1 DEF ImportInv, VocabularyFacts, AddedFacts, importVars, Filled, Size
<1>4. TokenFacts'
    BY DEF ImportInv, TokenFacts, importVars, Size
<1> QED
    BY <1>1, <1>2, <1>3, <1>4 DEF ImportInv

(* The invariant of the import, in every state of the toolchain.             *)
LEMMA ImportInvAlways == ToolchainSpec => []ImportInv
<1>1. ImportInv /\ [ToolchainNext]_toolVars => ImportInv'
    <2> SUFFICES ASSUME ImportInv, [ToolchainNext]_toolVars PROVE ImportInv'
        OBVIOUS
    <2>1. CASE Import
        BY <2>1, ImportStepKeeps DEF Import
    <2>2. CASE UseManifest
        BY <2>2, UseManifestKeeps
    <2>3. CASE Compile \/ UNCHANGED toolVars
        BY <2>3, OtherStepsKeepImport DEF Compile, toolVars
    <2> QED
        BY <2>1, <2>2, <2>3 DEF ToolchainNext
<1> QED
    BY <1>1, ImportStarts, PTL DEF ToolchainSpec

(* In every state of every import, however large the document, the work      *)
(* charged, the bytes decoded and the vocabulary are within their limits,    *)
(* and nothing is longer than the vocabulary: ExtractionBudget of            *)
(* tokenizer_json.rs is charged before what it pays for is done.             *)
THEOREM ImportNeverOverruns == ToolchainSpec => []ImportStaysInBounds
<1>1. ImportInv => ImportStaysInBounds
    BY DEF ImportInv, ImportBounded, ImportStaysInBounds, Size
<1> QED
    BY <1>1, ImportInvAlways, PTL

(* An import that ends well ends with the tokens that the document gives     *)
(* each id, and only if the document may be imported; one that refuses does  *)
(* so for a limit or because the document may not: for every document and    *)
(* list of ends of sentence (extract of tokenizer_json.rs and                *)
(* TokenizerManifest.from_transformers).                                     *)
THEOREM ImportIsAlwaysExact == ToolchainSpec => []ImportIsExact
<1>1. ImportInv => ImportIsExact
    BY ImportedIsExact DEF ImportInv, RefusalFacts, Refusable, ImportIsExact
<1> QED
    BY <1>1, ImportInvAlways, PTL
-----------------------------------------------------------------------------
(* The sizes of what is compiled, and the layers that measure it.            *)
(* The other three totals.                                                   *)
LEMMA TotalOfPatterns ==
    ASSUME NEW s, DOMAIN s = 1..Len(s),
           NEW c \in Seq(Nat), Len(c) = Len(s), \A i \in 1..Len(s) : c[i] = PatternBytes(s[i])
    PROVE  TotalOf(s, PatternBytes) = SumTo(c, Len(c))
<1> DEFINE n == Len(c)
           Solves(f) == f = [S \in SUBSET (DOMAIN s) |->
                               IF S = {} THEN 0 ELSE f[S \ {Max(S)}] + PatternBytes(s[Max(S)])]
           f0 == CHOOSE f : Solves(f)
<1>1. TotalOf(s, PatternBytes) = f0[DOMAIN s]
    BY DEF TotalOf, FoldLeft, MapThenFoldSet
<1>2. n \in Nat
    OBVIOUS
<1>3. \A S \in SUBSET (1..n) : S # {} => c[Max(S)] = PatternBytes(s[Max(S)])
    BY <1>2, MaxOfIndices
<1>4. \A f : Solves(f) <=> AddsUp(f, c)
    BY <1>3 DEF AddsUp
<1>5. \E f : Solves(f)
    BY <1>4, AddingExists
<1>6. Solves(f0)
    BY <1>5, Zenon
<1> HIDE DEF Solves, f0
<1> QED
    BY <1>1, <1>4, <1>6, AddingSums

LEMMA TotalOfIgnored ==
    ASSUME NEW s, DOMAIN s = 1..Len(s),
           NEW c \in Seq(Nat), Len(c) = Len(s), \A i \in 1..Len(s) : c[i] = IgnoredBytes(s[i])
    PROVE  TotalOf(s, IgnoredBytes) = SumTo(c, Len(c))
<1> DEFINE n == Len(c)
           Solves(f) == f = [S \in SUBSET (DOMAIN s) |->
                               IF S = {} THEN 0 ELSE f[S \ {Max(S)}] + IgnoredBytes(s[Max(S)])]
           f0 == CHOOSE f : Solves(f)
<1>1. TotalOf(s, IgnoredBytes) = f0[DOMAIN s]
    BY DEF TotalOf, FoldLeft, MapThenFoldSet
<1>2. n \in Nat
    OBVIOUS
<1>3. \A S \in SUBSET (1..n) : S # {} => c[Max(S)] = IgnoredBytes(s[Max(S)])
    BY <1>2, MaxOfIndices
<1>4. \A f : Solves(f) <=> AddsUp(f, c)
    BY <1>3 DEF AddsUp
<1>5. \E f : Solves(f)
    BY <1>4, AddingExists
<1>6. Solves(f0)
    BY <1>5, Zenon
<1> HIDE DEF Solves, f0
<1> QED
    BY <1>1, <1>4, <1>6, AddingSums

LEMMA TotalOfTokens ==
    ASSUME NEW s, DOMAIN s = 1..Len(s),
           NEW c \in Seq(Nat), Len(c) = Len(s), \A i \in 1..Len(s) : c[i] = Weight(s[i])
    PROVE  TotalOf(s, Weight) = SumTo(c, Len(c))
<1> DEFINE n == Len(c)
           Solves(f) == f = [S \in SUBSET (DOMAIN s) |->
                               IF S = {} THEN 0 ELSE f[S \ {Max(S)}] + Weight(s[Max(S)])]
           f0 == CHOOSE f : Solves(f)
<1>1. TotalOf(s, Weight) = f0[DOMAIN s]
    BY DEF TotalOf, FoldLeft, MapThenFoldSet
<1>2. n \in Nat
    OBVIOUS
<1>3. \A S \in SUBSET (1..n) : S # {} => c[Max(S)] = Weight(s[Max(S)])
    BY <1>2, MaxOfIndices
<1>4. \A f : Solves(f) <=> AddsUp(f, c)
    BY <1>3 DEF AddsUp
<1>5. \E f : Solves(f)
    BY <1>4, AddingExists
<1>6. Solves(f0)
    BY <1>5, Zenon
<1> HIDE DEF Solves, f0
<1> QED
    BY <1>1, <1>4, <1>6, AddingSums
-----------------------------------------------------------------------------
(* What is given to compile, and how much of it the first n of its           *)
(* terminals, ignored names and tokens are.                                  *)
SourceTyped ==
    /\ {source.text, source.rules, source.productions, source.work, source.bytes} \subseteq Nat
    /\ {source.utf8, source.syntax} \subseteq BOOLEAN
    /\ source.named \in Seq(DOMAIN SizeOf)
    /\ Cardinality(Elements(source.named)) = Len(source.named)
    /\ source.terminals \in Seq([name : DOMAIN SizeOf, pattern : DOMAIN SizeOf \cap DOMAIN Flaw, priority : Nat])
    /\ source.ignored \in Seq(DOMAIN SizeOf)
ManifestTyped ==
    manifest.token_bytes \in Seq(Seq(Bytes)) /\ IsFiniteSet(manifest.eos_token_ids)

Terminals == Len(source.terminals)
Ignoreds == Len(source.ignored)
NameCount == Terminals + Ignoreds
Givens == Len(Given)
NameCosts == [i \in 1..Terminals |-> NameBytes(source.terminals[i])]
PatternCosts == [i \in 1..Terminals |-> PatternBytes(source.terminals[i])]
IgnoredCosts == [i \in 1..Ignoreds |-> IgnoredBytes(source.ignored[i])]
TokenCosts == [i \in 1..Givens |-> Weight(Given[i])]

Lesser(m, n) == IF m <= n THEN m ELSE n
SourceAt(n) ==
    TextBytes + SumTo(NameCosts, Lesser(n, Terminals))
              + (IF n <= Terminals THEN 0 ELSE SumTo(IgnoredCosts, Lesser(n, NameCount) - Terminals))
RegexAt(n) == SumTo(PatternCosts, Lesser(n, Terminals))
TokensAt(n) == IF n <= NameCount THEN 0 ELSE SumTo(TokenCosts, n - NameCount)

(* The sizes of what is given, and the limits for them.                      *)
LEMMA SizesTyped ==
    ASSUME SourceTyped
    PROVE  /\ source.text \in Nat /\ source.rules \in Nat /\ source.productions \in Nat
           /\ source.work \in Nat /\ source.bytes \in Nat
           /\ Len(source.named) \in Nat /\ Len(source.terminals) \in Nat /\ Len(source.ignored) \in Nat
<1>1. Len(source.named) \in Nat /\ Len(source.terminals) \in Nat /\ Len(source.ignored) \in Nat
    BY DEF SourceTyped
<1>2. {source.text, source.rules, source.productions, source.work, source.bytes} \subseteq Nat
    BY DEF SourceTyped
<1> QED
    BY <1>1, <1>2

LEMMA StageLimitsTyped ==
    /\ MaxTerminalSpecs \in Nat /\ MaxTerminals \in Nat /\ MaxNonterminals \in Nat
    /\ MaxProductions \in Nat /\ MaxParserCells \in Nat
    /\ MaxTokens \in Nat /\ MaxTokenBytes \in Nat /\ MaxWork \in Nat /\ MaxLogicalBytes \in Nat
<1>1. {MaxTerminalSpecs, MaxTerminals, MaxNonterminals, MaxProductions, MaxParserCells,
       MaxTokens, MaxTokenBytes, MaxWork, MaxLogicalBytes} \subseteq Nat
    BY CompileAssumption
<1> QED
    BY <1>1

(* The tokens and their sizes.                                               *)
LEMMA GivenTyped ==
    ASSUME ManifestTyped
    PROVE  /\ Given \in Seq(Seq(Bytes) \cup {Eos}) /\ Len(Given) = Len(manifest.token_bytes)
           /\ Len(Given) \in Nat
           /\ \A i \in 1..Len(Given) :
                Given[i] = IF i - 1 \in manifest.eos_token_ids THEN Eos ELSE manifest.token_bytes[i]
<1>1. manifest.token_bytes \in Seq(Seq(Bytes))
    BY DEF ManifestTyped
<1>2. \A i \in 1..Len(manifest.token_bytes) : manifest.token_bytes[i] \in Seq(Bytes)
    BY <1>1, ElementOfList, Zenon
<1>3. Given = [i \in 1..Len(manifest.token_bytes) |->
                 IF i - 1 \in manifest.eos_token_ids THEN Eos ELSE manifest.token_bytes[i]]
    BY DEF Given, TokensOf
<1>4. Len(manifest.token_bytes) \in Nat
    BY <1>1
<1>5. Given \in Seq(Seq(Bytes) \cup {Eos})
    BY <1>2, <1>3, <1>4
<1>6. Len(Given) = Len(manifest.token_bytes)
    BY <1>3, <1>4
<1> QED
    BY <1>3, <1>4, <1>5, <1>6

LEMMA CostsTyped ==
    ASSUME SourceTyped, ManifestTyped
    PROVE  /\ NameCosts \in Seq(Nat) /\ Len(NameCosts) = Terminals /\ Terminals \in Nat
           /\ PatternCosts \in Seq(Nat) /\ Len(PatternCosts) = Terminals
           /\ IgnoredCosts \in Seq(Nat) /\ Len(IgnoredCosts) = Ignoreds
           /\ TokenCosts \in Seq(Nat) /\ Len(TokenCosts) = Givens
           /\ NameCount \in Nat /\ Terminals <= NameCount /\ NameCount - Terminals = Ignoreds
           /\ Ignoreds \in Nat /\ Givens \in Nat /\ TextBytes \in Nat
           /\ \A i \in 1..Terminals : SizeOf[source.terminals[i].name] \in Nat /\ SizeOf[source.terminals[i].pattern] \in Nat
           /\ \A i \in 1..Ignoreds : SizeOf[source.ignored[i]] \in Nat
           /\ \A i \in 1..Givens : Weight(Given[i]) \in Nat
<1>1. /\ Terminals \in Nat /\ Ignoreds \in Nat /\ NameCount \in Nat
      /\ Terminals <= NameCount /\ NameCount - Terminals = Ignoreds
    <2>1. Terminals \in Nat
        BY DEF SourceTyped, Terminals
    <2>2. Ignoreds \in Nat
        BY DEF SourceTyped, Ignoreds
    <2> QED
        BY <2>1, <2>2 DEF NameCount
<1>2. \A i \in 1..Terminals : SizeOf[source.terminals[i].name] \in Nat /\ SizeOf[source.terminals[i].pattern] \in Nat
    <2> TAKE i \in 1..Terminals
    <2>1. source.terminals[i] \in [name : DOMAIN SizeOf, pattern : DOMAIN SizeOf \cap DOMAIN Flaw, priority : Nat]
        BY ElementOfList, Zenon DEF SourceTyped, Terminals
    <2> QED
        BY <2>1, CompileAssumption
<1>3. \A i \in 1..Ignoreds : SizeOf[source.ignored[i]] \in Nat
    <2> TAKE i \in 1..Ignoreds
    <2>1. source.ignored[i] \in DOMAIN SizeOf
        BY ElementOfList, Zenon DEF SourceTyped, Ignoreds
    <2> QED
        BY <2>1, CompileAssumption
<1>4. Givens \in Nat
    BY GivenTyped DEF Givens
<1>5. \A i \in 1..Givens : Weight(Given[i]) \in Nat
    <2> TAKE i \in 1..Givens
    <2>1. Given[i] \in Seq(Bytes) \cup {Eos}
        BY GivenTyped, ElementOfList, Zenon DEF Givens
    <2> QED
        BY <2>1 DEF Weight
<1>6. TextBytes \in Nat
    <2>1. PrefixBytes \in Nat
        BY CompileAssumption
    <2>2. source.text \in Nat
        BY DEF SourceTyped
    <2> QED
        BY <2>1, <2>2 DEF TextBytes
<1>7. /\ NameCosts \in Seq(Nat) /\ Len(NameCosts) = Terminals /\ PatternCosts \in Seq(Nat)
      /\ Len(PatternCosts) = Terminals
    <2>1. \A i \in 1..Terminals : NameBytes(source.terminals[i]) \in Nat /\ PatternBytes(source.terminals[i]) \in Nat
        BY <1>2 DEF NameBytes, PatternBytes
    <2> QED
        BY <1>1, <2>1 DEF NameCosts, PatternCosts
<1>8. IgnoredCosts \in Seq(Nat) /\ Len(IgnoredCosts) = Ignoreds
    BY <1>1, <1>3 DEF IgnoredCosts, IgnoredBytes
<1>9. TokenCosts \in Seq(Nat) /\ Len(TokenCosts) = Givens
    BY <1>4, <1>5 DEF TokenCosts
<1> QED
    BY <1>1, <1>2, <1>3, <1>4, <1>5, <1>6, <1>7, <1>8, <1>9

(* The totals of a grammar and of a vocabulary, as sums of what is counted   *)
(* of each item.                                                             *)
LEMMA TotalsAreSums ==
    ASSUME SourceTyped, ManifestTyped
    PROVE  /\ TotalOf(source.terminals, NameBytes) = SumTo(NameCosts, Terminals)
           /\ TotalOf(source.terminals, PatternBytes) = SumTo(PatternCosts, Terminals)
           /\ TotalOf(source.ignored, IgnoredBytes) = SumTo(IgnoredCosts, NameCount - Terminals)
           /\ TokenBytes = SumTo(TokenCosts, Givens)
<1>1. DOMAIN source.terminals = 1..Terminals /\ DOMAIN source.ignored = 1..Ignoreds
    BY DEF SourceTyped, Terminals, Ignoreds
<1>2. DOMAIN Given = 1..Givens
    BY GivenTyped DEF Givens
<1>3. TotalOf(source.terminals, NameBytes) = SumTo(NameCosts, Terminals)
    BY <1>1, CostsTyped, TotalOfNames DEF NameCosts, Terminals
<1>4. TotalOf(source.terminals, PatternBytes) = SumTo(PatternCosts, Terminals)
    BY <1>1, CostsTyped, TotalOfPatterns DEF PatternCosts, Terminals
<1>5. TotalOf(source.ignored, IgnoredBytes) = SumTo(IgnoredCosts, NameCount - Terminals)
    BY <1>1, CostsTyped, TotalOfIgnored DEF IgnoredCosts, Ignoreds
<1>6. TokenBytes = SumTo(TokenCosts, Givens)
    BY <1>2, CostsTyped, TotalOfTokens DEF TokenCosts, TokenBytes, Givens
<1> QED
    BY <1>3, <1>4, <1>5, <1>6
-----------------------------------------------------------------------------
(* What has been counted after n items: terminals, then ignored names, then  *)
(* tokens.                                                                   *)
LEMMA CountsAreNumbers ==
    ASSUME SourceTyped, ManifestTyped, NEW n \in Nat
    PROVE  /\ SourceAt(n) \in Nat /\ RegexAt(n) \in Nat
           /\ n <= NameCount + Givens => TokensAt(n) \in Nat
<1>1. /\ \A k \in 0..Terminals : SumTo(NameCosts, k) \in Nat /\ SumTo(PatternCosts, k) \in Nat
      /\ \A k \in 0..Ignoreds : SumTo(IgnoredCosts, k) \in Nat
      /\ \A k \in 0..Givens : SumTo(TokenCosts, k) \in Nat
    BY CostsTyped, SumsRun
<1>2. /\ Terminals \in Nat /\ NameCount \in Nat /\ Terminals <= NameCount
      /\ NameCount - Terminals = Ignoreds
      /\ TextBytes \in Nat /\ Givens \in Nat
    BY CostsTyped
<1>3. Lesser(n, Terminals) \in 0..Terminals
    BY <1>2 DEF Lesser
<1>4. n > Terminals => Lesser(n, NameCount) - Terminals \in 0..Ignoreds
    BY <1>2 DEF Lesser
<1>5. n > NameCount /\ n <= NameCount + Givens => n - NameCount \in 0..Givens
    BY <1>2
<1>6. SourceAt(n) \in Nat
    <2>1. SumTo(NameCosts, Lesser(n, Terminals)) \in Nat
        BY <1>1, <1>3
    <2>2. (IF n <= Terminals THEN 0 ELSE SumTo(IgnoredCosts, Lesser(n, NameCount) - Terminals)) \in Nat
        BY <1>1, <1>2, <1>4
    <2>3. \A a, b, c \in Nat : a + b + c \in Nat
        OBVIOUS
    <2> QED
        BY <1>2, <2>1, <2>2, <2>3, Zenon DEF SourceAt
<1>7. RegexAt(n) \in Nat
    BY <1>1, <1>3 DEF RegexAt
<1>8. n <= NameCount + Givens => TokensAt(n) \in Nat
    BY <1>1, <1>2, <1>5 DEF TokensAt
<1> QED
    BY <1>6, <1>7, <1>8

(* One more item counts what it weighs, and nothing of the others.           *)
LEMMA CountTerminal ==
    ASSUME SourceTyped, ManifestTyped, NEW n \in Nat, n + 1 <= Terminals
    PROVE  /\ SourceAt(n + 1) = SourceAt(n) + NameBytes(source.terminals[n + 1])
           /\ RegexAt(n + 1) = RegexAt(n) + PatternBytes(source.terminals[n + 1])
           /\ TokensAt(n + 1) = TokensAt(n)
           /\ NameBytes(source.terminals[n + 1]) \in Nat
           /\ PatternBytes(source.terminals[n + 1]) \in Nat
<1>1. /\ Terminals \in Nat /\ NameCount \in Nat /\ Terminals <= NameCount /\ TextBytes \in Nat
      /\ NameCosts \in Seq(Nat) /\ Len(NameCosts) = Terminals
      /\ PatternCosts \in Seq(Nat) /\ Len(PatternCosts) = Terminals
    BY CostsTyped
<1>2. n \in 0..Terminals /\ n + 1 \in 1..Terminals /\ (n + 1) - 1 = n
    BY <1>1
<1>3. /\ NameCosts[n + 1] = NameBytes(source.terminals[n + 1])
      /\ PatternCosts[n + 1] = PatternBytes(source.terminals[n + 1])
    BY <1>2 DEF NameCosts, PatternCosts
<1>4. NameCosts[n + 1] \in Nat /\ PatternCosts[n + 1] \in Nat
    BY <1>1, <1>2, ElementOfList, Zenon
<1>5. /\ SumTo(NameCosts, n + 1) = SumTo(NameCosts, n) + NameCosts[n + 1]
      /\ SumTo(NameCosts, n) \in Nat
    BY <1>1, <1>2, SumsRun
<1>6. /\ SumTo(PatternCosts, n + 1) = SumTo(PatternCosts, n) + PatternCosts[n + 1]
      /\ SumTo(PatternCosts, n) \in Nat
    BY <1>1, <1>2, SumsRun
<1>7. Lesser(n, Terminals) = n /\ Lesser(n + 1, Terminals) = n + 1
    BY <1>1, <1>2 DEF Lesser
<1>8. SourceAt(n + 1) = SourceAt(n) + NameCosts[n + 1]
    BY <1>1, <1>2, <1>4, <1>5, <1>7 DEF SourceAt
<1>9. TokensAt(n + 1) = TokensAt(n)
    BY <1>1, <1>2 DEF TokensAt
<1> QED
    BY <1>3, <1>4, <1>6, <1>7, <1>8, <1>9 DEF RegexAt

LEMMA CountIgnored ==
    ASSUME SourceTyped, ManifestTyped, NEW n \in Nat, n + 1 <= NameCount, n + 1 > Terminals
    PROVE  /\ n + 1 - Terminals \in 1..Ignoreds
           /\ SourceAt(n + 1) = SourceAt(n) + SizeOf[source.ignored[n + 1 - Terminals]]
           /\ RegexAt(n + 1) = RegexAt(n)
           /\ TokensAt(n + 1) = TokensAt(n)
           /\ SizeOf[source.ignored[n + 1 - Terminals]] \in Nat
<1> DEFINE i == n + 1 - Terminals
<1>1. /\ Terminals \in Nat /\ NameCount \in Nat /\ Terminals <= NameCount /\ TextBytes \in Nat
      /\ IgnoredCosts \in Seq(Nat) /\ Len(IgnoredCosts) = Ignoreds /\ Ignoreds \in Nat
      /\ NameCount - Terminals = Ignoreds
      /\ NameCosts \in Seq(Nat) /\ Len(NameCosts) = Terminals
    BY CostsTyped
<1>2. i \in 1..Ignoreds /\ i - 1 \in 0..Ignoreds /\ i - 1 = n - Terminals
    BY <1>1
<1>3. IgnoredCosts[i] = SizeOf[source.ignored[i]]
    BY <1>2 DEF IgnoredCosts, IgnoredBytes
<1>4. IgnoredCosts[i] \in Nat
    BY <1>1, <1>2, ElementOfList, Zenon
<1>5. /\ SumTo(IgnoredCosts, i) = SumTo(IgnoredCosts, i - 1) + IgnoredCosts[i]
      /\ SumTo(IgnoredCosts, i - 1) \in Nat
    BY <1>1, <1>2, SumsRun
<1>6. SumTo(IgnoredCosts, 0) = 0
    BY <1>1, SumsRun
<1>7. SumTo(NameCosts, Terminals) \in Nat
    BY <1>1, SumsRun
<1>8. Lesser(n, Terminals) = Terminals /\ Lesser(n + 1, Terminals) = Terminals
    BY <1>1, <1>2 DEF Lesser
<1>9. Lesser(n, NameCount) = n /\ Lesser(n + 1, NameCount) = n + 1
    BY <1>1, <1>2 DEF Lesser
<1>10. SourceAt(n + 1) = TextBytes + SumTo(NameCosts, Terminals) + SumTo(IgnoredCosts, i)
    BY <1>1, <1>8, <1>9 DEF SourceAt
<1>11. SourceAt(n) = TextBytes + SumTo(NameCosts, Terminals) + SumTo(IgnoredCosts, i - 1)
    <2>1. CASE n = Terminals
        <3>1. i - 1 = 0
            BY <2>1, <1>1
        <3> QED
            BY <1>1, <1>6, <1>7, <1>8, <2>1, <3>1 DEF SourceAt
    <2>2. CASE n > Terminals
        BY <1>1, <1>2, <1>8, <1>9, <2>2 DEF SourceAt
    <2> QED
        BY <1>1, <2>1, <2>2
<1>12. TokensAt(n + 1) = TokensAt(n)
    BY <1>1, <1>2 DEF TokensAt
<1> HIDE DEF i
<1>13. SourceAt(n + 1) = SourceAt(n) + IgnoredCosts[i]
    BY <1>1, <1>4, <1>5, <1>7, <1>10, <1>11
<1>14. RegexAt(n + 1) = RegexAt(n)
    BY <1>8 DEF RegexAt
<1> QED
    BY <1>2, <1>3, <1>4, <1>12, <1>13, <1>14 DEF i

LEMMA CountToken ==
    ASSUME SourceTyped, ManifestTyped, NEW n \in Nat, n + 1 > NameCount, n + 1 <= NameCount + Givens
    PROVE  /\ n + 1 - NameCount \in 1..Givens
           /\ SourceAt(n + 1) = SourceAt(n) /\ RegexAt(n + 1) = RegexAt(n)
           /\ TokensAt(n + 1) = TokensAt(n) + Weight(Given[n + 1 - NameCount])
           /\ Weight(Given[n + 1 - NameCount]) \in Nat
<1> DEFINE i == n + 1 - NameCount
<1>1. /\ Terminals \in Nat /\ NameCount \in Nat /\ Terminals <= NameCount /\ TextBytes \in Nat
      /\ TokenCosts \in Seq(Nat) /\ Len(TokenCosts) = Givens /\ Givens \in Nat
      /\ NameCosts \in Seq(Nat) /\ Len(NameCosts) = Terminals
      /\ IgnoredCosts \in Seq(Nat)
    BY CostsTyped
<1>2. i \in 1..Givens /\ i - 1 \in 0..Givens /\ i - 1 = n - NameCount
    BY <1>1
<1>3. TokenCosts[i] = Weight(Given[i])
    BY <1>2 DEF TokenCosts
<1>4. TokenCosts[i] \in Nat
    BY <1>1, <1>2, ElementOfList, Zenon
<1>5. SumTo(TokenCosts, i) = SumTo(TokenCosts, i - 1) + TokenCosts[i] /\ SumTo(TokenCosts, 0) = 0
    BY <1>1, <1>2, SumsRun
<1>6. Lesser(n, Terminals) = Terminals /\ Lesser(n + 1, Terminals) = Terminals
    BY <1>1, <1>2 DEF Lesser
<1>7. Lesser(n, NameCount) = NameCount /\ Lesser(n + 1, NameCount) = NameCount
    BY <1>1, <1>2 DEF Lesser
<1>8. SourceAt(n + 1) = SourceAt(n)
    <2>1. CASE n > Terminals
        BY <1>1, <1>6, <1>7, <2>1 DEF SourceAt
    <2>2. CASE n <= Terminals
        <3>1. n = Terminals /\ NameCount = Terminals
            BY <1>1, <2>2
        <3>2. /\ SumTo(IgnoredCosts, NameCount - Terminals) = 0
              /\ SumTo(NameCosts, Terminals) \in Nat
            BY <1>1, <3>1, SumsRun
        <3> QED
            BY <1>1, <1>6, <1>7, <3>1, <3>2 DEF SourceAt
    <2> QED
        BY <1>1, <2>1, <2>2
<1>9. TokensAt(n + 1) = SumTo(TokenCosts, i)
    BY <1>1 DEF TokensAt
<1>10. TokensAt(n) = SumTo(TokenCosts, i - 1)
    <2>1. CASE n = NameCount
        <3>1. i - 1 = 0
            BY <2>1, <1>1
        <3> QED
            BY <1>1, <1>5, <2>1, <3>1 DEF TokensAt
    <2>2. CASE n > NameCount
        BY <1>1, <1>2, <2>2 DEF TokensAt
    <2> QED
        BY <1>1, <2>1, <2>2
<1>11. RegexAt(n + 1) = RegexAt(n)
    BY <1>6 DEF RegexAt
<1> HIDE DEF i
<1> QED
    BY <1>2, <1>3, <1>4, <1>5, <1>8, <1>9, <1>10, <1>11 DEF i
-----------------------------------------------------------------------------
SourceTotal ==
    TextBytes + TotalOf(source.terminals, NameBytes) + TotalOf(source.ignored, IgnoredBytes)
RegexTotal == TotalOf(source.terminals, PatternBytes)

(* Nothing is counted at the start but the text of the grammar; what is      *)
(* counted never exceeds the total, and is the total at the end.             *)
LEMMA CountsStart ==
    ASSUME SourceTyped, ManifestTyped
    PROVE  SourceAt(0) = TextBytes /\ RegexAt(0) = 0 /\ TokensAt(0) = 0
<1>1. /\ Terminals \in Nat /\ NameCount \in Nat /\ TextBytes \in Nat
      /\ NameCosts \in Seq(Nat) /\ PatternCosts \in Seq(Nat)
    BY CostsTyped
<1>2. SumTo(NameCosts, 0) = 0 /\ SumTo(PatternCosts, 0) = 0
    BY <1>1, SumsRun
<1>3. Lesser(0, Terminals) = 0 /\ 0 <= Terminals /\ 0 <= NameCount
    BY <1>1 DEF Lesser
<1>4. SourceAt(0) = TextBytes
    BY <1>1, <1>2, <1>3 DEF SourceAt
<1> QED
    BY <1>2, <1>3, <1>4 DEF RegexAt, TokensAt

LEMMA CountsGrow ==
    ASSUME SourceTyped, ManifestTyped, NEW n \in Nat
    PROVE  /\ SourceTotal \in Nat /\ RegexTotal \in Nat /\ TokenBytes \in Nat
           /\ SourceAt(n) <= SourceTotal /\ RegexAt(n) <= RegexTotal
           /\ n <= NameCount + Givens => TokensAt(n) <= TokenBytes
<1> DEFINE names == SumTo(NameCosts, Terminals)
           ignoring == SumTo(IgnoredCosts, NameCount - Terminals)
           patterns == SumTo(PatternCosts, Terminals)
<1>1. /\ Terminals \in Nat /\ NameCount \in Nat /\ Terminals <= NameCount /\ TextBytes \in Nat
      /\ NameCount - Terminals = Ignoreds /\ Ignoreds \in Nat /\ Givens \in Nat
      /\ NameCosts \in Seq(Nat) /\ Len(NameCosts) = Terminals
      /\ PatternCosts \in Seq(Nat) /\ Len(PatternCosts) = Terminals
      /\ IgnoredCosts \in Seq(Nat) /\ Len(IgnoredCosts) = Ignoreds
      /\ TokenCosts \in Seq(Nat) /\ Len(TokenCosts) = Givens
    BY CostsTyped
<1>2. /\ SourceTotal = TextBytes + names + ignoring /\ RegexTotal = patterns
      /\ TokenBytes = SumTo(TokenCosts, Givens)
    BY TotalsAreSums DEF SourceTotal, RegexTotal
<1>3. Terminals \in 0..Terminals /\ NameCount - Terminals \in 0..Ignoreds /\ Givens \in 0..Givens
    BY <1>1
<1>4. names \in Nat /\ ignoring \in Nat /\ patterns \in Nat /\ SumTo(TokenCosts, Givens) \in Nat
    BY <1>1, <1>3, SumsRun
<1>5. Lesser(n, Terminals) \in 0..Terminals
    BY <1>1 DEF Lesser
<1>6. /\ SumTo(NameCosts, Lesser(n, Terminals)) <= names
      /\ SumTo(PatternCosts, Lesser(n, Terminals)) <= patterns
      /\ SumTo(NameCosts, Lesser(n, Terminals)) \in Nat
      /\ SumTo(PatternCosts, Lesser(n, Terminals)) \in Nat
    BY <1>1, <1>3, <1>5, SumsGrow, SumsRun
<1>7. /\ (IF n <= Terminals THEN 0 ELSE SumTo(IgnoredCosts, Lesser(n, NameCount) - Terminals)) <= ignoring
      /\ (IF n <= Terminals THEN 0 ELSE SumTo(IgnoredCosts, Lesser(n, NameCount) - Terminals)) \in Nat
    <2>1. CASE n <= Terminals
        BY <1>4, <2>1
    <2>2. CASE n > Terminals
        <3>1. Lesser(n, NameCount) - Terminals \in 0..Ignoreds
            BY <1>1, <2>2 DEF Lesser
        <3>2. Lesser(n, NameCount) - Terminals <= NameCount - Terminals
            BY <1>1 DEF Lesser
        <3>3. SumTo(IgnoredCosts, Lesser(n, NameCount) - Terminals) <= ignoring
            BY <1>1, <1>3, <3>1, <3>2, SumsGrow
        <3>4. SumTo(IgnoredCosts, Lesser(n, NameCount) - Terminals) \in Nat
            BY <1>1, <3>1, SumsRun
        <3>5. ~(n <= Terminals)
            BY <1>1, <2>2
        <3> QED
            BY <3>3, <3>4, <3>5
    <2> QED
        BY <1>1, <2>1, <2>2
<1>8. n <= NameCount + Givens => TokensAt(n) <= TokenBytes
    <2> HAVE n <= NameCount + Givens
    <2>1. CASE n <= NameCount
        BY <1>2, <1>4, <2>1 DEF TokensAt
    <2>2. CASE n > NameCount
        <3>1. n - NameCount \in 0..Givens /\ n - NameCount <= Givens /\ ~(n <= NameCount)
            BY <1>1, <2>2
        <3>2. SumTo(TokenCosts, n - NameCount) <= SumTo(TokenCosts, Givens)
            BY <1>1, <1>3, <3>1, SumsGrow
        <3> QED
            BY <1>2, <3>1, <3>2 DEF TokensAt
    <2> QED
        BY <1>1, <2>1, <2>2
<1>9. SourceAt(n) <= SourceTotal
    <2>1. \A a, b, c, d, e \in Nat : b <= d /\ c <= e => a + b + c <= a + d + e
        OBVIOUS
    <2> HIDE DEF names, ignoring
    <2> QED
        BY <1>1, <1>2, <1>4, <1>6, <1>7, <2>1, Zenon DEF SourceAt
<1>10. RegexAt(n) <= RegexTotal
    BY <1>2, <1>6 DEF RegexAt
<1>11. SourceTotal \in Nat
    <2> HIDE DEF names, ignoring
    <2> QED
        BY <1>1, <1>2, <1>4
<1> QED
    BY <1>2, <1>4, <1>8, <1>9, <1>10, <1>11

LEMMA CountsEnd ==
    ASSUME SourceTyped, ManifestTyped, NEW n \in Nat, NameCount <= n
    PROVE  /\ SourceAt(n) = SourceTotal /\ RegexAt(n) = RegexTotal
           /\ n = NameCount + Givens => TokensAt(n) = TokenBytes
<1>1. /\ Terminals \in Nat /\ NameCount \in Nat /\ Terminals <= NameCount /\ TextBytes \in Nat
      /\ NameCount - Terminals = Ignoreds /\ Givens \in Nat
      /\ NameCosts \in Seq(Nat) /\ Len(NameCosts) = Terminals
      /\ IgnoredCosts \in Seq(Nat) /\ TokenCosts \in Seq(Nat)
    BY CostsTyped
<1>2. /\ SourceTotal = TextBytes + SumTo(NameCosts, Terminals) + SumTo(IgnoredCosts, NameCount - Terminals)
      /\ RegexTotal = SumTo(PatternCosts, Terminals) /\ TokenBytes = SumTo(TokenCosts, Givens)
    BY TotalsAreSums DEF SourceTotal, RegexTotal
<1>3. Lesser(n, Terminals) = Terminals /\ Lesser(n, NameCount) = NameCount
    BY <1>1 DEF Lesser
<1>4. RegexAt(n) = RegexTotal
    BY <1>2, <1>3 DEF RegexAt
<1>5. SourceAt(n) = SourceTotal
    <2>1. CASE n > Terminals
        <3>1. ~(n <= Terminals)
            BY <1>1, <2>1
        <3> QED
            BY <1>2, <1>3, <3>1 DEF SourceAt
    <2>2. CASE n <= Terminals
        <3>1. NameCount - Terminals = 0
            BY <1>1, <2>2
        <3>2. SumTo(IgnoredCosts, 0) = 0
            BY <1>1, SumsRun
        <3> QED
            BY <1>2, <1>3, <2>2, <3>1, <3>2 DEF SourceAt
    <2> QED
        BY <1>1, <2>1, <2>2
<1>6. n = NameCount + Givens => TokensAt(n) = TokenBytes
    <2> HAVE n = NameCount + Givens
    <2>1. CASE n <= NameCount
        <3>1. Givens = 0
            BY <1>1, <2>1
        <3>2. SumTo(TokenCosts, 0) = 0
            BY <1>1, SumsRun
        <3> QED
            BY <1>2, <2>1, <3>1, <3>2 DEF TokensAt
    <2>2. CASE n > NameCount
        <3>1. ~(n <= NameCount) /\ n - NameCount = Givens
            BY <1>1, <2>2
        <3> QED
            BY <1>2, <3>1 DEF TokensAt
    <2> QED
        BY <1>1, <2>1, <2>2
<1> QED
    BY <1>4, <1>5, <1>6

(* What fits is what is within each limit.                                   *)
LEMMA FittingIsWithin ==
    ASSUME SourceTyped
    PROVE  /\ Fits <=> /\ SourceTotal <= MaxSourceBytes /\ RegexTotal <= MaxRegexBytes
                       /\ Terminals <= MaxTerminalSpecs /\ Ignoreds <= MaxIgnoredTerminals
                       /\ Givens <= MaxTokens /\ TokenBytes <= MaxTokenBytes
           /\ {MaxSourceBytes, MaxRegexBytes, MaxTerminalSpecs, MaxIgnoredTerminals, MaxTokens, MaxTokenBytes,
               MaxRegexFuel, BaseCost, LexemeCost, RelevanceCost, PrefixBytes} \subseteq Nat
BY CompileAssumption DEF Fits, SourceTotal, RegexTotal, Terminals, Ignoreds, Givens
-----------------------------------------------------------------------------
(* What the layers have come to.  A layer is at work only after every layer  *)
(* before it let everything through.                                         *)
Later == {"yacc", "specs", "ignored", "regexes", "aliases", "export", "validate", "prepare", "compiled"}
StepsOf(which) ==
    IF which = "facade" THEN {"inputs", "grammar", "terminals"}
    ELSE IF which = "native" THEN {"grammar", "terminals"} ELSE {"limits"} \cup Later
Fresh == layer = entry /\ verdict = "none" /\ step \in {"inputs", "grammar", "limits"}

LayersTyped ==
    /\ origin \in {"transformers", "json", "given"}
    /\ origin # "given" => entry = "facade"
    /\ entry \in {"facade", "native", "rust"} /\ layer \in {"facade", "native", "rust"}
    /\ layer = "facade" => entry = "facade"
    /\ layer = "native" => entry # "rust"
    /\ step \in {"refused"} \cup StepsOf(layer)
    /\ step # "refused" => verdict = "none"
    /\ index \in Nat \ {0}
    /\ counted \in [{"source", "regex", "tokens"} -> Nat]
    /\ IF source = NoSource THEN Fresh ELSE SourceTyped /\ ManifestTyped
    /\ phase # "none" => source = NoSource /\ step = "inputs"

ManifestGood ==
    LET size == Len(manifest.token_bytes)
    IN /\ size > 0 /\ size <= MaxTokens
       /\ manifest.eos_token_ids # {} /\ manifest.eos_token_ids \subseteq 0..(size - 1)
       /\ Cardinality(manifest.eos_token_ids) # size
       /\ <<>> \notin Elements(Given) /\ TokenBytes <= MaxTokenBytes

Measured ==
    step = "terminals" =>
      /\ counted.source = SourceAt(index - 1) /\ counted.regex = RegexAt(index - 1)
      /\ counted.source <= MaxSourceBytes /\ counted.regex <= MaxRegexBytes
      /\ layer = "facade" =>
           /\ index - 1 <= NameCount
           /\ Lesser(index - 1, Terminals) <= MaxTerminalSpecs
           /\ index - 1 - Terminals <= MaxIgnoredTerminals
      /\ layer = "native" =>
           /\ index - 1 <= NameCount + Givens
           /\ counted.tokens = TokensAt(index - 1) /\ counted.tokens <= MaxTokenBytes
           /\ Terminals <= MaxTerminalSpecs /\ Ignoreds <= MaxIgnoredTerminals
           /\ Givens <= MaxTokens

Admitted ==
    /\ layer # entry \/ step \in Later => Fits
    /\ entry = "facade" /\ step \notin {"inputs", "refused"} => ManifestGood
    /\ origin = "transformers" /\ source # NoSource => ManifestGood

RefusedRightly ==
    /\ verdict = "too_large" => layer = entry /\ ~Fits
    /\ verdict = "tokenizer" => origin # "transformers" /\ (entry = "facade" => layer = "facade")

LayersInv == LayersTyped /\ Measured /\ Admitted /\ RefusedRightly
-----------------------------------------------------------------------------
(* A layer leaves its inputs as they are.                                    *)
LEMMA SameInputs ==
    ASSUME UNCHANGED <<entry, source, manifest>>
    PROVE  /\ SourceTyped' = SourceTyped /\ ManifestTyped' = ManifestTyped
           /\ Fits' = Fits /\ ManifestGood' = ManifestGood
           /\ NameCount' = NameCount /\ Terminals' = Terminals /\ Ignoreds' = Ignoreds
           /\ Givens' = Givens
           /\ Given' = Given /\ TextBytes' = TextBytes
<1>1. /\ Given' = Given /\ TextBytes' = TextBytes /\ NameCount' = NameCount
      /\ Terminals' = Terminals
      /\ Ignoreds' = Ignoreds /\ Givens' = Givens
    BY DEF Given, TextBytes, NameCount, Terminals, Ignoreds, Givens
<1>2. TokenBytes' = TokenBytes
    BY <1>1 DEF TokenBytes
<1>3. SourceTyped' = SourceTyped
    BY DEF SourceTyped
<1>4. ManifestTyped' = ManifestTyped
    BY DEF ManifestTyped
<1>5. Fits' = Fits
    BY <1>1, <1>2 DEF Fits
<1>6. ManifestGood' = ManifestGood
    BY <1>1, <1>2 DEF ManifestGood
<1> QED
    BY <1>1, <1>3, <1>4, <1>5, <1>6

LEMMA CountsKept ==
    ASSUME UNCHANGED <<entry, source, manifest>>, NEW n, index' - 1 = n
    PROVE  /\ SourceAt(index - 1)' = SourceAt(n) /\ RegexAt(index - 1)' = RegexAt(n)
           /\ TokensAt(index - 1)' = TokensAt(n)
<1>1. /\ NameCosts' = NameCosts /\ PatternCosts' = PatternCosts
      /\ IgnoredCosts' = IgnoredCosts /\ TokenCosts' = TokenCosts
    BY SameInputs DEF NameCosts, PatternCosts, IgnoredCosts, TokenCosts, Terminals
<1> QED
    BY <1>1, SameInputs DEF SourceAt, RegexAt, TokensAt

(* A refusal keeps the invariant when it is justified; a step of the stages  *)
(* past the limits keeps it whether it passes or refuses.                    *)
LEMMA RefusalKeepsLayers ==
    ASSUME LayersInv, source # NoSource, UNCHANGED <<importVars, origin>>, NEW tests, Fails(tests),
           FirstFailure(tests) = "too_large" => layer = entry /\ ~Fits,
           FirstFailure(tests) = "tokenizer" => origin # "transformers" /\ (entry = "facade" => layer = "facade")
    PROVE  LayersInv'
<1>1. /\ step' = "refused" /\ verdict' = FirstFailure(tests)
      /\ UNCHANGED <<entry, source, manifest, layer, index, counted, origin, phase>>
    BY DEF Fails, importVars
<1>2. phase = "none"
    BY DEF LayersInv, LayersTyped
<1>3. LayersTyped'
    BY <1>1, <1>2, SameInputs DEF LayersInv, LayersTyped
<1>4. Measured'
    BY <1>1 DEF Measured
<1>5. Admitted'
    BY <1>1, SameInputs DEF LayersInv, Admitted, Later
<1>6. RefusedRightly'
    BY <1>1, SameInputs DEF RefusedRightly
<1> QED
    BY <1>3, <1>4, <1>5, <1>6 DEF LayersInv

LEMMA LaterStepKeepsLayers ==
    ASSUME LayersInv, source # NoSource, UNCHANGED <<importVars, origin>>, step \in Later,
           NEW tests, NEW next \in Later, NEW i \in Nat \ {0},
           \/ Passes(tests, next, i) /\ UNCHANGED <<layer, counted>>
           \/ Fails(tests) /\ FirstFailure(tests) \notin {"too_large", "tokenizer"}
    PROVE  LayersInv'
<1>1. CASE Fails(tests) /\ FirstFailure(tests) \notin {"too_large", "tokenizer"}
    BY <1>1, RefusalKeepsLayers
<1>2. CASE Passes(tests, next, i) /\ UNCHANGED <<layer, counted>>
    <2>1. /\ step' = next /\ index' = i
          /\ UNCHANGED <<entry, source, manifest, layer, verdict, counted, origin, phase>>
        BY <1>2 DEF Passes, importVars
    <2>2. phase = "none" /\ layer = "rust" /\ verdict = "none"
        BY DEF LayersInv, LayersTyped, StepsOf, Later
    <2>3. LayersTyped'
        BY <2>1, <2>2, SameInputs DEF LayersInv, LayersTyped, StepsOf, Later
    <2>4. Measured'
        BY <2>1 DEF Measured, Later
    <2>5. Admitted'
        BY <2>1, SameInputs DEF LayersInv, Admitted, Later
    <2>6. RefusedRightly'
        BY <2>1, <2>2 DEF RefusedRightly
    <2> QED
        BY <2>3, <2>4, <2>5, <2>6 DEF LayersInv
<1> QED
    BY <1>1, <1>2

(* The other stages of a layer.                                              *)
LEMMA CountingKeepsLayers ==
    ASSUME LayersInv, source # NoSource, UNCHANGED <<importVars, origin>>, step # "refused",
           NEW tests, NEW next, next \in StepsOf(layer), NEW i \in Nat \ {0}, NEW count \in [{"source", "regex", "tokens"} -> Nat],
           Passes(tests, next, i), counted' = count, UNCHANGED layer, Measured',
           next \in Later => Fits,
           entry = "facade" /\ next # "inputs" => ManifestGood
    PROVE  LayersInv'
<1>1. /\ step' = next /\ index' = i /\ counted' = count
      /\ UNCHANGED <<entry, source, manifest, layer, verdict, origin, phase>>
    BY DEF Passes, importVars
<1>2. phase = "none" /\ verdict = "none"
    BY DEF LayersInv, LayersTyped
<1>3. LayersTyped'
    BY <1>1, <1>2, SameInputs DEF LayersInv, LayersTyped, StepsOf
<1>4. Admitted'
    BY <1>1, SameInputs DEF LayersInv, Admitted
<1>5. RefusedRightly'
    BY <1>1, <1>2 DEF RefusedRightly
<1> QED
    BY <1>3, <1>4, <1>5 DEF LayersInv
-----------------------------------------------------------------------------
(* The numbers of items.                                                     *)
LEMMA SizesOfGiven ==
    ASSUME SourceTyped, ManifestTyped
    PROVE  /\ NameCount = Terminals + Ignoreds
           /\ Terminals \in Nat /\ Ignoreds \in Nat /\ NameCount \in Nat
           /\ Givens = Len(manifest.token_bytes) /\ Givens \in Nat
BY CostsTyped, GivenTyped DEF NameCount, Givens

LEMMA FailingTest ==
    ASSUME NEW tests, NEW n \in Nat, Len(tests) = n, Fails(tests)
    PROVE  /\ verdict' = FirstFailure(tests)
           /\ \E i \in 1..n : /\ ~tests[i].holds /\ FirstFailure(tests) = tests[i].why
                            /\ \A j \in 1..(i - 1) : tests[j].holds
<1>1. ~Holds(tests) /\ verdict' = FirstFailure(tests)
    BY DEF Fails
<1> QED
    BY <1>1, FailsFirst

(* The facade: its inputs, its text, and its terminals one by one.           *)
LEMMA MakeInputsKeepsLayers ==
    ASSUME LayersInv, source # NoSource, UNCHANGED <<importVars, origin>>, MakeInputs
    PROVE  LayersInv'
<1> DEFINE size == Len(manifest.token_bytes)
           tests ==
             << Test(size > 0, "tokenizer"), Test(size <= MaxTokens, "too_large"),
                Test(manifest.eos_token_ids # {}, "tokenizer"),
                Test(manifest.eos_token_ids \subseteq 0..(size - 1), "tokenizer"),
                Test(Cardinality(manifest.eos_token_ids) # size, "tokenizer"),
                Test(<<>> \notin Elements(Given), "tokenizer"),
                Test(TokenBytes <= MaxTokenBytes, "too_large"),
                Test(\A t \in Elements(source.terminals) : t.name \in Identifiers, "configuration") >>
<1>1. step = "inputs" /\ layer = "facade" /\ Counting(tests, "grammar", 1, counted)
    BY DEF MakeInputs
<1>2. Len(tests) = 8
    OBVIOUS
<1>3. /\ tests[1].holds <=> (size > 0)
      /\ tests[2].holds <=> (size <= MaxTokens)
      /\ tests[3].holds <=> (manifest.eos_token_ids # {})
      /\ tests[4].holds <=> (manifest.eos_token_ids \subseteq 0..(size - 1))
      /\ tests[5].holds <=> (Cardinality(manifest.eos_token_ids) # size)
      /\ tests[6].holds <=> (<<>> \notin Elements(Given))
      /\ tests[7].holds <=> (TokenBytes <= MaxTokenBytes)
      /\ tests[2].why = "too_large" /\ tests[7].why = "too_large"
      /\ tests[8].why = "configuration"
      /\ tests[1].why = "tokenizer" /\ tests[3].why = "tokenizer" /\ tests[4].why = "tokenizer"
      /\ tests[5].why = "tokenizer" /\ tests[6].why = "tokenizer"
    BY DEF Test
<1>4. /\ entry = "facade" /\ SourceTyped /\ ManifestTyped
      /\ counted \in [{"source", "regex", "tokens"} -> Nat]
    BY <1>1 DEF LayersInv, LayersTyped
<1>5. size = Givens
    BY <1>4, SizesOfGiven
<1> HIDE DEF tests
<1>6. CASE Passes(tests, "grammar", 1) /\ counted' = counted /\ UNCHANGED <<layer, Resolution>>
    <2>1. \A i \in 1..8 : tests[i].holds
        BY <1>2, <1>6 DEF Passes, Holds
    <2>2. ManifestGood
        BY <1>3, <2>1 DEF ManifestGood
    <2>3. Measured'
        BY <1>6 DEF Passes, Measured
    <2>4. "grammar" \in StepsOf(layer) /\ "grammar" \notin Later
        BY <1>1 DEF StepsOf, Later
    <2> QED
        BY <1>1, <1>4, <1>6, <2>2, <2>3, <2>4, CountingKeepsLayers
<1>7. CASE Fails(tests)
    <2>1. 8 \in Nat
        OBVIOUS
    <2>2. PICK i \in 1..8 : ~tests[i].holds /\ FirstFailure(tests) = tests[i].why
        BY <1>2, <1>7, <2>1, FailingTest, Zenon
    <2>3. i \in {1, 2, 3, 4, 5, 6, 7, 8}
        OBVIOUS
    <2>4. FirstFailure(tests) = "too_large" => ~Fits
        <3>1. FirstFailure(tests) = "too_large" => i \in {2, 7}
            BY <1>3, <2>3, <2>2
        <3> QED
            BY <1>3, <1>5, <2>2, <3>1 DEF Fits, Givens
    <2>5. FirstFailure(tests) = "tokenizer" => origin # "transformers"
        <3>1. FirstFailure(tests) = "tokenizer" => i \in {1, 3, 4, 5, 6}
            BY <1>3, <2>3, <2>2
        <3>2. origin = "transformers" => ManifestGood
            BY DEF LayersInv, Admitted
        <3> QED
            BY <1>3, <2>2, <3>1, <3>2 DEF ManifestGood
    <2> QED
        BY <1>1, <1>4, <1>7, <2>4, <2>5, RefusalKeepsLayers
<1> QED
    BY <1>1, <1>6, <1>7 DEF Counting

LEMMA ReadGrammarKeepsLayers ==
    ASSUME LayersInv, source # NoSource, UNCHANGED <<importVars, origin>>, ReadGrammar
    PROVE  LayersInv'
<1> DEFINE tests ==
             << Test(source.utf8, "not_utf8"), Test(source.text <= MaxSourceBytes, "too_large"),
                Test(source.start \in {"absent", "declared"}, "start_rule"),
                Test(TextBytes <= MaxSourceBytes, "too_large") >>
           count == [Nothing EXCEPT !.source = TextBytes]
<1>1. step = "grammar" /\ layer = "facade" /\ Counting(tests, "terminals", 1, count)
    BY DEF ReadGrammar
<1>2. Len(tests) = 4
    OBVIOUS
<1>3. /\ tests[2].holds <=> (source.text <= MaxSourceBytes)
      /\ tests[4].holds <=> (TextBytes <= MaxSourceBytes)
      /\ tests[1].why = "not_utf8" /\ tests[3].why = "start_rule"
      /\ tests[2].why = "too_large" /\ tests[4].why = "too_large"
    BY DEF Test
<1>4. entry = "facade" /\ SourceTyped /\ ManifestTyped
    BY <1>1 DEF LayersInv, LayersTyped
<1>5. /\ SourceAt(0) = TextBytes /\ RegexAt(0) = 0 /\ TextBytes \in Nat
      /\ TextBytes <= SourceTotal /\ SourceTotal \in Nat
    BY <1>4, CountsStart, CountsGrow, CostsTyped
<1>6. /\ count.source = TextBytes /\ count.regex = 0
      /\ count \in [{"source", "regex", "tokens"} -> Nat]
    BY <1>5 DEF Nothing
<1>7. /\ MaxSourceBytes \in Nat /\ MaxRegexBytes \in Nat /\ MaxTerminalSpecs \in Nat
      /\ MaxIgnoredTerminals \in Nat
    BY CompileAssumption
<1> HIDE DEF tests, count
<1>8. CASE Passes(tests, "terminals", 1) /\ counted' = count /\ UNCHANGED <<layer, Resolution>>
    <2>1. TextBytes <= MaxSourceBytes
        BY <1>2, <1>3, <1>8 DEF Passes, Holds
    <2>2. Measured'
        <3>1. /\ step' = "terminals" /\ index' = 1 /\ counted' = count /\ layer' = "facade"
              /\ UNCHANGED <<entry, source, manifest>>
            BY <1>1, <1>8 DEF Passes
        <3>2. NameCount' = NameCount /\ Terminals' = Terminals
            BY <3>1, SameInputs
        <3>3. index' - 1 = 0
            BY <3>1
        <3>4. SourceAt(index - 1)' = SourceAt(0) /\ RegexAt(index - 1)' = RegexAt(0)
            BY <3>1, <3>3, CountsKept
        <3>5. Lesser(0, Terminals) = 0 /\ 0 - Terminals <= MaxIgnoredTerminals /\ 0 <= NameCount
            BY <1>4, <1>7, CostsTyped DEF Lesser
        <3> QED
            BY <1>5, <1>6, <1>7, <2>1, <3>1, <3>2, <3>5, <3>3, <3>4 DEF Measured
    <2>3. "terminals" \in StepsOf(layer) /\ "terminals" \notin Later
        BY <1>1 DEF StepsOf, Later
    <2>4. ManifestGood
        BY <1>1, <1>4 DEF LayersInv, Admitted
    <2> QED
        BY <1>1, <1>6, <1>8, <2>2, <2>3, <2>4, CountingKeepsLayers
<1>9. CASE Fails(tests)
    <2>1. 4 \in Nat
        OBVIOUS
    <2>2. PICK i \in 1..4 : ~tests[i].holds /\ FirstFailure(tests) = tests[i].why
        BY <1>2, <1>9, <2>1, FailingTest, Zenon
    <2>3. /\ i \in {1, 2, 3, 4} /\ FirstFailure(tests) # "tokenizer"
          /\ (FirstFailure(tests) = "too_large" => i \in {2, 4})
        BY <1>3, <2>2
    <2>4. FirstFailure(tests) = "too_large" => ~(source.text <= MaxSourceBytes) \/ ~(TextBytes <= MaxSourceBytes)
        BY <1>3, <2>2, <2>3
    <2>5. source.text <= TextBytes /\ source.text \in Nat
        <3>1. source.text \in Nat /\ PrefixBytes \in Nat
            BY <1>4, SizesTyped, CompileAssumption
        <3> QED
            BY <3>1 DEF TextBytes
    <2>6. FirstFailure(tests) = "too_large" => ~(SourceTotal <= MaxSourceBytes)
        BY <1>5, <1>7, <2>4, <2>5
    <2>7. FirstFailure(tests) = "too_large" => ~Fits
        BY <1>4, <2>6, FittingIsWithin
    <2> QED
        BY <1>1, <1>4, <1>9, <2>3, <2>7, RefusalKeepsLayers
<1> QED
    BY <1>1, <1>8, <1>9 DEF Counting
-----------------------------------------------------------------------------
LEMMA MeasureTerminalKeepsLayers ==
    ASSUME LayersInv, source # NoSource, UNCHANGED <<importVars, origin>>, MeasureTerminal
    PROVE  LayersInv'
<1> DEFINE t == source.terminals[index]
           n == index - 1
           source_left == MaxSourceBytes - counted.source - SizeOf[t.name]
           regex_left == MaxRegexBytes - counted.regex
           tests == << Test(index <= MaxTerminalSpecs, "too_large"), Test(source_left >= 0, "too_large"),
                       Test(PatternBytes(t) <= source_left /\ PatternBytes(t) <= regex_left, "too_large") >>
           count == [counted EXCEPT !.source = @ + NameBytes(t), !.regex = @ + PatternBytes(t)]
<1>1. /\ step = "terminals" /\ layer = "facade" /\ index <= Terminals
      /\ Counting(tests, "terminals", index + 1, count)
    BY DEF MeasureTerminal, Terminals
<1>2. Len(tests) = 3
    OBVIOUS
<1>3. /\ tests[1].holds <=> (index <= MaxTerminalSpecs)
      /\ tests[2].holds <=> (source_left >= 0)
      /\ tests[3].holds <=> (PatternBytes(t) <= source_left /\ PatternBytes(t) <= regex_left)
      /\ tests[1].why = "too_large" /\ tests[2].why = "too_large" /\ tests[3].why = "too_large"
    <2> HIDE DEF source_left, regex_left
    <2> QED
        BY DEF Test
<1>4. /\ entry = "facade" /\ SourceTyped /\ ManifestTyped
      /\ counted \in [{"source", "regex", "tokens"} -> Nat]
      /\ index \in Nat \ {0}
    BY <1>1 DEF LayersInv, LayersTyped
<1>5. counted.source = SourceAt(n) /\ counted.regex = RegexAt(n) /\ n <= NameCount
    BY <1>1 DEF LayersInv, Measured
<1>6. /\ n \in Nat /\ n + 1 = index /\ NameCount = Terminals + Ignoreds
      /\ Terminals \in Nat /\ Ignoreds \in Nat /\ n + 1 <= Terminals
    BY <1>1, <1>4, SizesOfGiven
<1>7. /\ MaxSourceBytes \in Nat /\ MaxRegexBytes \in Nat /\ MaxTerminalSpecs \in Nat
      /\ MaxIgnoredTerminals \in Nat
    BY CompileAssumption
<1>8. /\ SourceAt(index) = SourceAt(n) + NameBytes(t)
      /\ RegexAt(index) = RegexAt(n) + PatternBytes(t)
      /\ PatternBytes(t) \in Nat /\ NameBytes(t) \in Nat
    BY <1>4, <1>6, CountTerminal
<1>9. /\ SourceAt(index) <= SourceTotal /\ RegexAt(index) <= RegexTotal
      /\ SourceTotal \in Nat /\ RegexTotal \in Nat
      /\ SourceAt(n) \in Nat /\ RegexAt(n) \in Nat
    <2>1. index \in Nat
        BY <1>4
    <2>2. /\ SourceAt(index) <= SourceTotal /\ RegexAt(index) <= RegexTotal
          /\ SourceTotal \in Nat /\ RegexTotal \in Nat
        BY <1>4, <2>1, CountsGrow
    <2>3. SourceAt(n) \in Nat /\ RegexAt(n) \in Nat
        BY <1>4, <1>6, CountsAreNumbers
    <2> QED
        BY <2>2, <2>3
<1>10. NameBytes(t) = SizeOf[t.name] + PatternBytes(t) /\ SizeOf[t.name] \in Nat
    <2>1. index \in 1..Terminals
        BY <1>4, <1>6
    <2> QED
        BY <1>4, <2>1, CostsTyped DEF NameBytes, PatternBytes
<1>11. /\ count.source = SourceAt(index) /\ count.regex = RegexAt(index)
       /\ count \in [{"source", "regex", "tokens"} -> Nat]
    <2>1. /\ counted.source + NameBytes(t) = SourceAt(index)
          /\ counted.regex + PatternBytes(t) = RegexAt(index)
        BY <1>5, <1>8
    <2>2. SourceAt(index) \in Nat /\ RegexAt(index) \in Nat
        BY <1>8, <1>9
    <2> HIDE DEF t
    <2> QED
        BY <1>4, <2>1, <2>2
<1> HIDE DEF tests, count, t
<1>12. CASE /\ Passes(tests, "terminals", index + 1) /\ counted' = count
            /\ UNCHANGED <<layer, Resolution>>
    <2>1. Holds(tests)
        BY <1>12 DEF Passes
    <2>2. tests[1].holds /\ tests[2].holds /\ tests[3].holds
        BY <1>2, <2>1 DEF Holds
    <2>3. /\ index <= MaxTerminalSpecs /\ PatternBytes(t) <= source_left
          /\ PatternBytes(t) <= regex_left
        <3> HIDE DEF source_left, regex_left
        <3> QED
            BY <1>3, <2>2
    <2>4. SourceAt(index) <= MaxSourceBytes /\ RegexAt(index) <= MaxRegexBytes
        BY <1>5, <1>7, <1>8, <1>9, <1>10, <2>3
    <2>5. Measured'
        <3>1. /\ step' = "terminals" /\ index' = index + 1 /\ counted' = count
              /\ layer' = "facade"
              /\ UNCHANGED <<entry, source, manifest>>
            BY <1>1, <1>12 DEF Passes
        <3>2. NameCount' = NameCount /\ Terminals' = Terminals
            BY <3>1, SameInputs
        <3>3. index' - 1 = index
            BY <1>4, <3>1
        <3>4. SourceAt(index - 1)' = SourceAt(index) /\ RegexAt(index - 1)' = RegexAt(index)
            BY <3>1, <3>3, CountsKept
        <3>5. /\ Lesser(index, Terminals) = index
              /\ index - Terminals <= MaxIgnoredTerminals /\ index <= NameCount
            BY <1>4, <1>6, <1>7 DEF Lesser
        <3> QED
            BY <1>11, <2>3, <2>4, <3>1, <3>2, <3>3, <3>4, <3>5 DEF Measured
    <2>6. "terminals" \in StepsOf(layer) /\ "terminals" \notin Later
        BY <1>1 DEF StepsOf, Later
    <2>7. ManifestGood
        BY <1>1, <1>4 DEF LayersInv, Admitted
    <2>8. index + 1 \in Nat \ {0}
        BY <1>4
    <2> QED
        BY <1>1, <1>11, <1>12, <2>5, <2>6, <2>7, <2>8, CountingKeepsLayers
<1>13. CASE Fails(tests)
    <2>1. 3 \in Nat
        OBVIOUS
    <2>2. PICK i \in 1..3 : ~tests[i].holds /\ FirstFailure(tests) = tests[i].why
        BY <1>2, <1>13, <2>1, FailingTest, Zenon
    <2>3. i \in {1, 2, 3}
        OBVIOUS
    <2>4. FirstFailure(tests) = "too_large"
        BY <1>3, <2>2, <2>3
    <2>5. ~(index <= MaxTerminalSpecs) \/ ~(source_left >= 0)
            \/ ~(PatternBytes(t) <= source_left) \/ ~(PatternBytes(t) <= regex_left)
        <3> HIDE DEF source_left, regex_left
        <3> QED
            BY <1>3, <2>2, <2>3
    <2>6. ~(Terminals <= MaxTerminalSpecs) \/ ~(SourceTotal <= MaxSourceBytes) \/ ~(RegexTotal <= MaxRegexBytes)
        <3>1. CASE ~(index <= MaxTerminalSpecs)
            BY <1>4, <1>6, <1>7, <3>1
        <3>2. CASE ~(source_left >= 0) \/ ~(PatternBytes(t) <= source_left)
            <4>1. ~(SourceAt(index) <= MaxSourceBytes) /\ SourceAt(index) \in Nat
                BY <1>5, <1>7, <1>8, <1>9, <1>10, <3>2
            <4> QED
                BY <1>7, <1>9, <4>1
        <3>3. CASE ~(PatternBytes(t) <= regex_left)
            <4>1. ~(RegexAt(index) <= MaxRegexBytes) /\ RegexAt(index) \in Nat
                BY <1>5, <1>7, <1>8, <1>9, <3>3
            <4> QED
                BY <1>7, <1>9, <4>1
        <3> HIDE DEF source_left, regex_left
        <3> QED
            BY <2>5, <3>1, <3>2, <3>3
    <2>7. ~Fits
        BY <1>4, <2>6, FittingIsWithin
    <2> QED
        BY <1>1, <1>4, <1>13, <2>4, <2>7, RefusalKeepsLayers
<1> QED
    BY <1>1, <1>12, <1>13 DEF Counting

LEMMA MeasureIgnoredKeepsLayers ==
    ASSUME LayersInv, source # NoSource, UNCHANGED <<importVars, origin>>, MeasureIgnored
    PROVE  LayersInv'
<1> DEFINE k == index - Terminals
           name == source.ignored[k]
           n == index - 1
           tests == << Test(k <= MaxIgnoredTerminals, "too_large"), Test(name \in Identifiers, "configuration"),
                       Test(counted.source + SizeOf[name] <= MaxSourceBytes, "too_large") >>
           count == [counted EXCEPT !.source = @ + SizeOf[name]]
<1>1. /\ step = "terminals" /\ layer = "facade" /\ k \in 1..Ignoreds
      /\ Counting(tests, "terminals", index + 1, count)
    BY DEF MeasureIgnored, Terminals, Ignoreds
<1>2. Len(tests) = 3
    OBVIOUS
<1>3. /\ tests[1].holds <=> (k <= MaxIgnoredTerminals)
      /\ tests[3].holds <=> (counted.source + SizeOf[name] <= MaxSourceBytes)
      /\ tests[1].why = "too_large" /\ tests[2].why = "configuration"
      /\ tests[3].why = "too_large"
    <2> HIDE DEF k, name
    <2> QED
        BY DEF Test
<1>4. /\ entry = "facade" /\ SourceTyped /\ ManifestTyped
      /\ counted \in [{"source", "regex", "tokens"} -> Nat]
      /\ index \in Nat \ {0}
    BY <1>1 DEF LayersInv, LayersTyped
<1>5. /\ counted.source = SourceAt(n) /\ counted.regex = RegexAt(n)
      /\ counted.regex <= MaxRegexBytes
      /\ n <= NameCount /\ Lesser(n, Terminals) <= MaxTerminalSpecs
    BY <1>1 DEF LayersInv, Measured
<1>6. /\ n \in Nat /\ n + 1 = index /\ NameCount = Terminals + Ignoreds
      /\ Terminals \in Nat /\ Ignoreds \in Nat /\ n + 1 <= NameCount /\ n + 1 > Terminals
      /\ k = n + 1 - Terminals
    <2>1. NameCount = Terminals + Ignoreds /\ Terminals \in Nat /\ Ignoreds \in Nat
        BY <1>4, SizesOfGiven
    <2>2. n \in Nat /\ n + 1 = index
        BY <1>4
    <2> QED
        BY <1>1, <1>4, <2>1, <2>2
<1>7. /\ MaxSourceBytes \in Nat /\ MaxRegexBytes \in Nat /\ MaxTerminalSpecs \in Nat
      /\ MaxIgnoredTerminals \in Nat
    BY CompileAssumption
<1>8. /\ SourceAt(index) = SourceAt(n) + SizeOf[name] /\ RegexAt(index) = RegexAt(n)
      /\ SizeOf[name] \in Nat
    BY <1>4, <1>6, CountIgnored
<1>9. /\ SourceAt(index) <= SourceTotal /\ SourceTotal \in Nat /\ SourceAt(n) \in Nat
      /\ RegexAt(n) \in Nat
    <2>1. index \in Nat
        BY <1>4
    <2>2. SourceAt(index) <= SourceTotal /\ SourceTotal \in Nat
        BY <1>4, <2>1, CountsGrow
    <2>3. SourceAt(n) \in Nat /\ RegexAt(n) \in Nat
        BY <1>4, <1>6, CountsAreNumbers
    <2> QED
        BY <2>2, <2>3
<1>10. /\ count.source = SourceAt(index) /\ count.regex = RegexAt(index)
       /\ count \in [{"source", "regex", "tokens"} -> Nat]
    <2>1. counted.source + SizeOf[name] = SourceAt(index) /\ counted.regex = RegexAt(index)
        BY <1>5, <1>8
    <2>2. SourceAt(index) \in Nat
        BY <1>8, <1>9
    <2> HIDE DEF name
    <2> QED
        BY <1>4, <2>1, <2>2
<1> HIDE DEF tests, count, name
<1>11. CASE /\ Passes(tests, "terminals", index + 1) /\ counted' = count
            /\ UNCHANGED <<layer, Resolution>>
    <2>1. Holds(tests)
        BY <1>11 DEF Passes
    <2>2. tests[1].holds /\ tests[3].holds
        BY <1>2, <2>1 DEF Holds
    <2>3. k <= MaxIgnoredTerminals /\ SourceAt(index) <= MaxSourceBytes
        BY <1>3, <1>5, <1>8, <2>2
    <2>4. Measured'
        <3>1. /\ step' = "terminals" /\ index' = index + 1 /\ counted' = count
              /\ layer' = "facade"
              /\ UNCHANGED <<entry, source, manifest>>
            BY <1>1, <1>11 DEF Passes
        <3>2. NameCount' = NameCount /\ Terminals' = Terminals
            BY <3>1, SameInputs
        <3>3. index' - 1 = index
            BY <1>4, <3>1
        <3>4. SourceAt(index - 1)' = SourceAt(index) /\ RegexAt(index - 1)' = RegexAt(index)
            BY <3>1, <3>3, CountsKept
        <3>5. /\ Lesser(index, Terminals) = Lesser(n, Terminals)
              /\ index - Terminals <= MaxIgnoredTerminals /\ index <= NameCount
            BY <1>4, <1>6, <1>7, <2>3 DEF Lesser
        <3>6. RegexAt(index) <= MaxRegexBytes
            BY <1>5, <1>8
        <3> QED
            BY <1>5, <1>10, <2>3, <3>1, <3>2, <3>3, <3>4, <3>5, <3>6 DEF Measured
    <2>5. "terminals" \in StepsOf(layer) /\ "terminals" \notin Later
        BY <1>1 DEF StepsOf, Later
    <2>6. ManifestGood
        BY <1>1, <1>4 DEF LayersInv, Admitted
    <2>7. index + 1 \in Nat \ {0}
        BY <1>4
    <2> QED
        BY <1>1, <1>10, <1>11, <2>4, <2>5, <2>6, <2>7, CountingKeepsLayers
<1>12. CASE Fails(tests)
    <2>1. 3 \in Nat
        OBVIOUS
    <2>2. PICK i \in 1..3 : ~tests[i].holds /\ FirstFailure(tests) = tests[i].why
        BY <1>2, <1>12, <2>1, FailingTest, Zenon
    <2>3. i \in {1, 2, 3}
        OBVIOUS
    <2>4. FirstFailure(tests) # "tokenizer" /\ (FirstFailure(tests) = "too_large" => i \in {1, 3})
        BY <1>3, <2>2, <2>3
    <2>5. FirstFailure(tests) = "too_large" => ~(k <= MaxIgnoredTerminals) \/ ~(SourceAt(index) <= MaxSourceBytes)
        BY <1>3, <1>5, <1>8, <2>2, <2>4
    <2>6. ~(k <= MaxIgnoredTerminals) => ~(Ignoreds <= MaxIgnoredTerminals)
        BY <1>1, <1>6, <1>7
    <2>7. ~(SourceAt(index) <= MaxSourceBytes) => ~(SourceTotal <= MaxSourceBytes)
        BY <1>7, <1>8, <1>9
    <2>8. FirstFailure(tests) = "too_large" => ~Fits
        BY <1>4, <2>5, <2>6, <2>7, FittingIsWithin
    <2> QED
        BY <1>1, <1>4, <1>12, <2>4, <2>8, RefusalKeepsLayers
<1> QED
    BY <1>1, <1>11, <1>12 DEF Counting

(* A layer calls the next.                                                   *)
LEMMA HandingOverKeepsLayers ==
    ASSUME LayersInv, source # NoSource, UNCHANGED <<importVars, origin>>, step = "terminals", Fits,
           NEW to, NEW next,
           \/ layer = "facade" /\ to = "native" /\ next = "grammar"
           \/ layer = "native" /\ to = "rust" /\ next = "limits",
           HandsOver(to, next)
    PROVE  LayersInv'
<1>1. /\ step' = next /\ index' = 1 /\ counted' = Nothing /\ layer' = to
      /\ UNCHANGED <<entry, source, manifest, verdict, origin, phase>>
    BY DEF HandsOver, Passes, importVars
<1>2. phase = "none" /\ verdict = "none"
    BY DEF LayersInv, LayersTyped
<1>3. Nothing \in [{"source", "regex", "tokens"} -> Nat]
    BY DEF Nothing
<1>4. LayersTyped'
    BY <1>1, <1>2, <1>3, SameInputs DEF LayersInv, LayersTyped, StepsOf
<1>5. Measured'
    BY <1>1 DEF Measured
<1>6. Admitted'
    BY <1>1, SameInputs DEF LayersInv, Admitted
<1>7. RefusedRightly'
    BY <1>1, <1>2 DEF RefusedRightly
<1> QED
    BY <1>4, <1>5, <1>6, <1>7 DEF LayersInv

LEMMA CallNativeCompileKeepsLayers ==
    ASSUME LayersInv, source # NoSource, UNCHANGED <<importVars, origin>>, CallNativeCompile
    PROVE  LayersInv'
<1>1. /\ step = "terminals" /\ layer = "facade" /\ index > Terminals + Ignoreds
      /\ HandsOver("native", "grammar")
    BY DEF CallNativeCompile, Terminals, Ignoreds
<1>2. entry = "facade" /\ SourceTyped /\ ManifestTyped /\ index \in Nat \ {0}
    BY <1>1 DEF LayersInv, LayersTyped
<1>3. /\ counted.source = SourceAt(index - 1) /\ counted.regex = RegexAt(index - 1)
      /\ index - 1 <= NameCount
      /\ counted.source <= MaxSourceBytes /\ counted.regex <= MaxRegexBytes
      /\ Lesser(index - 1, Terminals) <= MaxTerminalSpecs
      /\ index - 1 - Terminals <= MaxIgnoredTerminals
    BY <1>1 DEF LayersInv, Measured
<1>4. /\ NameCount = Terminals + Ignoreds
      /\ Terminals \in Nat /\ Ignoreds \in Nat /\ Givens = Len(manifest.token_bytes)
    BY <1>2, SizesOfGiven
<1>5. /\ index - 1 = NameCount /\ NameCount - Terminals = Ignoreds /\ Terminals <= NameCount
      /\ NameCount \in Nat
    BY <1>1, <1>2, <1>3, <1>4
<1>6. SourceAt(NameCount) = SourceTotal /\ RegexAt(NameCount) = RegexTotal
    BY <1>2, <1>5, CountsEnd
<1>7. Lesser(NameCount, Terminals) = Terminals
    BY <1>4, <1>5 DEF Lesser
<1>8. ManifestGood
    BY <1>1, <1>2 DEF LayersInv, Admitted
<1>9. Givens <= MaxTokens /\ TokenBytes <= MaxTokenBytes
    BY <1>4, <1>8 DEF ManifestGood
<1>10. /\ SourceTotal <= MaxSourceBytes /\ RegexTotal <= MaxRegexBytes
       /\ Terminals <= MaxTerminalSpecs /\ Ignoreds <= MaxIgnoredTerminals
    BY <1>3, <1>5, <1>6, <1>7
<1>11. Fits
    BY <1>2, <1>9, <1>10, FittingIsWithin
<1> QED
    BY <1>1, <1>11, HandingOverKeepsLayers
-----------------------------------------------------------------------------
(* The native layer: what is known before its first item, and the items.     *)
LEMMA WithinTests ==
    ASSUME NEW count
    PROVE  /\ Len(Within(count)) = 6
           /\ Within(count)[1].holds <=> (count.source <= MaxSourceBytes)
           /\ Within(count)[2].holds <=> (Terminals <= MaxTerminalSpecs)
           /\ Within(count)[3].holds <=> (Ignoreds <= MaxIgnoredTerminals)
           /\ Within(count)[4].holds <=> (count.regex <= MaxRegexBytes)
           /\ Within(count)[5].holds <=> (Givens <= MaxTokens)
           /\ Within(count)[6].holds <=> (count.tokens <= MaxTokenBytes)
BY DEF Within, Test, Terminals, Ignoreds, Givens

LEMMA PreflightGrammarKeepsLayers ==
    ASSUME LayersInv, source # NoSource, UNCHANGED <<importVars, origin>>, PreflightGrammar
    PROVE  LayersInv'
<1> DEFINE count == [Nothing EXCEPT !.source = TextBytes]
           tests == Within(Nothing) \o <<Test(source.utf8, "not_utf8")>> \o Within(count)
<1>1. step = "grammar" /\ layer = "native" /\ Counting(tests, "terminals", 1, count)
    BY DEF PreflightGrammar
<1>2. SourceTyped /\ ManifestTyped /\ phase = "none"
    BY DEF LayersInv, LayersTyped
<1>3. /\ SourceAt(0) = TextBytes /\ RegexAt(0) = 0 /\ TokensAt(0) = 0
      /\ TextBytes \in Nat /\ TextBytes <= SourceTotal /\ SourceTotal \in Nat
    BY <1>2, CountsStart, CountsGrow, CostsTyped
<1>4. /\ count.source = TextBytes /\ count.regex = 0 /\ count.tokens = 0
      /\ count \in [{"source", "regex", "tokens"} -> Nat]
      /\ Nothing.source = 0 /\ Nothing.regex = 0 /\ Nothing.tokens = 0
    BY <1>3 DEF Nothing
<1>5. /\ MaxSourceBytes \in Nat /\ MaxRegexBytes \in Nat /\ MaxTokenBytes \in Nat
    BY CompileAssumption
<1> HIDE DEF count
<1>6. /\ Len(tests) = 13
      /\ tests[1] = Within(Nothing)[1] /\ tests[2] = Within(Nothing)[2]
      /\ tests[3] = Within(Nothing)[3]
      /\ tests[4] = Within(Nothing)[4] /\ tests[5] = Within(Nothing)[5]
      /\ tests[6] = Within(Nothing)[6]
      /\ tests[7].why = "not_utf8"
      /\ tests[8] = Within(count)[1] /\ tests[9] = Within(count)[2]
      /\ tests[10] = Within(count)[3]
      /\ tests[11] = Within(count)[4] /\ tests[12] = Within(count)[5]
      /\ tests[13] = Within(count)[6]
    BY DEF Within, Test
<1> HIDE DEF tests
<1>7. CASE Passes(tests, "terminals", 1) /\ counted' = count /\ UNCHANGED <<layer, Resolution>>
    <2>1. Holds(tests)
        BY <1>7 DEF Passes
    <2>2. tests[8].holds /\ tests[9].holds /\ tests[10].holds /\ tests[12].holds
        BY <1>6, <2>1 DEF Holds
    <2>3. /\ TextBytes <= MaxSourceBytes /\ Terminals <= MaxTerminalSpecs
          /\ Ignoreds <= MaxIgnoredTerminals /\ Givens <= MaxTokens
        BY <1>4, <1>6, <2>2, WithinTests
    <2>4. Measured'
        <3>1. /\ step' = "terminals" /\ index' = 1 /\ counted' = count /\ layer' = "native"
              /\ UNCHANGED <<entry, source, manifest>>
            BY <1>1, <1>7 DEF Passes
        <3>2. /\ NameCount' = NameCount /\ Terminals' = Terminals /\ Ignoreds' = Ignoreds
              /\ Givens' = Givens
            BY <3>1, SameInputs
        <3>3. index' - 1 = 0
            BY <3>1
        <3>4. /\ SourceAt(index - 1)' = SourceAt(0) /\ RegexAt(index - 1)' = RegexAt(0)
              /\ TokensAt(index - 1)' = TokensAt(0)
            BY <3>1, <3>3, CountsKept
        <3>5. 0 <= NameCount + Givens
            BY <1>2, CostsTyped
        <3> QED
            BY <1>3, <1>4, <1>5, <2>3, <3>1, <3>2, <3>3, <3>4, <3>5 DEF Measured
    <2>5. "terminals" \in StepsOf(layer) /\ "terminals" \notin Later
        BY <1>1 DEF StepsOf, Later
    <2>6. entry = "facade" => ManifestGood
        BY <1>1 DEF LayersInv, Admitted
    <2> QED
        BY <1>1, <1>4, <1>7, <2>4, <2>5, <2>6, CountingKeepsLayers
<1>8. CASE Fails(tests)
    <2>1. 13 \in Nat
        OBVIOUS
    <2>2. PICK i \in 1..13 : ~tests[i].holds /\ FirstFailure(tests) = tests[i].why
        BY <1>6, <1>8, <2>1, FailingTest, Zenon
    <2>3. i \in {1, 2, 3, 4, 5, 6, 7, 8, 9, 10, 11, 12, 13}
        OBVIOUS
    <2>4. Fits => i = 7
        <3> HAVE Fits
        <3>1. /\ TextBytes <= MaxSourceBytes /\ Terminals <= MaxTerminalSpecs
              /\ Ignoreds <= MaxIgnoredTerminals
              /\ Givens <= MaxTokens
            BY <1>2, <1>3, <1>5, FittingIsWithin
        <3>2. 0 <= MaxSourceBytes /\ 0 <= MaxRegexBytes /\ 0 <= MaxTokenBytes
            BY <1>5
        <3>3. /\ tests[1].holds /\ tests[2].holds /\ tests[3].holds /\ tests[4].holds
              /\ tests[5].holds /\ tests[6].holds
            BY <1>4, <1>6, <3>1, <3>2, WithinTests
        <3>4. /\ tests[8].holds /\ tests[9].holds /\ tests[10].holds /\ tests[11].holds
              /\ tests[12].holds /\ tests[13].holds
            BY <1>4, <1>6, <3>1, <3>2, WithinTests
        <3> QED
            BY <2>2, <2>3, <3>3, <3>4
    <2>5. FirstFailure(tests) = "too_large" => layer = entry /\ ~Fits
        BY <1>6, <2>2, <2>4 DEF LayersInv, Admitted
    <2>6. FirstFailure(tests) # "tokenizer"
        <3>1. \A k \in {1, 2, 3, 4, 5, 6, 8, 9, 10, 11, 12, 13} : tests[k].why = "too_large"
            BY <1>6 DEF Within, Test
        <3> QED
            BY <1>6, <2>2, <2>3, <3>1
    <2> QED
        BY <1>1, <1>8, <2>5, <2>6, RefusalKeepsLayers
<1> QED
    BY <1>1, <1>7, <1>8 DEF Counting
-----------------------------------------------------------------------------
LEMMA PreflightCounts ==
    ASSUME LayersInv, source # NoSource, step = "terminals", layer = "native", index <= NameCount + Givens, NEW count,
           count = IF index <= Terminals
                   THEN [counted EXCEPT !.source = @ + NameBytes(source.terminals[index]),
                                        !.regex = @ + PatternBytes(source.terminals[index])]
                   ELSE IF index <= NameCount
                   THEN [counted EXCEPT !.source = @ + SizeOf[source.ignored[index - Terminals]]]
                   ELSE [counted EXCEPT !.tokens = @ + Weight(Given[index - NameCount])]
    PROVE  /\ count.source = SourceAt(index) /\ count.regex = RegexAt(index)
           /\ count.tokens = TokensAt(index)
           /\ count \in [{"source", "regex", "tokens"} -> Nat]
<1> DEFINE n == index - 1
<1>1. /\ SourceTyped /\ ManifestTyped /\ index \in Nat \ {0}
      /\ counted \in [{"source", "regex", "tokens"} -> Nat]
    BY DEF LayersInv, LayersTyped
<1>2. counted.source = SourceAt(n) /\ counted.regex = RegexAt(n) /\ counted.tokens = TokensAt(n)
    BY DEF LayersInv, Measured
<1>3. /\ n \in Nat /\ n + 1 = index /\ NameCount \in Nat /\ Terminals \in Nat
      /\ Givens \in Nat /\ Terminals <= NameCount
      /\ n <= NameCount + Givens
    <2>1. NameCount \in Nat /\ Terminals \in Nat /\ Givens \in Nat /\ Terminals <= NameCount
        BY <1>1, CostsTyped
    <2> QED
        BY <1>1, <2>1
<1> HIDE DEF n
<1>4. SourceAt(n) \in Nat /\ RegexAt(n) \in Nat /\ TokensAt(n) \in Nat
    BY <1>1, <1>3, CountsAreNumbers
<1>5. CASE index <= Terminals
    <2> DEFINE cost == NameBytes(source.terminals[index])
               pattern == PatternBytes(source.terminals[index])
    <2>1. count = [counted EXCEPT !.source = @ + cost, !.regex = @ + pattern]
        BY <1>5
    <2>2. /\ SourceAt(index) = SourceAt(n) + cost /\ RegexAt(index) = RegexAt(n) + pattern
          /\ TokensAt(index) = TokensAt(n) /\ cost \in Nat /\ pattern \in Nat
        BY <1>1, <1>3, <1>5, CountTerminal
    <2> HIDE DEF cost, pattern
    <2>3. counted.source + cost = SourceAt(index) /\ counted.regex + pattern = RegexAt(index)
        BY <1>2, <2>2
    <2>4. SourceAt(index) \in Nat /\ RegexAt(index) \in Nat
        BY <1>4, <2>2
    <2> QED
        BY <1>1, <1>2, <2>1, <2>2, <2>3, <2>4
<1>6. CASE ~(index <= Terminals) /\ index <= NameCount
    <2> DEFINE cost == SizeOf[source.ignored[index - Terminals]]
    <2>1. count = [counted EXCEPT !.source = @ + cost]
        BY <1>6
    <2>2. index > Terminals
        BY <1>1, <1>3, <1>6
    <2>3. /\ SourceAt(index) = SourceAt(n) + cost /\ cost \in Nat
          /\ RegexAt(index) = RegexAt(n) /\ TokensAt(index) = TokensAt(n)
        BY <1>1, <1>3, <1>6, <2>2, CountIgnored
    <2> HIDE DEF cost
    <2>4. counted.source + cost = SourceAt(index)
        BY <1>2, <2>3
    <2>5. SourceAt(index) \in Nat
        BY <1>4, <2>3
    <2> QED
        BY <1>1, <1>2, <2>1, <2>3, <2>4, <2>5
<1>7. CASE ~(index <= Terminals) /\ ~(index <= NameCount)
    <2>1. count = [counted EXCEPT !.tokens = @ + Weight(Given[index - NameCount])]
        BY <1>7
    <2>2. index > NameCount
        BY <1>1, <1>3, <1>7
    <2>3. /\ SourceAt(index) = SourceAt(n) /\ RegexAt(index) = RegexAt(n)
          /\ TokensAt(index) = TokensAt(n) + Weight(Given[index - NameCount])
          /\ Weight(Given[index - NameCount]) \in Nat
        BY <1>1, <1>3, <2>2, CountToken
    <2>4. TokensAt(index) \in Nat
        BY <1>4, <2>3
    <2> QED
        BY <1>1, <1>2, <1>4, <2>1, <2>3, <2>4
<1> QED
    BY <1>5, <1>6, <1>7

LEMMA PreflightItemKeepsLayers ==
    ASSUME LayersInv, source # NoSource, UNCHANGED <<importVars, origin>>, PreflightItem
    PROVE  LayersInv'
<1> DEFINE count == IF index <= Terminals
                    THEN [counted EXCEPT !.source = @ + NameBytes(source.terminals[index]),
                                         !.regex = @ + PatternBytes(source.terminals[index])]
                    ELSE IF index <= NameCount
                    THEN [counted EXCEPT !.source = @ + SizeOf[source.ignored[index - Terminals]]]
                    ELSE [counted EXCEPT !.tokens = @ + Weight(Given[index - NameCount])]
           tests == Within(count)
<1>1. /\ step = "terminals" /\ layer = "native" /\ index <= NameCount + Givens
      /\ Counting(tests, "terminals", index + 1, count)
    BY DEF PreflightItem, Terminals, Ignoreds, NameCount, Givens
<1>2. SourceTyped /\ ManifestTyped /\ index \in Nat \ {0}
    BY <1>1 DEF LayersInv, LayersTyped
<1>3. /\ count.source = SourceAt(index) /\ count.regex = RegexAt(index)
      /\ count.tokens = TokensAt(index)
      /\ count \in [{"source", "regex", "tokens"} -> Nat]
    BY <1>1, PreflightCounts, Zenon
<1> HIDE DEF count
<1>4. /\ Len(tests) = 6
      /\ tests[1].holds <=> (SourceAt(index) <= MaxSourceBytes)
      /\ tests[2].holds <=> (Terminals <= MaxTerminalSpecs)
      /\ tests[3].holds <=> (Ignoreds <= MaxIgnoredTerminals)
      /\ tests[4].holds <=> (RegexAt(index) <= MaxRegexBytes)
      /\ tests[5].holds <=> (Givens <= MaxTokens)
      /\ tests[6].holds <=> (TokensAt(index) <= MaxTokenBytes)
    BY <1>3, WithinTests
<1>5. /\ tests[1].why = "too_large" /\ tests[2].why = "too_large" /\ tests[3].why = "too_large"
      /\ tests[4].why = "too_large" /\ tests[5].why = "too_large" /\ tests[6].why = "too_large"
    BY DEF Within, Test
<1> HIDE DEF tests
<1>6. CASE /\ Passes(tests, "terminals", index + 1) /\ counted' = count
           /\ UNCHANGED <<layer, Resolution>>
    <2>1. Holds(tests)
        BY <1>6 DEF Passes
    <2>2. /\ tests[1].holds /\ tests[2].holds /\ tests[3].holds /\ tests[4].holds
          /\ tests[5].holds /\ tests[6].holds
        BY <1>4, <2>1 DEF Holds
    <2>3. Measured'
        <3>1. /\ step' = "terminals" /\ index' = index + 1 /\ counted' = count
              /\ layer' = "native"
              /\ UNCHANGED <<entry, source, manifest>>
            BY <1>1, <1>6 DEF Passes
        <3>2. /\ NameCount' = NameCount /\ Terminals' = Terminals /\ Ignoreds' = Ignoreds
              /\ Givens' = Givens
            BY <3>1, SameInputs
        <3>3. index' - 1 = index
            BY <1>2, <3>1
        <3>4. /\ SourceAt(index - 1)' = SourceAt(index)
              /\ RegexAt(index - 1)' = RegexAt(index)
              /\ TokensAt(index - 1)' = TokensAt(index)
            BY <3>1, <3>3, CountsKept
        <3> QED
            BY <1>1, <1>3, <1>4, <2>2, <3>1, <3>2, <3>3, <3>4 DEF Measured
    <2>4. "terminals" \in StepsOf(layer) /\ "terminals" \notin Later
        BY <1>1 DEF StepsOf, Later
    <2>5. entry = "facade" => ManifestGood
        BY <1>1 DEF LayersInv, Admitted
    <2>6. index + 1 \in Nat \ {0}
        BY <1>2
    <2> QED
        BY <1>1, <1>3, <1>6, <2>3, <2>4, <2>5, <2>6, CountingKeepsLayers
<1>7. CASE Fails(tests)
    <2>1. 6 \in Nat
        OBVIOUS
    <2>2. PICK i \in 1..6 : ~tests[i].holds /\ FirstFailure(tests) = tests[i].why
        BY <1>4, <1>7, <2>1, FailingTest, Zenon
    <2>3. i \in {1, 2, 3, 4, 5, 6}
        OBVIOUS
    <2>4. FirstFailure(tests) = "too_large"
        BY <1>5, <2>2, <2>3
    <2>5. ~Fits
        <3>1. index \in Nat
            BY <1>2
        <3>2. /\ SourceAt(index) <= SourceTotal /\ RegexAt(index) <= RegexTotal
              /\ TokensAt(index) <= TokenBytes
              /\ SourceTotal \in Nat /\ RegexTotal \in Nat /\ TokenBytes \in Nat
              /\ SourceAt(index) \in Nat /\ RegexAt(index) \in Nat /\ TokensAt(index) \in Nat
            BY <1>1, <1>2, <3>1, CountsGrow, CountsAreNumbers
        <3>3. SUFFICES ASSUME Fits PROVE FALSE
            OBVIOUS
        <3>4. /\ SourceTotal <= MaxSourceBytes /\ RegexTotal <= MaxRegexBytes
              /\ Terminals <= MaxTerminalSpecs
              /\ Ignoreds <= MaxIgnoredTerminals /\ Givens <= MaxTokens
              /\ TokenBytes <= MaxTokenBytes
            BY <1>2, <3>3, FittingIsWithin
        <3>5. MaxSourceBytes \in Nat /\ MaxRegexBytes \in Nat /\ MaxTokenBytes \in Nat
            BY CompileAssumption
        <3>6. /\ SourceAt(index) <= MaxSourceBytes /\ RegexAt(index) <= MaxRegexBytes
              /\ TokensAt(index) <= MaxTokenBytes
            BY <3>2, <3>4, <3>5
        <3> QED
            BY <1>4, <2>2, <2>3, <3>4, <3>6
    <2>6. layer = entry
        BY <2>5 DEF LayersInv, Admitted
    <2> QED
        BY <1>1, <1>7, <2>4, <2>5, <2>6, RefusalKeepsLayers
<1> QED
    BY <1>1, <1>6, <1>7 DEF Counting

(* The Rust compiler: the tokens, and the limits once more.                  *)
LEMMA CallCompileKeepsLayers ==
    ASSUME LayersInv, source # NoSource, UNCHANGED <<importVars, origin>>, CallCompile
    PROVE  LayersInv'
<1>1. /\ step = "terminals" /\ layer = "native" /\ index > NameCount + Givens
      /\ HandsOver("rust", "limits")
    BY DEF CallCompile, Terminals, Ignoreds, NameCount, Givens
<1>2. SourceTyped /\ ManifestTyped /\ index \in Nat \ {0}
    BY <1>1 DEF LayersInv, LayersTyped
<1>3. /\ counted.source = SourceAt(index - 1) /\ counted.regex = RegexAt(index - 1)
      /\ counted.tokens = TokensAt(index - 1)
      /\ index - 1 <= NameCount + Givens
      /\ counted.source <= MaxSourceBytes /\ counted.regex <= MaxRegexBytes
      /\ counted.tokens <= MaxTokenBytes
      /\ Terminals <= MaxTerminalSpecs /\ Ignoreds <= MaxIgnoredTerminals /\ Givens <= MaxTokens
    BY <1>1 DEF LayersInv, Measured
<1>4. NameCount \in Nat /\ Givens \in Nat
    BY <1>2, CostsTyped
<1>5. /\ index - 1 = NameCount + Givens /\ NameCount + Givens \in Nat
      /\ NameCount <= NameCount + Givens
    BY <1>1, <1>2, <1>3, <1>4
<1>6. /\ SourceAt(NameCount + Givens) = SourceTotal /\ RegexAt(NameCount + Givens) = RegexTotal
      /\ TokensAt(NameCount + Givens) = TokenBytes
    BY <1>2, <1>5, CountsEnd
<1>7. SourceTotal <= MaxSourceBytes /\ RegexTotal <= MaxRegexBytes /\ TokenBytes <= MaxTokenBytes
    BY <1>3, <1>5, <1>6
<1>8. Fits
    BY <1>2, <1>3, <1>7, FittingIsWithin
<1> QED
    BY <1>1, <1>8, HandingOverKeepsLayers
-----------------------------------------------------------------------------
LEMMA GoodManifestTokens ==
    ASSUME ManifestTyped, ManifestGood
    PROVE  /\ Given # <<>> /\ <<>> \notin Elements(Given) /\ Elements(Given) # {Eos}
           /\ Eos \in Elements(Given)
           /\ Givens <= MaxTokens /\ TokenBytes <= MaxTokenBytes
<1> DEFINE size == Len(manifest.token_bytes)
           ends == manifest.eos_token_ids
<1>1. /\ size > 0 /\ size <= MaxTokens /\ ends # {} /\ ends \subseteq 0..(size - 1)
      /\ Cardinality(ends) # size /\ <<>> \notin Elements(Given) /\ TokenBytes <= MaxTokenBytes
    BY DEF ManifestGood
<1>2. /\ Len(Given) = size /\ size \in Nat
      /\ \A i \in 1..size : Given[i] = IF i - 1 \in ends THEN Eos ELSE manifest.token_bytes[i]
    BY GivenTyped
<1>3. manifest.token_bytes \in Seq(Seq(Bytes))
    BY DEF ManifestTyped
<1>4. Given # <<>>
    BY <1>1, <1>2
<1> HIDE DEF size, ends
<1>5. Eos \in Elements(Given)
    <2>1. PICK e \in ends : e \in 0..(size - 1)
        BY <1>1
    <2>2. e + 1 \in 1..size /\ (e + 1) - 1 = e
        BY <1>2, <2>1
    <2>3. Given[e + 1] = Eos
        BY <1>2, <2>1, <2>2
    <2> QED
        BY <1>2, <2>2, <2>3 DEF Elements
<1>6. Elements(Given) # {Eos}
    <2>1. ends # 0..(size - 1)
        BY <1>1, <1>2, SizeOfRange
    <2>2. PICK k \in 0..(size - 1) : k \notin ends
        BY <1>1, <2>1
    <2>3. k + 1 \in 1..size /\ (k + 1) - 1 = k
        BY <1>2, <2>2
    <2>4. Given[k + 1] = manifest.token_bytes[k + 1]
        BY <1>2, <2>2, <2>3
    <2>5. manifest.token_bytes[k + 1] \in Seq(Bytes)
        BY <1>3, <2>3, ElementOfList, Zenon DEF size
    <2>6. Given[k + 1] # Eos
        BY <2>4, <2>5, ImportAssumption
    <2>7. Given[k + 1] \in Elements(Given)
        BY <1>2, <2>3 DEF Elements
    <2> QED
        BY <2>6, <2>7
<1> QED
    BY <1>1, <1>2, <1>4, <1>5, <1>6 DEF Givens

LEMMA CheckLimitsKeepsLayers ==
    ASSUME LayersInv, source # NoSource, UNCHANGED <<importVars, origin>>, CheckLimits
    PROVE  LayersInv'
<1> DEFINE names == TotalOf(source.ignored, IgnoredBytes)
           count == [source |-> TextBytes + TotalOf(source.terminals, NameBytes) + names,
                     regex |-> TotalOf(source.terminals, PatternBytes), tokens |-> TokenBytes]
           tests == << Test(Len(source.terminals) <= MaxTerminalSpecs, "too_large"),
                      Test(Len(source.ignored) <= MaxIgnoredTerminals, "too_large"),
                      Test(count.source <= MaxSourceBytes, "too_large"),
                      Test(count.regex <= MaxRegexBytes, "too_large"),
                      Test(Given # <<>>, "tokenizer"), Test(Len(Given) <= MaxTokens, "too_large"),
                      Test(count.tokens <= MaxTokenBytes, "too_large"),
                      Test(<<>> \notin Elements(Given), "tokenizer"),
                      Test(Elements(Given) # {Eos}, "tokenizer"),
                      Test(Eos \in Elements(Given), "tokenizer") >>
<1>1. step = "limits" /\ Counting(tests, "yacc", 1, count)
    BY DEF CheckLimits
<1>2. layer = "rust" /\ SourceTyped /\ ManifestTyped
    BY <1>1 DEF LayersInv, LayersTyped, StepsOf, Later
<1>3. /\ count.source = SourceTotal /\ count.regex = RegexTotal /\ count.tokens = TokenBytes
      /\ count \in [{"source", "regex", "tokens"} -> Nat]
    <2>1. SourceTotal \in Nat /\ RegexTotal \in Nat /\ TokenBytes \in Nat
        <3>1. 0 \in Nat
            OBVIOUS
        <3> QED
            BY <1>2, <3>1, CountsGrow
    <2>2. count = [source |-> SourceTotal, regex |-> RegexTotal, tokens |-> TokenBytes]
        BY DEF SourceTotal, RegexTotal
    <2> HIDE DEF count
    <2> QED
        BY <2>1, <2>2
<1> HIDE DEF count
<1>4. /\ Len(tests) = 10
      /\ tests[1].holds <=> (Terminals <= MaxTerminalSpecs)
      /\ tests[2].holds <=> (Ignoreds <= MaxIgnoredTerminals)
      /\ tests[3].holds <=> (SourceTotal <= MaxSourceBytes)
      /\ tests[4].holds <=> (RegexTotal <= MaxRegexBytes)
      /\ tests[5].holds <=> (Given # <<>>)
      /\ tests[6].holds <=> (Givens <= MaxTokens)
      /\ tests[7].holds <=> (TokenBytes <= MaxTokenBytes)
      /\ tests[8].holds <=> (<<>> \notin Elements(Given))
      /\ tests[9].holds <=> (Elements(Given) # {Eos})
      /\ tests[10].holds <=> (Eos \in Elements(Given))
    BY <1>3 DEF Test, Terminals, Ignoreds, Givens
<1>5. /\ tests[1].why = "too_large" /\ tests[2].why = "too_large" /\ tests[3].why = "too_large"
      /\ tests[4].why = "too_large" /\ tests[5].why = "tokenizer" /\ tests[6].why = "too_large"
      /\ tests[7].why = "too_large" /\ tests[8].why = "tokenizer" /\ tests[9].why = "tokenizer"
      /\ tests[10].why = "tokenizer"
    BY DEF Test
<1> HIDE DEF tests
<1>6. CASE Passes(tests, "yacc", 1) /\ counted' = count /\ UNCHANGED <<layer, Resolution>>
    <2>1. Holds(tests)
        BY <1>6 DEF Passes
    <2>2. /\ tests[1].holds /\ tests[2].holds /\ tests[3].holds /\ tests[4].holds
          /\ tests[6].holds /\ tests[7].holds
        BY <1>4, <2>1 DEF Holds
    <2>3. Fits
        BY <1>2, <1>4, <2>2, FittingIsWithin
    <2>4. Measured'
        BY <1>6 DEF Passes, Measured
    <2>5. "yacc" \in StepsOf(layer) /\ "yacc" # "inputs"
        BY <1>2 DEF StepsOf, Later
    <2>6. entry = "facade" => ManifestGood
        BY <1>1 DEF LayersInv, Admitted
    <2> QED
        BY <1>1, <1>3, <1>6, <2>3, <2>4, <2>5, <2>6, CountingKeepsLayers
<1>7. CASE Fails(tests)
    <2>1. 10 \in Nat
        OBVIOUS
    <2>2. PICK i \in 1..10 : ~tests[i].holds /\ FirstFailure(tests) = tests[i].why
        BY <1>4, <1>7, <2>1, FailingTest, Zenon
    <2>3. i \in {1, 2, 3, 4, 5, 6, 7, 8, 9, 10}
        OBVIOUS
    <2>4. i \in {1, 2, 3, 4, 6, 7} => ~Fits
        BY <1>2, <1>4, <2>2, FittingIsWithin
    <2>5. FirstFailure(tests) = "too_large" => layer = entry /\ ~Fits
        <3>1. FirstFailure(tests) = "too_large" => i \in {1, 2, 3, 4, 6, 7}
            BY <1>5, <2>2, <2>3
        <3> QED
            BY <2>4, <3>1 DEF LayersInv, Admitted
    <2>6. FirstFailure(tests) = "tokenizer" => origin # "transformers" /\ (entry = "facade" => layer = "facade")
        <3>1. FirstFailure(tests) = "tokenizer" => i \in {5, 8, 9, 10}
            BY <1>5, <2>2, <2>3
        <3>2. ManifestGood => i \notin {5, 8, 9, 10}
            BY <1>2, <1>4, <2>2, GoodManifestTokens
        <3>3. entry = "facade" \/ origin = "transformers" => ManifestGood
            BY <1>1 DEF LayersInv, Admitted
        <3> QED
            BY <3>1, <3>2, <3>3
    <2> QED
        BY <1>1, <1>7, <2>5, <2>6, RefusalKeepsLayers
<1> QED
    BY <1>1, <1>6, <1>7 DEF Counting
-----------------------------------------------------------------------------
(* The stages after the limits measure nothing.                              *)
LEMMA LaterStageKeepsLayers ==
    ASSUME LayersInv, source # NoSource, UNCHANGED <<importVars, origin>>, step \in Later,
           NEW tests, Len(tests) \in Nat, \A k \in 1..Len(tests) : tests[k].why \notin {"too_large", "tokenizer"},
           NEW next \in Later, NEW i \in Nat \ {0},
           \/ Passes(tests, next, i) /\ UNCHANGED <<layer, counted>>
           \/ Fails(tests)
    PROVE  LayersInv'
<1>1. Fails(tests) => FirstFailure(tests) \notin {"too_large", "tokenizer"}
    <2> HAVE Fails(tests)
    <2>1. PICK k \in 1..Len(tests) : FirstFailure(tests) = tests[k].why
        BY FailingTest
    <2> QED
        BY <2>1
<1> QED
    BY <1>1, LaterStepKeepsLayers

(* The stages that follow look at no limit of the inputs.                    *)
LEMMA NextIndex == ASSUME LayersInv PROVE index + 1 \in Nat \ {0}
BY DEF LayersInv, LayersTyped

LEMMA ReadYaccKeepsLayers ==
    ASSUME LayersInv, source # NoSource, UNCHANGED <<importVars, origin>>, ReadYacc
    PROVE  LayersInv'
<1> DEFINE tests == << Test(source.directives = {}, "unsupported"), Test(source.syntax, "syntax"),
                       Test(Len(source.named) <= MaxTerminalSpecs, "too_many_names") >>
<1>1. /\ step = "yacc"
      /\ \/ Passes(tests, "specs", 1) /\ UNCHANGED <<layer, counted>>
         \/ Fails(tests)
    BY DEF ReadYacc, Resolving
<1>2. /\ Len(tests) = 3 /\ tests[1].why = "unsupported" /\ tests[2].why = "syntax"
      /\ tests[3].why = "too_many_names"
    BY DEF Test
<1> HIDE DEF tests
<1>3. \A k \in 1..Len(tests) : tests[k].why \notin {"too_large", "tokenizer"}
    BY <1>2
<1>4. "yacc" \in Later /\ "specs" \in Later /\ 1 \in Nat \ {0}
    BY NextIndex DEF Later
<1> QED
    BY <1>1, <1>2, <1>3, <1>4, LaterStageKeepsLayers

LEMMA MatchSpecKeepsLayers ==
    ASSUME LayersInv, source # NoSource, UNCHANGED <<importVars, origin>>, MatchSpec
    PROVE  LayersInv'
<1> DEFINE name == source.terminals[index].name
           tests == << Test(Named(name), "unknown"), Test(name \notin DOMAIN specs, "duplicate") >>
<1>1. /\ step = "specs"
      /\ \/ Passes(tests, "specs", index + 1) /\ UNCHANGED <<layer, counted>>
         \/ Fails(tests)
    BY DEF MatchSpec, Resolving
<1>2. Len(tests) = 2 /\ tests[1].why = "unknown" /\ tests[2].why = "duplicate"
    BY DEF Test
<1> HIDE DEF tests
<1>3. \A k \in 1..Len(tests) : tests[k].why \notin {"too_large", "tokenizer"}
    BY <1>2
<1>4. "specs" \in Later /\ "specs" \in Later /\ index + 1 \in Nat \ {0}
    BY NextIndex DEF Later
<1> QED
    BY <1>1, <1>2, <1>3, <1>4, LaterStageKeepsLayers

LEMMA MatchNamesKeepsLayers ==
    ASSUME LayersInv, source # NoSource, UNCHANGED <<importVars, origin>>, MatchNames
    PROVE  LayersInv'
<1> DEFINE tests == <<Test(Elements(source.named) \subseteq DOMAIN specs, "missing")>>
<1>1. /\ step = "specs"
      /\ \/ Passes(tests, "ignored", 1) /\ UNCHANGED <<layer, counted>>
         \/ Fails(tests)
    BY DEF MatchNames, Resolving
<1>2. Len(tests) = 1 /\ tests[1].why = "missing"
    BY DEF Test
<1> HIDE DEF tests
<1>3. \A k \in 1..Len(tests) : tests[k].why \notin {"too_large", "tokenizer"}
    BY <1>2
<1>4. "specs" \in Later /\ "ignored" \in Later /\ 1 \in Nat \ {0}
    BY NextIndex DEF Later
<1> QED
    BY <1>1, <1>2, <1>3, <1>4, LaterStageKeepsLayers

LEMMA IgnoreKeepsLayers ==
    ASSUME LayersInv, source # NoSource, UNCHANGED <<importVars, origin>>, Ignore
    PROVE  LayersInv'
<1> DEFINE name == source.ignored[index]
           tests == << Test(Named(name), "unknown_ignored"), Test(name \notin ignored, "duplicate_ignored"),
                       Test(name \notin source.used, "ignored_used") >>
<1>1. /\ step = "ignored"
      /\ \/ Passes(tests, "ignored", index + 1) /\ UNCHANGED <<layer, counted>>
         \/ Fails(tests)
    BY DEF Ignore, Resolving
<1>2. /\ Len(tests) = 3 /\ tests[1].why = "unknown_ignored"
      /\ tests[2].why = "duplicate_ignored" /\ tests[3].why = "ignored_used"
    BY DEF Test
<1> HIDE DEF tests
<1>3. \A k \in 1..Len(tests) : tests[k].why \notin {"too_large", "tokenizer"}
    BY <1>2
<1>4. "ignored" \in Later /\ "ignored" \in Later /\ index + 1 \in Nat \ {0}
    BY NextIndex DEF Later
<1> QED
    BY <1>1, <1>2, <1>3, <1>4, LaterStageKeepsLayers

LEMMA RegisterKeepsLayers ==
    ASSUME LayersInv, source # NoSource, UNCHANGED <<importVars, origin>>, Register
    PROVE  LayersInv'
<1> DEFINE spec == source.terminals[specs[source.named[index]]]
           scanned == scan_cost + Len(lexemes)
           added == WithLexeme(lexemes, Lexeme[spec.pattern])
           tests == << Test(scan_cost + SpecCost(lexemes) <= MaxRegexFuel, "fuel"),
                       Test(Flaw[spec.pattern] # "unsupported", "regex"),
                       Test(scanned + SpecCost(lexemes) <= MaxRegexFuel, "fuel"),
                       Test(Flaw[spec.pattern] # "invalid", "regex"),
                       Test(scanned + SpecCost(added) <= MaxRegexFuel, "fuel"),
                       Test(Flaw[spec.pattern] # "nullable", "regex") >>
<1>1. /\ step = "regexes"
      /\ \/ Passes(tests, "regexes", index + 1) /\ UNCHANGED <<layer, counted>>
         \/ Fails(tests)
    BY DEF Register, Resolving
<1>2. /\ Len(tests) = 6 /\ tests[1].why = "fuel" /\ tests[2].why = "regex"
      /\ tests[3].why = "fuel" /\ tests[4].why = "regex" /\ tests[5].why = "fuel"
      /\ tests[6].why = "regex"
    BY DEF Test
<1> HIDE DEF tests
<1>3. \A k \in 1..Len(tests) : tests[k].why \notin {"too_large", "tokenizer"}
    BY <1>2
<1>4. "regexes" \in Later /\ "regexes" \in Later /\ index + 1 \in Nat \ {0}
    BY NextIndex DEF Later
<1>5. Len(tests) \in Nat /\ step \in Later
    BY <1>1, <1>2, <1>4
<1> QED
    BY <1>1, <1>3, <1>4, <1>5, LaterStageKeepsLayers

LEMMA BuildRegexesKeepsLayers ==
    ASSUME LayersInv, source # NoSource, UNCHANGED <<importVars, origin>>, BuildRegexes
    PROVE  LayersInv'
<1> DEFINE tests == << Test(scan_cost + SpecCost(lexemes) + RelevanceCost * Len(lexemes) <= MaxRegexFuel, "fuel"),
                       Test(Unmatchable = {}, "regex") >>
<1>1. /\ step = "regexes"
      /\ \/ Passes(tests, "aliases", 1) /\ UNCHANGED <<layer, counted>>
         \/ Fails(tests)
    BY DEF BuildRegexes, Resolving
<1>2. Len(tests) = 2 /\ tests[1].why = "fuel" /\ tests[2].why = "regex"
    BY DEF Test
<1> HIDE DEF tests
<1>3. \A k \in 1..Len(tests) : tests[k].why \notin {"too_large", "tokenizer"}
    BY <1>2
<1>4. "regexes" \in Later /\ "aliases" \in Later /\ 1 \in Nat \ {0}
    BY NextIndex DEF Later
<1> QED
    BY <1>1, <1>2, <1>3, <1>4, LaterStageKeepsLayers

LEMMA CollapseAliasesKeepsLayers ==
    ASSUME LayersInv, source # NoSource, UNCHANGED <<importVars, origin>>, CollapseAliases
    PROVE  LayersInv'
<1> DEFINE groups == {Group(l) : l \in Elements(lexemes)} \ {{}}
           tests == <<Test(\A g \in groups : Cardinality(Least(g)) = 1, "tied")>>
<1>1. /\ step = "aliases"
      /\ \/ Passes(tests, "export", 1) /\ UNCHANGED <<layer, counted>>
         \/ Fails(tests)
    BY DEF CollapseAliases, Resolving
<1>2. Len(tests) = 1 /\ tests[1].why = "tied"
    BY DEF Test
<1> HIDE DEF tests
<1>3. \A k \in 1..Len(tests) : tests[k].why \notin {"too_large", "tokenizer"}
    BY <1>2
<1>4. "aliases" \in Later /\ "export" \in Later /\ 1 \in Nat \ {0}
    BY NextIndex DEF Later
<1> QED
    BY <1>1, <1>2, <1>3, <1>4, LaterStageKeepsLayers

LEMMA DelegatesKeepsLayers ==
    ASSUME LayersInv, source # NoSource, UNCHANGED <<importVars, origin>>, step \in Later, Delegates
    PROVE  LayersInv'
<1> DEFINE tests == <<Test(FALSE, "delegated")>>
<1>1. Fails(tests) /\ Len(tests) = 1 /\ tests[1].why = "delegated"
    BY DEF Delegates, Test
<1> HIDE DEF tests
<1>2. \A k \in 1..Len(tests) : tests[k].why \notin {"too_large", "tokenizer"}
    BY <1>1
<1>3. 1 \in Nat \ {0} /\ step \in Later
    OBVIOUS
<1> QED
    BY <1>1, <1>2, <1>3, LaterStageKeepsLayers

LEMMA ProceedsKeepsLayers ==
    ASSUME LayersInv, source # NoSource, UNCHANGED <<importVars, origin>>, step \in Later,
           NEW tests, Len(tests) \in Nat, \A k \in 1..Len(tests) : tests[k].why \notin {"too_large", "tokenizer"},
           NEW next \in Later, Proceeds(tests, next) \/ Delegates
    PROVE  LayersInv'
<1>1. CASE Proceeds(tests, next)
    <2>1. \/ Passes(tests, next, 1) /\ UNCHANGED <<layer, counted>>
          \/ Fails(tests)
        BY <1>1 DEF Proceeds, Resolving
    <2>2. 1 \in Nat \ {0}
        OBVIOUS
    <2> QED
        BY <2>1, <2>2, LaterStageKeepsLayers
<1> QED
    BY <1>1, DelegatesKeepsLayers

LEMMA LowerKeepsLayers ==
    ASSUME LayersInv, source # NoSource, UNCHANGED <<importVars, origin>>, Lower
    PROVE  LayersInv'
<1> DEFINE tests == << Test(/\ Columns <= MaxTerminals /\ source.rules <= MaxNonterminals
                            /\ source.productions <= MaxProductions, "grammar_too_large"),
                       Test(Columns + source.rules <= MaxParserCells, "grammar_too_large") >>
<1>1. step = "ignored" /\ (Proceeds(tests, "regexes") \/ Delegates)
    BY DEF Lower
<1>2. Len(tests) = 2 /\ tests[1].why = "grammar_too_large" /\ tests[2].why = "grammar_too_large"
    BY DEF Test
<1> HIDE DEF tests
<1>3. \A k \in 1..Len(tests) : tests[k].why \notin {"too_large", "tokenizer"}
    BY <1>2
<1>4. "ignored" \in Later /\ "regexes" \in Later
    BY DEF Later
<1> QED
    BY <1>1, <1>2, <1>3, <1>4, ProceedsKeepsLayers

LEMMA ValidateKeepsLayers ==
    ASSUME LayersInv, source # NoSource, UNCHANGED <<importVars, origin>>, Validate
    PROVE  LayersInv'
<1> DEFINE tests == << Test(source.work + TokenLoad <= MaxWork, "work"),
                       Test(source.bytes + TokenLoad <= MaxLogicalBytes, "bytes") >>
<1>1. step = "validate" /\ (Proceeds(tests, "prepare") \/ Delegates)
    BY DEF Validate
<1>2. Len(tests) = 2 /\ tests[1].why = "work" /\ tests[2].why = "bytes"
    BY DEF Test
<1> HIDE DEF tests
<1>3. \A k \in 1..Len(tests) : tests[k].why \notin {"too_large", "tokenizer"}
    BY <1>2
<1>4. "validate" \in Later /\ "prepare" \in Later
    BY DEF Later
<1> QED
    BY <1>1, <1>2, <1>3, <1>4, ProceedsKeepsLayers

(* The stages that ask nothing of their inputs.                              *)
LEMMA ExportAndPrepareKeepLayers ==
    ASSUME LayersInv, source # NoSource, UNCHANGED <<importVars, origin>>, Export \/ Prepare
    PROVE  LayersInv'
<1>1. PICK next \in Later : step \in Later /\ (Proceeds(<<>>, next) \/ Delegates)
    BY DEF Export, Prepare, Later
<1>2. Len(<<>>) = 0 /\ 0 \in Nat /\ \A k \in 1..0 : FALSE
    OBVIOUS
<1> QED
    BY <1>1, <1>2, ProceedsKeepsLayers

(* Every step of the compiler.                                               *)
LEMMA CompileStepKeepsLayers ==
    ASSUME LayersInv, source # NoSource, UNCHANGED <<importVars, origin>>, CompileNext
    PROVE  LayersInv'
<1>1. CASE Lower \/ Export \/ Validate \/ Prepare
    BY <1>1, LowerKeepsLayers, ValidateKeepsLayers, ExportAndPrepareKeepLayers
<1>2. CASE MakeInputs \/ ReadGrammar \/ MeasureTerminal \/ MeasureIgnored \/ CallNativeCompile
    BY <1>2, MakeInputsKeepsLayers, ReadGrammarKeepsLayers, MeasureTerminalKeepsLayers,
       MeasureIgnoredKeepsLayers,
       CallNativeCompileKeepsLayers
<1>3. CASE PreflightGrammar \/ PreflightItem \/ CallCompile \/ CheckLimits
    BY <1>3, PreflightGrammarKeepsLayers, PreflightItemKeepsLayers, CallCompileKeepsLayers,
       CheckLimitsKeepsLayers
<1>4. CASE ReadYacc \/ MatchSpec \/ MatchNames \/ Ignore \/ Register \/ BuildRegexes \/ CollapseAliases
    BY <1>4, ReadYaccKeepsLayers, MatchSpecKeepsLayers, MatchNamesKeepsLayers, IgnoreKeepsLayers,
       RegisterKeepsLayers, BuildRegexesKeepsLayers, CollapseAliasesKeepsLayers
<1> QED
    BY <1>1, <1>2, <1>3, <1>4 DEF CompileNext
-----------------------------------------------------------------------------
(* What an import has decoded is what its tokens have of bytes.              *)
PaidFor == decoded = SumTo([i \in 1..Len(tokens) |-> Weight(tokens[i])], Len(tokens))

(* What an import hands on is paid for: the bytes of its tokens are those    *)
(* that were decoded.                                                        *)
LEMMA OneMorePaid ==
    ASSUME NEW s \in Seq(Seq(Bytes) \cup {Eos}), NEW x \in Seq(Bytes) \cup {Eos}, NEW t, t = Append(s, x)
    PROVE  SumTo([i \in 1..Len(t) |-> Weight(t[i])], Len(t))
             = SumTo([i \in 1..Len(s) |-> Weight(s[i])], Len(s)) + Weight(x)
<1> DEFINE n == Len(s)
           c == [i \in 1..n |-> Weight(s[i])]
           d == [i \in 1..Len(t) |-> Weight(t[i])]
<1>1. n \in Nat /\ Len(t) = n + 1 /\ t[n + 1] = x /\ \A i \in 1..n : t[i] = s[i]
    OBVIOUS
<1>2. \A i \in 1..n : s[i] \in Seq(Bytes) \cup {Eos}
    BY ElementOfList, Zenon
<1>3. \A y \in Seq(Bytes) \cup {Eos} : Weight(y) \in Nat
    BY DEF Weight
<1>4. c \in Seq(Nat) /\ Len(c) = n
    BY <1>1, <1>2, <1>3
<1>5. \A i \in 1..(n + 1) : Weight(t[i]) \in Nat
    BY <1>1, <1>2, <1>3
<1>6. d \in Seq(Nat) /\ Len(d) = n + 1 /\ d[n + 1] = Weight(x) /\ \A i \in 1..n : d[i] = c[i]
    BY <1>1, <1>5
<1> HIDE DEF c, d, n
<1>7. n \in 0..Len(d) /\ n <= Len(c) /\ n \in 0..n /\ n + 1 \in 1..Len(d) /\ (n + 1) - 1 = n
    BY <1>1, <1>4, <1>6
<1>8. SumTo(d, n) = SumTo(c, n)
    BY <1>4, <1>6, <1>7, SumsOfBeginnings
<1>9. SumTo(d, n + 1) = SumTo(d, n) + d[n + 1]
    BY <1>6, <1>7, SumsRun
<1>10. SumTo(d, Len(t)) = SumTo(c, n) + Weight(x)
    BY <1>1, <1>6, <1>8, <1>9
<1> QED
    BY <1>10 DEF c, d, n

LEMMA EmittedIsPaid ==
    ASSUME ImportInv, ImportInv', PaidFor, EmitToken
    PROVE  PaidFor'
<1> DEFINE id == item - 1
           held == entries[id]
           bytes == IF held = NoEntry THEN <<>> ELSE Decoded(held.piece)
<1>1. /\ phase = "tokens" /\ tokens \in Seq(Seq(Bytes) \cup {Eos}) /\ item \in Nat \ {0}
      /\ Len(tokens) = item - 1
    BY DEF EmitToken, ImportInv, ImportTyped, TokenFacts
<1>2. \/ tokens' = tokens /\ decoded' = decoded
      \/ tokens' = Append(tokens, Eos) /\ decoded' = decoded
      \/ /\ tokens' = Append(tokens, bytes) /\ decoded' = decoded + Len(bytes) /\ ~IsEos(id)
         /\ phase' = "tokens" /\ item' = item + 1 /\ eos_ids' = eos_ids
    BY <1>1 DEF EmitToken, Goes, RefusesUnless
<1>3. CASE tokens' = tokens /\ decoded' = decoded
    BY <1>3 DEF PaidFor
<1>4. CASE tokens' = Append(tokens, Eos) /\ decoded' = decoded
    <2>1. Weight(Eos) = 0 /\ decoded = decoded + 0
        BY DEF Weight, ImportInv, ImportTyped
    <2>2. Eos \in Seq(Bytes) \cup {Eos} /\ tokens \in Seq(Seq(Bytes) \cup {Eos})
        BY <1>1
    <2>3. SumTo([i \in 1..Len(tokens') |-> Weight(tokens'[i])], Len(tokens'))
            = SumTo([i \in 1..Len(tokens) |-> Weight(tokens[i])], Len(tokens)) + Weight(Eos)
        BY <1>4, <2>2, OneMorePaid, Zenon
    <2> QED
        BY <1>4, <2>1, <2>3 DEF PaidFor
<1>5. CASE /\ tokens' = Append(tokens, bytes) /\ decoded' = decoded + Len(bytes) /\ ~IsEos(id)
           /\ phase' = "tokens" /\ item' = item + 1 /\ eos_ids' = eos_ids
    <2> HIDE DEF held, bytes
    <2>1. (tokens \in Seq(Seq(Bytes) \cup {Eos}))' /\ (singleton \subseteq Bytes)'
        BY DEF ImportInv, ImportTyped
    <2>2. item \in 1..Len(tokens') /\ tokens'[item] = bytes /\ Len(tokens') = item
        BY <1>1, <1>5
    <2>3. bytes \in Seq(Bytes) \cup {Eos}
        BY <2>1, <2>2, ElementOfList, Zenon
    <2>4. id \notin Elements(eos_ids)
        <3>1. id \in Nat
            BY <1>1
        <3> QED
            BY <1>1, <1>5, <3>1, EndsHaveBits DEF Merging, ImportInv, id
    <2>5. Len(bytes) = 1 => bytes[1] \in Bytes
        <3>1. item \in 1..(item' - 1) /\ item - 1 \notin Elements(eos_ids')
            BY <1>1, <1>5, <2>4
        <3>2. Len(tokens'[item]) = 1 => tokens'[item][1] \in singleton'
            BY <1>5, <3>1 DEF ImportInv, TokenFacts
        <3> QED
            BY <2>1, <2>2, <3>2
    <2>6. bytes # Eos
        <3> SUFFICES ASSUME bytes = Eos PROVE FALSE
            OBVIOUS
        <3>1. Len(Eos) = 1 /\ Eos[1] = "eos" /\ Eos = <<"eos">>
            BY DEF Eos
        <3>2. "eos" \in Bytes
            BY <2>5, <3>1
        <3>3. <<"eos">> \in Seq(Bytes)
            BY <3>2
        <3> QED
            BY <3>1, <3>3, ImportAssumption
    <2>7. Weight(bytes) = Len(bytes)
        BY <2>6 DEF Weight
    <2> QED
        BY <1>1, <1>5, <2>3, <2>7, OneMorePaid DEF PaidFor
<1> QED
    BY <1>2, <1>3, <1>4, <1>5

LEMMA ImportPays ==
    ASSUME ImportInv, ImportInv', PaidFor, ImportNext
    PROVE  PaidFor'
<1>1. CASE EmitToken
    BY <1>1, EmittedIsPaid
<1>2. CASE ~EmitToken
    <2>1. tokens' = tokens /\ decoded' = decoded
        BY <1>2 DEF ImportNext, FromTransformers, Open, ReadPair, BuildDense, ReadPiece,
           CollectEos, MergeAdded,
                    CheckRange, CoverBytes, Goes, RefusesUnless
    <2> QED
        BY <2>1 DEF PaidFor
<1> QED
    BY <1>1, <1>2

(* An import that has not begun owes nothing.                                *)
LEMMA NothingPaid ==
    ASSUME NEW s, s = <<>>
    PROVE  SumTo([i \in 1..Len(s) |-> Weight(s[i])], Len(s)) = 0
<1>1. Len(s) = 0 /\ [i \in 1..Len(s) |-> Weight(s[i])] \in Seq(Nat)
    OBVIOUS
<1> QED
    BY <1>1, SumsRun

(* A manifest that was imported is one that every layer takes.               *)
LEMMA ImportedManifest ==
    ASSUME ImportInv, PaidFor, phase = "imported", NEW m,
           m = [token_bytes |-> [i \in 1..Len(tokens) |-> IF tokens[i] = Eos THEN <<>> ELSE tokens[i]],
                eos_token_ids |-> Elements(eos_ids)]
    PROVE  /\ TokensOf(m) = tokens /\ Len(m.token_bytes) = Len(tokens)
           /\ m.token_bytes \in Seq(Seq(Bytes)) /\ IsFiniteSet(m.eos_token_ids)
           /\ Len(tokens) > 0 /\ Len(tokens) <= MaxTokens
           /\ m.eos_token_ids # {} /\ m.eos_token_ids \subseteq 0..(Len(tokens) - 1)
           /\ Cardinality(m.eos_token_ids) # Len(tokens)
           /\ <<>> \notin Elements(tokens) /\ TotalOf(tokens, Weight) <= MaxTokenBytes
<1> DEFINE n == Len(tokens)
           ends == Elements(eos_ids)
<1>1. /\ ImportTyped /\ ImportBounded /\ ReadFacts /\ TokenFacts
      /\ tokens \in Seq(Seq(Bytes) \cup {Eos})
    BY DEF ImportInv, ImportTyped
<1>2. /\ m.token_bytes = [i \in 1..n |-> IF tokens[i] = Eos THEN <<>> ELSE tokens[i]]
      /\ m.eos_token_ids = ends /\ n \in Nat /\ DOMAIN tokens = 1..n
    BY <1>1
<1>3. /\ Size \in Nat /\ DOMAIN entries = 0..(Size - 1) /\ entries \in [0..(Size - 1) -> Entry]
    BY <1>1, SizeOfEntries
<1>4. /\ DOMAIN entries # {} /\ ends \subseteq DOMAIN entries /\ item = Size + 1
      /\ n = item - 1 /\ singleton = Bytes
      /\ \A i \in 1..(item - 1) :
           /\ tokens[i] = IF i - 1 \in ends THEN Eos ELSE Decoded(entries[i - 1].piece)
           /\ i - 1 \notin ends => tokens[i] # <<>> /\ (Len(tokens[i]) = 1 => tokens[i][1] \in singleton)
      /\ \A b \in singleton : \E i \in 1..(item - 1) : i - 1 \notin ends /\ tokens[i] = <<b>>
    BY <1>1 DEF TokenFacts
<1>5. n = Size /\ item - 1 = n
    BY <1>3, <1>4
<1>6. ends # {} /\ IsFiniteSet(ends)
    <2>1. eos_ids # <<>> /\ eos_ids \in Seq(Nat \cup {NotAnId})
        BY <1>1, DocumentTyped DEF ReadFacts, Opened
    <2>2. 1 \in 1..Len(eos_ids)
        BY <2>1
    <2>3. eos_ids[1] \in ends
        BY <2>2 DEF Elements
    <2>4. IsFiniteSet(ends)
        BY <2>1, ElementsOfList, Zenon
    <2> QED
        BY <2>3, <2>4
<1> HIDE DEF n, ends
<1>7. \A i \in 1..n : tokens[i] \in Seq(Bytes) \cup {Eos}
    BY <1>1, ElementOfList, Zenon DEF n
<1>8. \A i \in 1..n : i - 1 \notin ends => tokens[i] # Eos
    <2> SUFFICES ASSUME NEW i \in 1..n, i - 1 \notin ends, tokens[i] = Eos PROVE FALSE
        OBVIOUS
    <2>1. Len(Eos) = 1 /\ Eos[1] = "eos" /\ Eos = <<"eos">>
        BY DEF Eos
    <2>2. Len(tokens[i]) = 1 => tokens[i][1] \in Bytes
        BY <1>4, <1>5
    <2>3. "eos" \in Bytes
        BY <2>1, <2>2
    <2>4. <<"eos">> \in Seq(Bytes)
        BY <2>3
    <2> QED
        BY <2>1, <2>4, ImportAssumption
<1>9. m.token_bytes \in Seq(Seq(Bytes)) /\ Len(m.token_bytes) = n
    <2>1. \A i \in 1..n : (IF tokens[i] = Eos THEN <<>> ELSE tokens[i]) \in Seq(Bytes)
        BY <1>7
    <2> QED
        BY <1>2, <2>1
<1>10. TokensOf(m) = tokens
    <2>1. TokensOf(m) = [i \in 1..n |-> IF i - 1 \in ends THEN Eos ELSE m.token_bytes[i]]
        BY <1>2, <1>9 DEF TokensOf
    <2>2. \A i \in 1..n : (IF i - 1 \in ends THEN Eos ELSE m.token_bytes[i]) = tokens[i]
        BY <1>2, <1>4, <1>5, <1>8
    <2>3. tokens = [i \in 1..n |-> tokens[i]]
        BY <1>1, <1>2
    <2> QED
        BY <2>1, <2>2, <2>3
<1>11. n > 0 /\ n <= MaxTokens /\ ends \subseteq 0..(n - 1)
    <2>1. /\ Size <= MaxVocabulary /\ MaxVocabulary <= MaxTokens /\ MaxVocabulary \in Nat
          /\ MaxTokens \in Nat
        BY <1>1, LimitsAssumption, ImportAssumption, CompileAssumption DEF ImportBounded
    <2> QED
        BY <1>3, <1>4, <1>5, <2>1
<1>12. Cardinality(ends) # n
    <2>1. PICK b \in Bytes : TRUE
        BY InputsAssumption
    <2>2. PICK i \in 1..n : i - 1 \notin ends
        BY <1>4, <1>5, <2>1
    <2>3. i - 1 \in 0..(n - 1)
        BY <1>2, <2>2
    <2>4. Cardinality(0..(n - 1)) = n /\ IsFiniteSet(0..(n - 1))
        BY <1>2, SizeOfRange
    <2>5. ends # 0..(n - 1)
        BY <2>2, <2>3
    <2> QED
        BY <1>11, <2>4, <2>5, FS_Subset
<1>13. <<>> \notin Elements(tokens)
    <2>1. \A i \in 1..n : tokens[i] # <<>>
        <3>1. Eos # <<>>
            BY DEF Eos
        <3> QED
            BY <1>4, <1>5, <3>1
    <2> QED
        BY <2>1 DEF Elements, n
<1>14. TotalOf(tokens, Weight) <= MaxTokenBytes
    <2> DEFINE c == [i \in 1..n |-> Weight(tokens[i])]
    <2>1. \A i \in 1..n : Weight(tokens[i]) \in Nat
        BY <1>7 DEF Weight
    <2>2. c \in Seq(Nat) /\ Len(c) = n /\ \A i \in 1..n : c[i] = Weight(tokens[i])
        BY <1>2, <2>1
    <2>3. decoded = SumTo(c, n)
        BY DEF PaidFor, n
    <2> HIDE DEF c
    <2>4. /\ Len(c) = Len(tokens) /\ DOMAIN tokens = 1..Len(tokens)
          /\ \A i \in 1..Len(tokens) : c[i] = Weight(tokens[i])
        BY <1>2, <2>2 DEF n
    <2>5. TotalOf(tokens, Weight) = SumTo(c, Len(c))
        BY <2>2, <2>4, TotalOfTokens
    <2>6. /\ decoded <= MaxDecoded /\ MaxDecoded <= MaxTokenBytes /\ decoded \in Nat
          /\ MaxDecoded \in Nat /\ MaxTokenBytes \in Nat
        BY <1>1, LimitsAssumption, ImportAssumption, CompileAssumption DEF ImportBounded,
           ImportTyped
    <2> QED
        BY <2>2, <2>3, <2>5, <2>6
<1> QED
    BY <1>2, <1>6, <1>9, <1>10, <1>11, <1>12, <1>13, <1>14 DEF n, ends
-----------------------------------------------------------------------------
(* The inputs of a compilation are those that may be given.                  *)
LEMMA InputsAreTyped ==
    /\ \A s \in Sources \cup UserSources : source = s => SourceTyped
    /\ \A m \in Manifests : manifest = m => ManifestTyped
BY InputsAssumption DEF SourceTyped, ManifestTyped

(* The steps that are not of the compiler.                                   *)
LEMMA LayersStart == ToolchainInit => LayersInv
<1> SUFFICES ASSUME ToolchainInit PROVE LayersInv
    OBVIOUS
<1>1. /\ layer = entry /\ verdict = "none" /\ index = 1 /\ counted = Nothing
      /\ entry \in {"facade", "native", "rust"}
      /\ step = IF entry = "facade" THEN "inputs" ELSE IF entry = "native" THEN "grammar" ELSE "limits"
    BY DEF ToolchainInit, CompileStarts
<1>2. /\ origin \in {"transformers", "json", "given"}
      /\ origin # "given" => entry = "facade"
    BY DEF ToolchainInit, CompileStarts
<1>3. /\ phase # "none" => source = NoSource /\ step = "inputs"
      /\ origin = "transformers" => source = NoSource
    BY DEF ToolchainInit, NoImport, CompileStarts
<1>4. source = NoSource \/ (SourceTyped /\ ManifestTyped)
    <2>1. source = NoSource \/ (source \in Sources /\ manifest \in Manifests)
        BY DEF ToolchainInit
    <2> QED
        BY <2>1, InputsAreTyped
<1>5. Nothing \in [{"source", "regex", "tokens"} -> Nat]
    BY DEF Nothing
<1>6. LayersTyped
    BY <1>1, <1>2, <1>3, <1>4, <1>5 DEF LayersTyped, StepsOf, Fresh
<1>7. Measured
    BY <1>1 DEF Measured
<1>8. Admitted
    BY <1>1, <1>2, <1>3 DEF Admitted, Later
<1>9. RefusedRightly
    BY <1>1 DEF RefusedRightly
<1> QED
    BY <1>6, <1>7, <1>8, <1>9 DEF LayersInv

LEMMA ImportKeepsLayers ==
    ASSUME LayersInv, Import
    PROVE  LayersInv'
<1>1. phase # "none" /\ UNCHANGED <<compileVars, origin>>
    BY DEF Import, ImportNext, FromTransformers, Open, ReadPair, BuildDense, ReadPiece,
       CollectEos, MergeAdded,
           CheckRange, EmitToken, CoverBytes
<1>2. UNCHANGED <<entry, source, manifest, layer, step, index, verdict, counted, origin>>
    BY <1>1 DEF compileVars
<1>3. LayersTyped'
    BY <1>1, <1>2, SameInputs DEF LayersInv, LayersTyped, Fresh
<1>4. Measured'
    BY <1>1, <1>2 DEF LayersInv, LayersTyped, Measured
<1>5. Admitted'
    BY <1>2, SameInputs DEF LayersInv, Admitted
<1>6. RefusedRightly'
    BY <1>2, SameInputs DEF LayersInv, RefusedRightly
<1> QED
    BY <1>3, <1>4, <1>5, <1>6 DEF LayersInv

LEMMA UseManifestKeepsLayers ==
    ASSUME LayersInv, ImportInv, PaidFor, UseManifest
    PROVE  LayersInv'
<1>1. /\ phase = "imported" /\ origin = "transformers" /\ phase' = "none"
      /\ source' \in UserSources
      /\ UNCHANGED <<entry, layer, step, index, verdict, counted, origin>>
    BY DEF UseManifest
<1>2. /\ step = "inputs" /\ layer = entry /\ verdict = "none" /\ entry = "facade"
    BY <1>1 DEF LayersInv, LayersTyped, Fresh
<1>3. manifest' = [token_bytes |-> [i \in 1..Len(tokens) |-> IF tokens[i] = Eos THEN <<>> ELSE tokens[i]],
                   eos_token_ids |-> Elements(eos_ids)]
    BY DEF UseManifest
<1>4. /\ TokensOf(manifest') = tokens /\ Len(manifest'.token_bytes) = Len(tokens)
      /\ manifest'.token_bytes \in Seq(Seq(Bytes)) /\ IsFiniteSet(manifest'.eos_token_ids)
      /\ Len(tokens) > 0 /\ Len(tokens) <= MaxTokens
      /\ manifest'.eos_token_ids # {} /\ manifest'.eos_token_ids \subseteq 0..(Len(tokens) - 1)
      /\ Cardinality(manifest'.eos_token_ids) # Len(tokens)
      /\ <<>> \notin Elements(tokens) /\ TotalOf(tokens, Weight) <= MaxTokenBytes
    BY <1>1, <1>3, ImportedManifest
<1>5. Given' = tokens
    BY <1>4 DEF Given
<1>6. ManifestGood'
    BY <1>4, <1>5 DEF ManifestGood, TokenBytes
<1>7. SourceTyped' /\ ManifestTyped'
    <2>1. ManifestTyped'
        BY <1>4 DEF ManifestTyped
    <2>2. SourceTyped'
        BY <1>1, InputsAssumption DEF SourceTyped
    <2> QED
        BY <2>1, <2>2
<1>8. LayersTyped'
    BY <1>1, <1>2, <1>7 DEF LayersInv, LayersTyped, Fresh
<1>9. Measured'
    BY <1>1, <1>2 DEF Measured
<1>10. Admitted'
    BY <1>1, <1>2, <1>6 DEF Admitted, Later
<1>11. RefusedRightly'
    BY <1>1, <1>2 DEF RefusedRightly
<1> QED
    BY <1>8, <1>9, <1>10, <1>11 DEF LayersInv

LEMMA CompileUnchangedKeepsLayers ==
    ASSUME LayersInv, UNCHANGED toolVars
    PROVE  LayersInv'
<1>1. UNCHANGED <<entry, source, manifest, layer, step, index, verdict, counted, origin, phase>>
    BY DEF toolVars, importVars, compileVars
<1>2. LayersTyped'
    BY <1>1, SameInputs DEF LayersInv, LayersTyped, Fresh
<1>3. Measured'
    <2> SUFFICES ASSUME step = "terminals" PROVE Measured'
        BY <1>1 DEF Measured
    <2>1. /\ SourceAt(index - 1)' = SourceAt(index - 1)
          /\ RegexAt(index - 1)' = RegexAt(index - 1)
          /\ TokensAt(index - 1)' = TokensAt(index - 1)
        BY <1>1, CountsKept
    <2> QED
        BY <1>1, <2>1, SameInputs DEF LayersInv, Measured
<1>4. Admitted'
    BY <1>1, SameInputs DEF LayersInv, Admitted
<1>5. RefusedRightly'
    BY <1>1, SameInputs DEF LayersInv, RefusedRightly
<1> QED
    BY <1>2, <1>3, <1>4, <1>5 DEF LayersInv

(* The invariants of the layers, in every state of the toolchain.            *)
LEMMA PaymentStarts == ToolchainInit => PaidFor
BY NothingPaid DEF ToolchainInit, ImportInit, NoImport, PaidFor

LEMMA PaymentKept ==
    ASSUME ImportInv, ImportInv', PaidFor, [ToolchainNext]_toolVars
    PROVE  PaidFor'
<1>1. CASE Import
    BY <1>1, ImportPays DEF Import
<1>2. CASE UseManifest
    <2>1. tokens' = <<>> /\ decoded' = 0
        BY <1>2 DEF UseManifest
    <2> QED
        BY <2>1, NothingPaid DEF PaidFor
<1>3. CASE Compile \/ UNCHANGED toolVars
    BY <1>3 DEF Compile, toolVars, importVars, PaidFor
<1> QED
    BY <1>1, <1>2, <1>3 DEF ToolchainNext

LEMMA LayersKept ==
    ASSUME ImportInv, PaidFor, LayersInv, [ToolchainNext]_toolVars
    PROVE  LayersInv'
<1>1. CASE Import
    BY <1>1, ImportKeepsLayers
<1>2. CASE UseManifest
    BY <1>2, UseManifestKeepsLayers
<1>3. CASE Compile
    BY <1>3, CompileStepKeepsLayers DEF Compile
<1>4. CASE UNCHANGED toolVars
    BY <1>4, CompileUnchangedKeepsLayers
<1> QED
    BY <1>1, <1>2, <1>3, <1>4 DEF ToolchainNext

LEMMA LayersInvAlways == ToolchainSpec => [](ImportInv /\ PaidFor /\ LayersInv)
<1>1. ToolchainInit => PaidFor /\ LayersInv
    BY PaymentStarts, LayersStart
<1>2. ImportInv /\ ImportInv' /\ (PaidFor /\ LayersInv) /\ [ToolchainNext]_toolVars => (PaidFor /\ LayersInv)'
    BY PaymentKept, LayersKept
<1> QED
    BY <1>1, <1>2, ImportInvAlways, PTL DEF ToolchainSpec
-----------------------------------------------------------------------------
(* The resolution of the terminals.                                          *)
(* What a grammar asks of a compilation, from what it is given.              *)
NamesFitIn(s) ==
    /\ \A i \in 1..Len(s.terminals) : s.terminals[i].name \in Elements(s.named)
    /\ \A name \in Elements(s.named) :
         Cardinality({i \in 1..Len(s.terminals) : s.terminals[i].name = name}) = 1
    /\ Elements(s.ignored) \subseteq Elements(s.named) \ s.used
    /\ Cardinality(Elements(s.ignored)) = Len(s.ignored)
SpecIn(s, i) == CHOOSE t \in Elements(s.terminals) : t.name = s.named[i]
LexemeIn(s, i) == Lexeme[SpecIn(s, i).pattern]
FirstLexemes(s, n) == {LexemeIn(s, i) : i \in 1..n}
ScanCosts(s) == [i \in 1..Len(s.named) |-> 1 + Cardinality(FirstLexemes(s, i - 1))]
FuelIn(s) ==
    BaseCost + (LexemeCost + RelevanceCost) * (1 + Cardinality(FirstLexemes(s, Len(s.named))))
             + SumTo(ScanCosts(s), Len(s.named))
WinsIn(s, i) ==
    \A j \in 1..Len(s.named) :
      j # i /\ LexemeIn(s, j) = LexemeIn(s, i) => SpecIn(s, i).priority < SpecIn(s, j).priority
TiedIn(s) ==
    \E i \in 1..Len(s.named) : \A j \in 1..Len(s.named) : LexemeIn(s, j) = LexemeIn(s, i) => ~WinsIn(s, j)
FlawedIn(s) == \E i \in 1..Len(s.named) : Flaw[SpecIn(s, i).pattern] # "none"

Refuted == {"unknown", "duplicate", "missing", "unknown_ignored", "duplicate_ignored", "ignored_used"}

(* Where the layers let through what a stage refuses for its size.           *)
LoadOf(m) == Len(TokensOf(m)) + TotalOf(TokensOf(m), Weight)
NamesGap(s) == Len(s.terminals) <= MaxTerminalSpecs /\ MaxTerminalSpecs < Len(s.named)
GrammarGap(s) ==
    \/ Len(s.terminals) \in MaxTerminals..MaxTerminalSpecs
    \/ s.rules > MaxNonterminals \/ s.productions > MaxProductions
    \/ Len(s.terminals) + s.rules >= MaxParserCells
LoadGap(least, m) == LoadOf(m) \in least..(MaxTokens + MaxTokenBytes)

Justified(why, s, m) ==
    /\ why = "too_many_names" => NamesGap(s)
    /\ why = "grammar_too_large" => GrammarGap(s)
    /\ why = "work" => LoadGap(MaxWork - s.work + 1, m)
    /\ why = "bytes" => LoadGap(MaxLogicalBytes - s.bytes + 1, m)
    /\ why \in Refuted => ~NamesFitIn(s)
    /\ why = "regex" => FlawedIn(s)
    /\ why = "fuel" => FuelIn(s) > MaxRegexFuel
    /\ why = "tied" => TiedIn(s)

(* What the resolution of the names has come to.  Of the terminals, of the   *)
(* ignored names and of the names of the grammar the first n are resolved.   *)
AfterSpecs == {"ignored", "regexes", "aliases", "export", "validate", "prepare", "compiled"}
AfterIgnored == {"regexes", "aliases", "export", "validate", "prepare", "compiled"}
AfterRegexes == {"aliases", "export", "validate", "prepare", "compiled"}
AfterAliases == {"export", "validate", "prepare", "compiled"}

Binding == [lexeme : DOMAIN Flaw, terminal : Nat, priority : Nat]
ResolutionTyped ==
    /\ \A name \in DOMAIN specs : specs[name] \in 1..Len(source.terminals)
    /\ ignored \subseteq DOMAIN specs
    /\ lexemes \in Seq(DOMAIN Flaw \cup {Skip}) /\ scan_cost \in Nat
    /\ bindings \in Seq(Binding)
    /\ \A b \in Elements(bindings) : b.lexeme \in Elements(lexemes)
    /\ \A pair \in aliases : \E b \in Elements(bindings) : pair = <<b.lexeme, b.terminal>>

StartFacts ==
    /\ step \notin {"refused", "specs"} \cup AfterSpecs => specs = NoSpecs
    /\ step \notin {"refused"} \cup AfterSpecs => ignored = {}
    /\ step \notin {"refused"} \cup AfterIgnored => lexemes = <<Skip>> /\ scan_cost = 0 /\ bindings = <<>>
    /\ step \notin {"refused"} \cup AfterAliases => aliases = {}

NameAt(i) == source.terminals[i].name
SpecFacts ==
    LET n == IF step = "specs" THEN index - 1 ELSE Len(source.terminals)
    IN /\ step \in {"specs"} \cup AfterSpecs =>
            /\ n <= Len(source.terminals)
            /\ DOMAIN specs = {NameAt(i) : i \in 1..n}
            /\ \A i \in 1..n : NameAt(i) \in Elements(source.named) /\ specs[NameAt(i)] = i
       /\ step \in AfterSpecs => Elements(source.named) \subseteq DOMAIN specs

IgnoredFacts ==
    LET n == IF step = "ignored" THEN index - 1 ELSE Len(source.ignored)
    IN step \in AfterSpecs =>
         /\ n <= Len(source.ignored)
         /\ ignored = {source.ignored[i] : i \in 1..n}
         /\ \A i \in 1..n : source.ignored[i] \in Elements(source.named) /\ source.ignored[i] \notin source.used
         /\ \A i, j \in 1..n : source.ignored[i] = source.ignored[j] => i = j

BindingIn(s, i) == [lexeme |-> LexemeIn(s, i), terminal |-> i, priority |-> SpecIn(s, i).priority]
RegexFacts ==
    LET n == IF step = "regexes" THEN index - 1 ELSE Len(source.named)
    IN step \in AfterIgnored =>
         /\ n <= Len(source.named)
         /\ Elements(lexemes) = {Skip} \cup FirstLexemes(source, n)
         /\ Len(lexemes) = 1 + Cardinality(FirstLexemes(source, n))
         /\ scan_cost = SumTo(ScanCosts(source), n)
         /\ bindings = [i \in 1..n |-> BindingIn(source, i)]
         /\ \A i \in 1..n : Flaw[SpecIn(source, i).pattern] \in {"none", "unmatchable"}

BuiltFacts ==
    /\ step \in AfterRegexes => ~FlawedIn(source) /\ FuelIn(source) <= MaxRegexFuel
    /\ step \in AfterAliases =>
         /\ aliases = {<<LexemeIn(source, i), i>> : i \in {j \in 1..Len(source.named) : WinsIn(source, j)}}
         /\ FirstLexemes(source, Len(source.named)) = {pair[1] : pair \in aliases}

SourceFacts ==
    /\ step \in {"specs"} \cup AfterSpecs => source.syntax /\ source.directives = {}
    /\ step \notin {"inputs", "grammar", "refused"} => source.utf8

ResolutionInv ==
    /\ StartFacts /\ ResolutionTyped /\ SpecFacts /\ IgnoredFacts /\ RegexFacts
    /\ BuiltFacts /\ SourceFacts
    /\ Justified(verdict, source, manifest)
-----------------------------------------------------------------------------
(* A refusal keeps the invariant when its reason is one that the grammar     *)
(* justifies, or one that is of no concern here.                             *)
LEMMA RefusalKeepsResolution ==
    ASSUME ResolutionInv, NEW tests, Fails(tests), Justified(FirstFailure(tests), source, manifest)
    PROVE  ResolutionInv'
<1>1. /\ step' = "refused" /\ verdict' = FirstFailure(tests)
      /\ UNCHANGED <<source, manifest, specs, ignored, lexemes, scan_cost, bindings, aliases>>
    BY DEF Fails
<1>2. ResolutionTyped'
    BY <1>1 DEF ResolutionInv, ResolutionTyped
<1>3. /\ step' \notin {"specs"} \cup AfterSpecs /\ step' \notin AfterIgnored
      /\ step' \notin AfterRegexes
      /\ step' \notin AfterAliases
    BY <1>1 DEF AfterSpecs, AfterIgnored, AfterRegexes, AfterAliases
<1>4. StartFacts'
    BY <1>1 DEF StartFacts
<1>5. SpecFacts' /\ IgnoredFacts' /\ RegexFacts' /\ BuiltFacts' /\ SourceFacts'
    <2>1. SpecFacts'
        BY <1>3 DEF SpecFacts
    <2>2. IgnoredFacts'
        BY <1>3 DEF IgnoredFacts
    <2>3. RegexFacts'
        BY <1>3 DEF RegexFacts
    <2>4. BuiltFacts'
        BY <1>3 DEF BuiltFacts
    <2>5. SourceFacts'
        BY <1>1, <1>3 DEF SourceFacts
    <2> QED
        BY <2>1, <2>2, <2>3, <2>4, <2>5
<1>6. Justified(verdict, source, manifest)'
    BY <1>1
<1> QED
    BY <1>2, <1>4, <1>5, <1>6 DEF ResolutionInv

(* Most stages refuse for reasons that say nothing of the names, the         *)
(* patterns or their fuel.                                                   *)
Other == {"tokenizer", "too_large", "configuration", "not_utf8", "start_rule", "unsupported", "syntax",
          "delegated"}

LEMMA OtherRefusalKeepsResolution ==
    ASSUME ResolutionInv, NEW tests, Len(tests) \in Nat, \A k \in 1..Len(tests) : tests[k].why \in Other, Fails(tests)
    PROVE  ResolutionInv'
<1>1. PICK k \in 1..Len(tests) : FirstFailure(tests) = tests[k].why
    BY FailingTest
<1>2. FirstFailure(tests) \in Other
    BY <1>1
<1>3. Justified(FirstFailure(tests), source, manifest)
    BY <1>2 DEF Justified, Other, Refuted
<1> QED
    BY <1>3, RefusalKeepsResolution

Early == {"inputs", "grammar", "terminals", "limits", "yacc"}

(* The stages before the grammar is read build nothing.                      *)
LEMMA EarlyStepKeepsResolution ==
    ASSUME ResolutionInv, step \in Early, NEW next \in Early, NEW tests, NEW i,
           Passes(tests, next, i), UNCHANGED Resolution,
           next \in {"inputs", "grammar"} \/ source.utf8
    PROVE  ResolutionInv'
<1>1. /\ step' = next
      /\ UNCHANGED <<source, manifest, verdict, specs, ignored, lexemes, scan_cost, bindings, aliases>>
    BY DEF Passes, Resolution
<1>2. /\ step \notin {"refused", "specs"} \cup AfterSpecs
      /\ step' \notin {"refused", "specs"} \cup AfterSpecs
      /\ step \notin {"refused"} \cup AfterIgnored /\ step \notin {"refused"} \cup AfterAliases
      /\ step' \notin AfterSpecs /\ step' \notin AfterIgnored /\ step' \notin AfterRegexes
      /\ step' \notin AfterAliases
    BY <1>1 DEF Early, AfterSpecs, AfterIgnored, AfterRegexes, AfterAliases
<1>3. /\ specs' = NoSpecs /\ ignored' = {} /\ lexemes' = <<Skip>> /\ scan_cost' = 0
      /\ bindings' = <<>> /\ aliases' = {}
    BY <1>1, <1>2 DEF ResolutionInv, StartFacts
<1>4. StartFacts'
    BY <1>3 DEF StartFacts
<1>5. ResolutionTyped'
    BY <1>1 DEF ResolutionInv, ResolutionTyped
<1>6. SpecFacts'
    BY <1>2 DEF SpecFacts
<1>7. IgnoredFacts'
    BY <1>2 DEF IgnoredFacts
<1>8. RegexFacts'
    BY <1>2 DEF RegexFacts
<1>9. BuiltFacts'
    BY <1>2 DEF BuiltFacts
<1>10. SourceFacts'
    BY <1>1, <1>2 DEF SourceFacts
<1>11. Justified(verdict, source, manifest)'
    BY <1>1 DEF ResolutionInv
<1> QED
    BY <1>4, <1>5, <1>6, <1>7, <1>8, <1>9, <1>10, <1>11 DEF ResolutionInv

(* A stage that counts, and one that hands on.                               *)
LEMMA CountingKeepsResolution ==
    ASSUME ResolutionInv, step \in Early, NEW next \in Early, NEW tests, NEW i, NEW count,
           Len(tests) \in Nat, \A k \in 1..Len(tests) : tests[k].why \in Other,
           Counting(tests, next, i, count),
           Holds(tests) => next \in {"inputs", "grammar"} \/ source.utf8
    PROVE  ResolutionInv'
<1>1. Fails(tests) => ResolutionInv'
    BY OtherRefusalKeepsResolution
<1>2. Passes(tests, next, i) /\ UNCHANGED Resolution => ResolutionInv'
    <2>1. Passes(tests, next, i) => next \in {"inputs", "grammar"} \/ source.utf8
        BY DEF Passes
    <2> QED
        BY <2>1, EarlyStepKeepsResolution
<1> QED
    BY <1>1, <1>2 DEF Counting

LEMMA MakeInputsKeepsResolution == ASSUME ResolutionInv, MakeInputs PROVE ResolutionInv'
<1> DEFINE size == Len(manifest.token_bytes)
           tests ==
             << Test(size > 0, "tokenizer"), Test(size <= MaxTokens, "too_large"),
                Test(manifest.eos_token_ids # {}, "tokenizer"),
                Test(manifest.eos_token_ids \subseteq 0..(size - 1), "tokenizer"),
                Test(Cardinality(manifest.eos_token_ids) # size, "tokenizer"),
                Test(<<>> \notin Elements(Given), "tokenizer"),
                Test(TokenBytes <= MaxTokenBytes, "too_large"),
                Test(\A t \in Elements(source.terminals) : t.name \in Identifiers, "configuration") >>
<1>1. step = "inputs" /\ Counting(tests, "grammar", 1, counted)
    BY DEF MakeInputs
<1>2. Len(tests) = 8 /\ \A k \in 1..8 : tests[k].why \in Other
    BY DEF Test, Other
<1> HIDE DEF tests
<1> QED
    BY <1>1, <1>2, CountingKeepsResolution DEF Early

LEMMA ReadGrammarKeepsResolution == ASSUME ResolutionInv, ReadGrammar PROVE ResolutionInv'
<1> DEFINE tests ==
             << Test(source.utf8, "not_utf8"), Test(source.text <= MaxSourceBytes, "too_large"),
                Test(source.start \in {"absent", "declared"}, "start_rule"),
                Test(TextBytes <= MaxSourceBytes, "too_large") >>
           count == [Nothing EXCEPT !.source = TextBytes]
<1>1. step = "grammar" /\ Counting(tests, "terminals", 1, count)
    BY DEF ReadGrammar
<1>2. Len(tests) = 4 /\ \A k \in 1..4 : tests[k].why \in Other
    BY DEF Test, Other
<1>3. tests[1].holds <=> source.utf8
    BY DEF Test
<1> HIDE DEF tests, count
<1>4. Holds(tests) => source.utf8
    BY <1>2, <1>3 DEF Holds
<1> QED
    BY <1>1, <1>2, <1>4, CountingKeepsResolution DEF Early

LEMMA MeasuringKeepsResolution == ASSUME ResolutionInv, MeasureTerminal \/ MeasureIgnored PROVE ResolutionInv'
<1>1. step = "terminals" /\ source.utf8
    BY DEF MeasureTerminal, MeasureIgnored, ResolutionInv, SourceFacts
<1>2. CASE MeasureTerminal
    <2> DEFINE t == source.terminals[index]
               source_left == MaxSourceBytes - counted.source - SizeOf[t.name]
               regex_left == MaxRegexBytes - counted.regex
               tests == << Test(index <= MaxTerminalSpecs, "too_large"), Test(source_left >= 0, "too_large"),
                           Test(PatternBytes(t) <= source_left /\ PatternBytes(t) <= regex_left, "too_large") >>
               count == [counted EXCEPT !.source = @ + NameBytes(t), !.regex = @ + PatternBytes(t)]
    <2>1. Counting(tests, "terminals", index + 1, count)
        BY <1>1, <1>2 DEF MeasureTerminal
    <2>2. Len(tests) = 3 /\ \A k \in 1..3 : tests[k].why \in Other
        BY DEF Test, Other
    <2> HIDE DEF tests, count
    <2> QED
        BY <1>1, <2>1, <2>2, CountingKeepsResolution DEF Early
<1>3. CASE MeasureIgnored
    <2> DEFINE i == index - Len(source.terminals)
               name == source.ignored[i]
               tests == << Test(i <= MaxIgnoredTerminals, "too_large"), Test(name \in Identifiers, "configuration"),
                           Test(counted.source + SizeOf[name] <= MaxSourceBytes, "too_large") >>
               count == [counted EXCEPT !.source = @ + SizeOf[name]]
    <2>1. Counting(tests, "terminals", index + 1, count)
        BY <1>1, <1>3 DEF MeasureIgnored
    <2>2. Len(tests) = 3 /\ \A k \in 1..3 : tests[k].why \in Other
        BY DEF Test, Other
    <2> HIDE DEF tests, count
    <2> QED
        BY <1>1, <2>1, <2>2, CountingKeepsResolution DEF Early
<1> QED
    BY <1>2, <1>3

LEMMA HandingOnKeepsResolution == ASSUME ResolutionInv, CallNativeCompile \/ CallCompile PROVE ResolutionInv'
<1>1. step = "terminals" /\ source.utf8
    BY DEF CallNativeCompile, CallCompile, ResolutionInv, SourceFacts
<1>2. UNCHANGED Resolution /\ (Passes(<<>>, "grammar", 1) \/ Passes(<<>>, "limits", 1))
    BY DEF CallNativeCompile, CallCompile, HandsOver
<1> QED
    BY <1>1, <1>2, EarlyStepKeepsResolution DEF Early

LEMMA PreflightKeepsResolution == ASSUME ResolutionInv, PreflightGrammar \/ PreflightItem PROVE ResolutionInv'
<1>1. ASSUME NEW count PROVE Len(Within(count)) = 6 /\ \A k \in 1..6 : Within(count)[k].why = "too_large"
    BY DEF Within, Test
<1>2. CASE PreflightGrammar
    <2> DEFINE count == [Nothing EXCEPT !.source = TextBytes]
               tests == Within(Nothing) \o <<Test(source.utf8, "not_utf8")>> \o Within(count)
    <2>1. step = "grammar" /\ Counting(tests, "terminals", 1, count)
        BY <1>2 DEF PreflightGrammar
    <2> HIDE DEF count
    <2>2. /\ Len(tests) = 13
          /\ \A k \in 1..13 : tests[k].why \in {"too_large", "not_utf8"}
          /\ tests[7].holds <=> source.utf8
        BY DEF Within, Test
    <2> HIDE DEF tests
    <2>3. \A k \in 1..13 : tests[k].why \in Other
        BY <2>2 DEF Other
    <2>4. Holds(tests) => source.utf8
        BY <2>2 DEF Holds
    <2>5. Len(tests) \in Nat /\ \A k \in 1..Len(tests) : tests[k].why \in Other
        BY <2>2, <2>3
    <2>6. step \in Early /\ "terminals" \in Early
        BY <2>1 DEF Early
    <2> QED
        BY <2>1, <2>4, <2>5, <2>6, CountingKeepsResolution
<1>3. CASE PreflightItem
    <2>1. step = "terminals" /\ source.utf8
        BY <1>3 DEF PreflightItem, ResolutionInv, SourceFacts
    <2>2. PICK count : Counting(Within(count), "terminals", index + 1, count)
        BY <1>3 DEF PreflightItem
    <2>3. \A k \in 1..Len(Within(count)) : Within(count)[k].why \in Other
        BY <1>1 DEF Other
    <2>4. Len(Within(count)) \in Nat
        BY <1>1
    <2> QED
        BY <2>1, <2>2, <2>3, <2>4, CountingKeepsResolution DEF Early
<1> QED
    BY <1>2, <1>3

LEMMA CheckLimitsKeepsResolution == ASSUME ResolutionInv, CheckLimits PROVE ResolutionInv'
<1> DEFINE names == TotalOf(source.ignored, IgnoredBytes)
           count == [source |-> TextBytes + TotalOf(source.terminals, NameBytes) + names,
                     regex |-> TotalOf(source.terminals, PatternBytes), tokens |-> TokenBytes]
           tests == << Test(Len(source.terminals) <= MaxTerminalSpecs, "too_large"),
                      Test(Len(source.ignored) <= MaxIgnoredTerminals, "too_large"),
                      Test(count.source <= MaxSourceBytes, "too_large"),
                      Test(count.regex <= MaxRegexBytes, "too_large"),
                      Test(Given # <<>>, "tokenizer"), Test(Len(Given) <= MaxTokens, "too_large"),
                      Test(count.tokens <= MaxTokenBytes, "too_large"),
                      Test(<<>> \notin Elements(Given), "tokenizer"),
                      Test(Elements(Given) # {Eos}, "tokenizer"),
                      Test(Eos \in Elements(Given), "tokenizer") >>
<1>1. step = "limits" /\ Counting(tests, "yacc", 1, count)
    BY DEF CheckLimits
<1> HIDE DEF count
<1>2. Len(tests) = 10 /\ \A k \in 1..10 : tests[k].why \in Other
    BY DEF Test, Other
<1> HIDE DEF tests
<1>3. source.utf8
    BY <1>1 DEF ResolutionInv, SourceFacts
<1> QED
    BY <1>1, <1>2, <1>3, CountingKeepsResolution DEF Early
-----------------------------------------------------------------------------
(* What is resolved stays so in the stages after it.                         *)
LEMMA SpecsSettled ==
    ASSUME SpecFacts, UNCHANGED <<source, specs>>, step \in AfterSpecs, step' \in AfterSpecs
    PROVE  SpecFacts'
<1>1. step # "specs" /\ step' # "specs"
    BY DEF AfterSpecs
<1> QED
    BY <1>1 DEF SpecFacts, NameAt

(* What a stage has established, the later ones keep.                        *)
LEMMA IgnoredSettled ==
    ASSUME IgnoredFacts, UNCHANGED <<source, ignored>>, step \in AfterIgnored, step' \in AfterIgnored
    PROVE  IgnoredFacts'
<1>1. step # "ignored" /\ step' # "ignored" /\ step \in AfterSpecs
    BY DEF AfterSpecs, AfterIgnored
<1> QED
    BY <1>1 DEF IgnoredFacts

LEMMA RegexesSettled ==
    ASSUME RegexFacts, UNCHANGED <<source, lexemes, scan_cost, bindings>>, step \in AfterRegexes, step' \in AfterRegexes
    PROVE  RegexFacts'
<1>1. step # "regexes" /\ step' # "regexes" /\ step \in AfterIgnored
    BY DEF AfterRegexes, AfterIgnored
<1>2. source' = source
    OBVIOUS
<1> QED
    BY <1>1, <1>2 DEF RegexFacts

LEMMA SourceSettled ==
    ASSUME ResolutionInv, UNCHANGED <<source, manifest, verdict>>, step \in {"specs"} \cup AfterSpecs, step' \in {"specs"} \cup AfterSpecs
    PROVE  SourceFacts' /\ Justified(verdict, source, manifest)'
<1>1. source.syntax /\ source.directives = {} /\ source.utf8
    BY DEF ResolutionInv, SourceFacts, AfterSpecs
<1>2. SourceFacts'
    BY <1>1 DEF SourceFacts
<1>3. Justified(verdict, source, manifest)'
    BY DEF ResolutionInv
<1> QED
    BY <1>2, <1>3

(* Between two stages nothing is resolved.                                   *)
LEMMA SameResolutionTyped ==
    ASSUME ResolutionInv, UNCHANGED <<source, Resolution>>
    PROVE  ResolutionTyped'
BY DEF ResolutionInv, ResolutionTyped, Resolution

(* A stage that is of another module: it proceeds, or refuses for a reason   *)
(* that is given here or there.                                              *)
LEMMA DelegationKeepsResolution == ASSUME ResolutionInv, Delegates PROVE ResolutionInv'
BY OtherRefusalKeepsResolution DEF Delegates, Test, Other

LEMMA LateStageKeepsResolution ==
    ASSUME ResolutionInv, step \in AfterAliases, NEW next \in AfterAliases, NEW tests,
           Proceeds(tests, next) \/ Delegates,
           Fails(tests) => Justified(FirstFailure(tests), source, manifest)
    PROVE  ResolutionInv'
<1>1. CASE Delegates
    BY <1>1, DelegationKeepsResolution
<1>2. CASE Fails(tests)
    BY <1>2, RefusalKeepsResolution
<1>3. CASE Passes(tests, next, 1) /\ UNCHANGED <<layer, counted, Resolution>>
    <2>1. /\ step' = next
          /\ UNCHANGED <<source, manifest, verdict, specs, ignored, lexemes, scan_cost, bindings, aliases>>
        BY <1>3 DEF Passes, Resolution
    <2>2. /\ step \in AfterSpecs /\ step' \in AfterSpecs /\ step \in AfterIgnored
          /\ step' \in AfterIgnored
          /\ step \in AfterRegexes /\ step' \in AfterRegexes /\ step \in AfterAliases
          /\ step' \in AfterAliases
          /\ step' # "refused"
        BY <2>1 DEF AfterSpecs, AfterIgnored, AfterRegexes, AfterAliases
    <2>3. SpecFacts'
        BY <2>1, <2>2, SpecsSettled DEF ResolutionInv
    <2>4. IgnoredFacts'
        BY <2>1, <2>2, IgnoredSettled DEF ResolutionInv
    <2>5. RegexFacts'
        BY <2>1, <2>2, RegexesSettled DEF ResolutionInv
    <2>6. SourceFacts' /\ Justified(verdict, source, manifest)'
        BY <2>1, <2>2, SourceSettled
    <2>7. BuiltFacts'
        <3>1. source' = source /\ aliases' = aliases
            BY <2>1
        <3> QED
            BY <2>2, <3>1 DEF ResolutionInv, BuiltFacts
    <2>8. StartFacts'
        BY <2>2 DEF StartFacts
    <2>9. ResolutionTyped'
        BY <1>3, <2>1, SameResolutionTyped
    <2> QED
        BY <2>3, <2>4, <2>5, <2>6, <2>7, <2>8, <2>9 DEF ResolutionInv
<1> QED
    BY <1>1, <1>2, <1>3 DEF Proceeds, Resolving

(* The sum of the tokens and of their bytes is one of numbers that fit.      *)
LEMMA LoadFits ==
    ASSUME SourceTyped, ManifestTyped, Fits
    PROVE  /\ TokenLoad = LoadOf(manifest) /\ TokenLoad \in Nat
           /\ TokenLoad <= MaxTokens + MaxTokenBytes
<1>1. TokenLoad = LoadOf(manifest)
    BY DEF TokenLoad, TokenBytes, Given, LoadOf
<1>2. Len(Given) \in Nat /\ TokenBytes \in Nat
    BY GivenTyped, CountsGrow, 0 \in Nat
<1>3. Len(Given) <= MaxTokens /\ TokenBytes <= MaxTokenBytes
    BY DEF Fits
<1>4. MaxTokens \in Nat /\ MaxTokenBytes \in Nat
    BY CompileAssumption
<1> QED
    BY <1>1, <1>2, <1>3, <1>4 DEF TokenLoad

LEMMA ValidateKeepsResolution ==
    ASSUME ResolutionInv, SourceTyped, ManifestTyped, Fits, Validate
    PROVE  ResolutionInv'
<1> DEFINE tests == << Test(source.work + TokenLoad <= MaxWork, "work"),
                       Test(source.bytes + TokenLoad <= MaxLogicalBytes, "bytes") >>
<1>1. step = "validate" /\ (Proceeds(tests, "prepare") \/ Delegates)
    BY DEF Validate
<1>2. /\ Len(tests) = 2 /\ tests[1].why = "work" /\ tests[2].why = "bytes"
      /\ tests[1].holds <=> source.work + TokenLoad <= MaxWork
      /\ tests[2].holds <=> source.bytes + TokenLoad <= MaxLogicalBytes
    BY DEF Test
<1> HIDE DEF tests
<1>3. Fails(tests) => Justified(FirstFailure(tests), source, manifest)
    <2> SUFFICES ASSUME Fails(tests) PROVE Justified(FirstFailure(tests), source, manifest)
        OBVIOUS
    <2>0. 2 \in Nat
        OBVIOUS
    <2>1. PICK k \in 1..2 : ~tests[k].holds /\ FirstFailure(tests) = tests[k].why
        BY <1>2, <2>0, FailingTest, Zenon
    <2>2. {source.work, source.bytes, MaxWork, MaxLogicalBytes, MaxTokens, MaxTokenBytes} \subseteq Nat
        BY SizesTyped, StageLimitsTyped
    <2>3. k = 1 => LoadGap(MaxWork - source.work + 1, manifest)
        BY <1>2, <2>1, <2>2, LoadFits DEF LoadGap
    <2>4. k = 2 => LoadGap(MaxLogicalBytes - source.bytes + 1, manifest)
        BY <1>2, <2>1, <2>2, LoadFits DEF LoadGap
    <2>5. k = 1 \/ k = 2
        BY <2>1
    <2> QED
        BY <1>2, <2>1, <2>3, <2>4, <2>5 DEF Justified, Refuted
<1>4. "validate" \in AfterAliases /\ "prepare" \in AfterAliases
    BY DEF AfterAliases
<1> QED
    BY <1>1, <1>3, <1>4, LateStageKeepsResolution

LEMMA ExportAndPrepareKeepResolution ==
    ASSUME ResolutionInv, Export \/ Prepare
    PROVE  ResolutionInv'
<1>1. PICK next \in AfterAliases : step \in AfterAliases /\ (Proceeds(<<>>, next) \/ Delegates)
    BY DEF Export, Prepare, AfterAliases
<1>2. ~Fails(<<>>)
    <2>1. Len(<<>>) = 0 /\ 0 \in Nat /\ 1..0 = {}
        OBVIOUS
    <2> QED
        BY <2>1, FailingTest
<1> QED
    BY <1>1, <1>2, LateStageKeepsResolution

(* Reading the grammar: that it is text is known by then.                    *)
LEMMA ReadYaccKeepsResolution ==
    ASSUME ResolutionInv, SourceTyped, Fits, ReadYacc
    PROVE  ResolutionInv'
<1> DEFINE tests == << Test(source.directives = {}, "unsupported"), Test(source.syntax, "syntax"),
                       Test(Len(source.named) <= MaxTerminalSpecs, "too_many_names") >>
<1>1. step = "yacc" /\ Resolving(tests, "specs", 1, UNCHANGED Resolution)
    BY DEF ReadYacc
<1>2. /\ Len(tests) = 3 /\ tests[1].why = "unsupported" /\ tests[2].why = "syntax"
      /\ tests[3].why = "too_many_names"
    BY DEF Test
<1>3. /\ tests[1].holds <=> (source.directives = {})
      /\ tests[2].holds <=> source.syntax
      /\ tests[3].holds <=> Len(source.named) <= MaxTerminalSpecs
    BY DEF Test
<1> HIDE DEF tests
<1>4. CASE Fails(tests)
    <2>0. 3 \in Nat
        OBVIOUS
    <2>1. PICK k \in 1..3 : ~tests[k].holds /\ FirstFailure(tests) = tests[k].why
        BY <1>2, <1>4, <2>0, FailingTest, Zenon
    <2>2. k = 1 \/ k = 2 \/ k = 3
        BY <2>1
    <2>3. k = 3 => NamesGap(source)
        <3>1. Len(source.named) \in Nat /\ MaxTerminalSpecs \in Nat
            BY SizesTyped, StageLimitsTyped
        <3> QED
            BY <1>3, <2>1, <3>1 DEF NamesGap, Fits
    <2>4. Justified(FirstFailure(tests), source, manifest)
        BY <1>2, <2>1, <2>2, <2>3 DEF Justified, Refuted
    <2> QED
        BY <1>4, <2>4, RefusalKeepsResolution
<1>5. CASE Passes(tests, "specs", 1) /\ UNCHANGED Resolution
    <2>1. /\ step' = "specs" /\ index' = 1
          /\ UNCHANGED <<source, manifest, verdict, specs, ignored, lexemes, scan_cost, bindings, aliases>>
        BY <1>5 DEF Passes, Resolution
    <2>2. source.directives = {} /\ source.syntax /\ source.utf8
        BY <1>1, <1>2, <1>3, <1>5 DEF Passes, Holds, ResolutionInv, SourceFacts
    <2>3. /\ specs' = NoSpecs /\ ignored' = {} /\ lexemes' = <<Skip>> /\ scan_cost' = 0
          /\ bindings' = <<>> /\ aliases' = {}
        BY <1>1, <2>1 DEF ResolutionInv, StartFacts, AfterSpecs, AfterIgnored, AfterRegexes,
           AfterAliases
    <2>4. StartFacts'
        BY <2>3 DEF StartFacts
    <2>5. ResolutionTyped'
        BY <1>5, <2>1, SameResolutionTyped
    <2>6. SpecFacts'
        <3>1. Len(source'.terminals) \in Nat
            BY <2>1 DEF SourceTyped
        <3>2. index' - 1 = 0 /\ step' \notin AfterSpecs
            BY <2>1 DEF AfterSpecs
        <3>3. DOMAIN specs' = {} /\ 1..0 = {}
            BY <2>3 DEF NoSpecs
        <3> QED
            BY <2>1, <3>1, <3>2, <3>3 DEF SpecFacts
    <2>7. /\ step' \notin AfterSpecs /\ step' \notin AfterIgnored
          /\ step' \notin AfterRegexes /\ step' \notin AfterAliases
        BY <2>1 DEF AfterSpecs, AfterIgnored, AfterRegexes, AfterAliases
    <2>8. IgnoredFacts'
        BY <2>7 DEF IgnoredFacts
    <2>9. RegexFacts'
        BY <2>7 DEF RegexFacts
    <2>10. BuiltFacts'
        BY <2>7 DEF BuiltFacts
    <2>11. SourceFacts'
        BY <2>1, <2>2 DEF SourceFacts
    <2>12. Justified(verdict, source, manifest)'
        BY <2>1 DEF ResolutionInv
    <2> QED
        BY <2>4, <2>5, <2>6, <2>8, <2>9, <2>10, <2>11, <2>12 DEF ResolutionInv
<1> QED
    BY <1>1, <1>4, <1>5 DEF Resolving
-----------------------------------------------------------------------------
(* The names.                                                                *)
LEMMA OneOnly ==
    ASSUME NEW S, Cardinality(S) = 1, NEW i \in S, NEW j \in S, IsFiniteSet(S)
    PROVE  i = j
BY FS_Singleton

(* One terminal of the list is entered under its name: no name is entered    *)
(* twice.                                                                    *)
LEMMA MatchSpecKeepsResolution ==
    ASSUME ResolutionInv, SourceTyped, index \in Nat \ {0}, MatchSpec
    PROVE  ResolutionInv'
<1> DEFINE name == source.terminals[index].name
           tests == << Test(Named(name), "unknown"), Test(name \notin DOMAIN specs, "duplicate") >>
           n == index - 1
           more == /\ specs' = [m \in DOMAIN specs \cup {name} |-> IF m = name THEN index ELSE specs[m]]
                   /\ UNCHANGED <<ignored, lexemes, scan_cost, bindings, aliases>>
<1>1. /\ step = "specs" /\ index \in 1..Len(source.terminals)
      /\ Resolving(tests, "specs", index + 1, more)
    <2>1. Len(source.terminals) \in Nat
        BY DEF SourceTyped
    <2>2. /\ step = "specs" /\ index <= Len(source.terminals)
          /\ Resolving(tests, "specs", index + 1, more)
        BY DEF MatchSpec
    <2> HIDE DEF tests, more
    <2> QED
        BY <2>1, <2>2
<1>2. /\ Len(tests) = 2 /\ tests[1].why = "unknown" /\ tests[2].why = "duplicate"
      /\ tests[1].holds <=> name \in Elements(source.named)
      /\ tests[2].holds <=> name \notin DOMAIN specs
    BY DEF Test, Named
<1>3. name = NameAt(index)
    BY DEF NameAt
<1> HIDE DEF tests, name
<1>4. /\ n \in Nat /\ n <= Len(source.terminals) /\ Len(source.terminals) \in Nat
      /\ DOMAIN specs = {NameAt(i) : i \in 1..n}
      /\ \A i \in 1..n : NameAt(i) \in Elements(source.named) /\ specs[NameAt(i)] = i
    <2>1. Len(source.terminals) \in Nat
        BY DEF SourceTyped
    <2> QED
        BY <1>1, <2>1 DEF ResolutionInv, SpecFacts
<1> HIDE DEF n
<1>5. /\ index = n + 1 /\ index \in 1..index /\ 1..n \subseteq 1..index
      /\ \A i \in 1..index : i = index \/ i \in 1..n
    BY <1>1, <1>4 DEF n
<1>6. CASE Fails(tests)
    <2>1. 2 \in Nat
        OBVIOUS
    <2>2. PICK k \in 1..2 : /\ ~tests[k].holds /\ FirstFailure(tests) = tests[k].why
                            /\ \A j \in 1..(k - 1) : tests[j].holds
        BY <1>2, <1>6, <2>1, FailingTest, Zenon
    <2>3. k \in {1, 2} /\ (k = 2 => tests[1].holds)
        BY <2>2
    <2>4. CASE k = 1
        <3>1. FirstFailure(tests) = "unknown" /\ name \notin Elements(source.named)
            BY <1>2, <2>2, <2>4
        <3>2. ~NamesFitIn(source)
            BY <1>1, <1>3, <3>1 DEF NamesFitIn, NameAt
        <3> QED
            BY <1>6, <3>1, <3>2, RefusalKeepsResolution DEF Justified
    <2>5. CASE k = 2
        <3>1. /\ FirstFailure(tests) = "duplicate" /\ name \in Elements(source.named)
              /\ name \in DOMAIN specs
            BY <1>2, <2>2, <2>3, <2>5
        <3>2. PICK j \in 1..n : NameAt(j) = name
            BY <1>4, <3>1
        <3> DEFINE same == {i \in 1..Len(source.terminals) : source.terminals[i].name = name}
        <3>3. j \in same /\ index \in same /\ j # index
            BY <1>1, <1>3, <1>4, <1>5, <3>2 DEF NameAt
        <3>4. IsFiniteSet(same)
            <4>1. \A m \in Nat : IsFiniteSet(1..m)
                BY FS_Interval
            <4>2. IsFiniteSet(1..Len(source.terminals))
                BY <1>4, <4>1
            <4>3. same \subseteq 1..Len(source.terminals)
                OBVIOUS
            <4> QED
                BY <4>2, <4>3, FS_Subset
        <3>5. Cardinality(same) # 1
            BY <3>3, <3>4, OneOnly
        <3>6. ~NamesFitIn(source)
            BY <3>1, <3>5 DEF NamesFitIn
        <3> QED
            BY <1>6, <3>1, <3>6, RefusalKeepsResolution DEF Justified
    <2> QED
        BY <2>3, <2>4, <2>5
<1>7. CASE Passes(tests, "specs", index + 1) /\ more
    <2>1. /\ step' = "specs" /\ index' = index + 1
          /\ UNCHANGED <<source, manifest, verdict, ignored, lexemes, scan_cost, bindings, aliases>>
          /\ specs' = [m \in DOMAIN specs \cup {name} |-> IF m = name THEN index ELSE specs[m]]
        BY <1>7 DEF Passes
    <2>2. tests[1].holds /\ tests[2].holds
        BY <1>2, <1>7 DEF Passes, Holds
    <2>3. /\ ignored' = {} /\ lexemes' = <<Skip>> /\ scan_cost' = 0 /\ bindings' = <<>>
          /\ aliases' = {}
        BY <1>1, <2>1 DEF ResolutionInv, StartFacts, AfterSpecs, AfterIgnored, AfterRegexes,
           AfterAliases
    <2>4. StartFacts'
        BY <2>1, <2>3 DEF StartFacts
    <2>5. \A m \in DOMAIN specs' : specs'[m] \in 1..Len(source.terminals)
        BY <1>1, <2>1 DEF ResolutionInv, ResolutionTyped
    <2>6. ResolutionTyped'
        BY <2>1, <2>3, <2>5 DEF ResolutionInv, ResolutionTyped
    <2>7. SpecFacts'
        <3>1. DOMAIN specs' = {NameAt(i) : i \in 1..index}
            BY <1>3, <1>4, <1>5, <2>1
        <3>2. \A i \in 1..index : NameAt(i) \in Elements(source.named) /\ specs'[NameAt(i)] = i
            BY <1>2, <1>3, <1>4, <1>5, <2>1, <2>2
        <3>3. /\ index' - 1 = index /\ step' \notin AfterSpecs
              /\ index <= Len(source.terminals) /\ step' = "specs"
            BY <1>1, <2>1 DEF AfterSpecs
        <3>4. \A i : NameAt(i)' = NameAt(i)
            BY <2>1 DEF NameAt
        <3>5. DOMAIN specs' = {NameAt(i)' : i \in 1..index}
            BY <3>1, <3>4
        <3>6. \A i \in 1..index : NameAt(i)' \in Elements(source'.named) /\ specs'[NameAt(i)'] = i
            BY <2>1, <3>2, <3>4
        <3>7. Len(source'.terminals) = Len(source.terminals)
            BY <2>1
        <3> QED
            BY <3>3, <3>5, <3>6, <3>7 DEF SpecFacts
    <2>8. /\ step' \notin AfterSpecs /\ step' \notin AfterIgnored
          /\ step' \notin AfterRegexes /\ step' \notin AfterAliases
        BY <2>1 DEF AfterSpecs, AfterIgnored, AfterRegexes, AfterAliases
    <2>9. IgnoredFacts'
        BY <2>8 DEF IgnoredFacts
    <2>10. RegexFacts'
        BY <2>8 DEF RegexFacts
    <2>11. BuiltFacts'
        BY <2>8 DEF BuiltFacts
    <2>12. SourceFacts' /\ Justified(verdict, source, manifest)'
        BY <1>1, <2>1, SourceSettled
    <2> QED
        BY <2>4, <2>6, <2>7, <2>9, <2>10, <2>11, <2>12 DEF ResolutionInv
<1> QED
    BY <1>1, <1>6, <1>7 DEF Resolving
-----------------------------------------------------------------------------
(* Every name of the grammar has a terminal.                                 *)
LEMMA MatchNamesKeepsResolution ==
    ASSUME ResolutionInv, SourceTyped, index \in Nat \ {0}, MatchNames
    PROVE  ResolutionInv'
<1> DEFINE tests == <<Test(Elements(source.named) \subseteq DOMAIN specs, "missing")>>
<1>1. /\ step = "specs" /\ index > Len(source.terminals)
      /\ Resolving(tests, "ignored", 1, UNCHANGED Resolution)
    BY DEF MatchNames
<1>2. Len(tests) = 1 /\ tests[1].why = "missing"
    BY DEF Test
<1>3. tests[1].holds <=> Elements(source.named) \subseteq DOMAIN specs
    BY DEF Test
<1> HIDE DEF tests
<1>4. Len(source.terminals) \in Nat
    BY DEF SourceTyped
<1>5. /\ index - 1 = Len(source.terminals)
      /\ DOMAIN specs = {NameAt(i) : i \in 1..Len(source.terminals)}
      /\ \A i \in 1..Len(source.terminals) : NameAt(i) \in Elements(source.named) /\ specs[NameAt(i)] = i
    <2>1. index - 1 <= Len(source.terminals)
        BY <1>1 DEF ResolutionInv, SpecFacts
    <2>2. index - 1 = Len(source.terminals)
        BY <1>1, <1>4, <2>1
    <2> QED
        BY <1>1, <2>2 DEF ResolutionInv, SpecFacts
<1>6. CASE Fails(tests)
    <2>1. 1 \in Nat
        OBVIOUS
    <2>2. PICK k \in 1..1 : ~tests[k].holds /\ FirstFailure(tests) = tests[k].why
        BY <1>2, <1>6, <2>1, FailingTest, Zenon
    <2>3. FirstFailure(tests) = "missing" /\ ~(Elements(source.named) \subseteq DOMAIN specs)
        BY <1>2, <1>3, <2>2
    <2>4. PICK name \in Elements(source.named) : name \notin DOMAIN specs
        BY <2>3
    <2>5. {i \in 1..Len(source.terminals) : source.terminals[i].name = name} = {}
        BY <1>5, <2>4 DEF NameAt
    <2>6. ~NamesFitIn(source)
        <3>1. Cardinality({i \in 1..Len(source.terminals) : source.terminals[i].name = name}) = 0
            BY <2>5, FS_EmptySet
        <3> QED
            BY <2>4, <3>1 DEF NamesFitIn
    <2> QED
        BY <1>6, <2>3, <2>6, RefusalKeepsResolution DEF Justified
<1>7. CASE Passes(tests, "ignored", 1) /\ UNCHANGED Resolution
    <2>1. /\ step' = "ignored" /\ index' = 1
          /\ UNCHANGED <<source, manifest, verdict, specs, ignored, lexemes, scan_cost, bindings, aliases>>
        BY <1>7 DEF Passes, Resolution
    <2>2. Elements(source.named) \subseteq DOMAIN specs
        BY <1>2, <1>3, <1>7 DEF Passes, Holds
    <2>3. /\ ignored' = {} /\ lexemes' = <<Skip>> /\ scan_cost' = 0 /\ bindings' = <<>>
          /\ aliases' = {}
        BY <1>1, <2>1 DEF ResolutionInv, StartFacts, AfterSpecs, AfterIgnored, AfterRegexes,
           AfterAliases
    <2>4. StartFacts'
        BY <2>1, <2>3 DEF StartFacts, AfterSpecs
    <2>5. ResolutionTyped'
        BY <1>7, <2>1, SameResolutionTyped
    <2>6. SpecFacts'
        <3>1. step' # "specs"
            BY <2>1
        <3>2. source' = source /\ specs' = specs
            BY <2>1
        <3> QED
            BY <1>4, <1>5, <2>2, <3>1, <3>2 DEF SpecFacts, NameAt
    <2>7. IgnoredFacts'
        <3>1. step' = "ignored" /\ index' - 1 = 0 /\ ignored' = {} /\ source' = source
            BY <2>1, <2>3
        <3>2. 0 <= Len(source.ignored) /\ 1..0 = {}
            BY DEF SourceTyped
        <3> QED
            BY <3>1, <3>2 DEF IgnoredFacts
    <2>8. /\ step' \notin AfterIgnored /\ step' \notin AfterRegexes
          /\ step' \notin AfterAliases /\ step' \in AfterSpecs
        BY <2>1 DEF AfterIgnored, AfterRegexes, AfterAliases, AfterSpecs
    <2>9. RegexFacts' /\ BuiltFacts'
        <3>1. RegexFacts'
            BY <2>8 DEF RegexFacts
        <3>2. BuiltFacts'
            BY <2>8 DEF BuiltFacts
        <3> QED
            BY <3>1, <3>2
    <2>10. SourceFacts' /\ Justified(verdict, source, manifest)'
        BY <1>1, <2>1, <2>8, SourceSettled
    <2> QED
        BY <2>4, <2>5, <2>6, <2>7, <2>9, <2>10 DEF ResolutionInv
<1> QED
    BY <1>1, <1>6, <1>7 DEF Resolving

(* One of the ignored names.                                                 *)
LEMMA IgnoreKeepsResolution ==
    ASSUME ResolutionInv, SourceTyped, index \in Nat \ {0}, Ignore
    PROVE  ResolutionInv'
<1> DEFINE name == source.ignored[index]
           tests == << Test(Named(name), "unknown_ignored"), Test(name \notin ignored, "duplicate_ignored"),
                       Test(name \notin source.used, "ignored_used") >>
           n == index - 1
           more == /\ ignored' = ignored \cup {name}
                   /\ UNCHANGED <<specs, lexemes, scan_cost, bindings, aliases>>
<1>1. /\ step = "ignored" /\ index \in 1..Len(source.ignored)
      /\ Resolving(tests, "ignored", index + 1, more)
    <2>1. Len(source.ignored) \in Nat
        BY DEF SourceTyped
    <2>2. /\ step = "ignored" /\ index <= Len(source.ignored)
          /\ Resolving(tests, "ignored", index + 1, more)
        BY DEF Ignore
    <2> HIDE DEF tests, more
    <2> QED
        BY <2>1, <2>2
<1>2. /\ Len(tests) = 3
      /\ tests[1].why = "unknown_ignored" /\ tests[2].why = "duplicate_ignored"
      /\ tests[3].why = "ignored_used"
    BY DEF Test
<1>3. /\ tests[1].holds <=> name \in Elements(source.named)
      /\ tests[2].holds <=> name \notin ignored
      /\ tests[3].holds <=> name \notin source.used
    BY DEF Test, Named
<1> HIDE DEF tests
<1>4. Len(source.ignored) \in Nat /\ name \in Elements(source.ignored)
    <2>1. Len(source.ignored) \in Nat
        BY DEF SourceTyped
    <2>2. name \in Elements(source.ignored)
        BY <1>1, Zenon DEF Elements, name
    <2> QED
        BY <2>1, <2>2
<1>5. /\ n \in Nat /\ n <= Len(source.ignored)
      /\ ignored = {source.ignored[i] : i \in 1..n}
      /\ \A i \in 1..n : source.ignored[i] \in Elements(source.named) /\ source.ignored[i] \notin source.used
      /\ \A i, j \in 1..n : source.ignored[i] = source.ignored[j] => i = j
    BY <1>1, <1>4 DEF ResolutionInv, IgnoredFacts, AfterSpecs
<1> HIDE DEF n
<1>6. /\ index = n + 1 /\ index \in 1..index /\ 1..n \subseteq 1..index
      /\ \A i \in 1..index : i = index \/ i \in 1..n
    BY <1>1, <1>5 DEF n
<1>7. step \in AfterSpecs /\ "ignored" \in AfterSpecs
    BY <1>1 DEF AfterSpecs
<1>8. CASE Fails(tests)
    <2>1. 3 \in Nat
        OBVIOUS
    <2>2. PICK k \in 1..3 : ~tests[k].holds /\ FirstFailure(tests) = tests[k].why
        BY <1>2, <1>8, <2>1, FailingTest, Zenon
    <2>3. k \in {1, 2, 3}
        OBVIOUS
    <2>4. FirstFailure(tests) \in {"unknown_ignored", "duplicate_ignored", "ignored_used"}
        BY <1>2, <2>2, <2>3
    <2>5. ~NamesFitIn(source)
        <3>1. CASE k = 1
            BY <1>3, <1>4, <2>2, <3>1 DEF NamesFitIn
        <3>2. CASE k = 2
            <4>1. PICK j \in 1..n : source.ignored[j] = name
                BY <1>3, <1>5, <2>2, <3>2
            <4>2. j \in 1..Len(source.ignored) /\ index \in 1..Len(source.ignored) /\ j # index
                BY <1>1, <1>4, <1>5, <1>6
            <4>3. source.ignored \in Seq(DOMAIN SizeOf)
                BY DEF SourceTyped
            <4>4. Cardinality(Elements(source.ignored)) # Len(source.ignored)
                BY <4>1, <4>2, <4>3, ElementsOfList
            <4> QED
                BY <4>4 DEF NamesFitIn
        <3>3. CASE k = 3
            BY <1>3, <1>4, <2>2, <3>3 DEF NamesFitIn
        <3> QED
            BY <2>3, <3>1, <3>2, <3>3
    <2> QED
        BY <1>8, <2>4, <2>5, RefusalKeepsResolution DEF Justified
<1>9. CASE Passes(tests, "ignored", index + 1) /\ more
    <2>1. /\ step' = "ignored" /\ index' = index + 1 /\ ignored' = ignored \cup {name}
          /\ UNCHANGED <<source, manifest, verdict, specs, lexemes, scan_cost, bindings, aliases>>
        BY <1>9 DEF Passes
    <2>2. name \in Elements(source.named) /\ name \notin ignored /\ name \notin source.used
        BY <1>2, <1>3, <1>9 DEF Passes, Holds
    <2>3. lexemes' = <<Skip>> /\ scan_cost' = 0 /\ bindings' = <<>> /\ aliases' = {}
        BY <1>1, <2>1 DEF ResolutionInv, StartFacts, AfterIgnored, AfterRegexes, AfterAliases
    <2>4. StartFacts'
        BY <2>1, <2>3 DEF StartFacts, AfterSpecs
    <2>5. ResolutionTyped'
        <3>1. name \in DOMAIN specs
            BY <1>7, <2>2 DEF ResolutionInv, SpecFacts
        <3> QED
            BY <2>1, <3>1 DEF ResolutionInv, ResolutionTyped
    <2>6. SpecFacts'
        BY <1>7, <2>1, SpecsSettled DEF ResolutionInv
    <2>7. IgnoredFacts'
        <3>1. ignored' = {source.ignored[i] : i \in 1..index}
            BY <1>5, <1>6, <2>1
        <3>2. \A i \in 1..index : source.ignored[i] \in Elements(source.named) /\ source.ignored[i] \notin source.used
            BY <1>5, <1>6, <2>2
        <3>3. \A i, j \in 1..index : source.ignored[i] = source.ignored[j] => i = j
            BY <1>5, <1>6, <2>2
        <3>4. /\ index' - 1 = index /\ step' = "ignored" /\ index <= Len(source.ignored)
              /\ source' = source
            BY <1>1, <2>1
        <3> QED
            BY <3>1, <3>2, <3>3, <3>4 DEF IgnoredFacts
    <2>8. step' \notin AfterIgnored /\ step' \notin AfterRegexes /\ step' \notin AfterAliases
        BY <2>1 DEF AfterIgnored, AfterRegexes, AfterAliases
    <2>9. RegexFacts' /\ BuiltFacts'
        <3>1. RegexFacts'
            BY <2>8 DEF RegexFacts
        <3>2. BuiltFacts'
            BY <2>8 DEF BuiltFacts
        <3> QED
            BY <3>1, <3>2
    <2>10. SourceFacts' /\ Justified(verdict, source, manifest)'
        BY <1>7, <2>1, SourceSettled
    <2> QED
        BY <2>4, <2>5, <2>6, <2>7, <2>9, <2>10 DEF ResolutionInv
<1> QED
    BY <1>1, <1>8, <1>9 DEF Resolving
-----------------------------------------------------------------------------
(* The lexemes of the first terminals, and what they cost.                   *)
LEMMA FirstLexemesAreFew ==
    ASSUME NEW s, NEW n \in Nat
    PROVE  /\ IsFiniteSet(FirstLexemes(s, n)) /\ Cardinality(FirstLexemes(s, n)) \in Nat
           /\ FirstLexemes(s, n + 1) = FirstLexemes(s, n) \cup {LexemeIn(s, n + 1)}
           /\ n = 0 => FirstLexemes(s, n) = {}
<1> DEFINE f == [i \in 1..n |-> LexemeIn(s, i)]
<1>1. f \in Seq(FirstLexemes(s, n)) /\ Len(f) = n
    BY DEF FirstLexemes
<1>2. Elements(f) = FirstLexemes(s, n)
    BY <1>1 DEF Elements, FirstLexemes
<1> HIDE DEF f
<1>3. IsFiniteSet(FirstLexemes(s, n)) /\ Cardinality(FirstLexemes(s, n)) \in Nat
    BY <1>1, <1>2, ElementsOfList
<1>4. \A i \in 1..n + 1 : i = n + 1 \/ i \in 1..n
    OBVIOUS
<1>5. 1..n \subseteq 1..n + 1 /\ n + 1 \in 1..n + 1
    OBVIOUS
<1>6. FirstLexemes(s, n + 1) = FirstLexemes(s, n) \cup {LexemeIn(s, n + 1)}
    BY <1>4, <1>5 DEF FirstLexemes
<1> QED
    BY <1>3, <1>6 DEF FirstLexemes

Lexical(s, n) == Cardinality(FirstLexemes(s, n))

(* How many lexemes the first n names have.                                  *)
LEMMA FirstLexemesGrow ==
    ASSUME NEW s, NEW n \in Nat
    PROVE  /\ Lexical(s, n) \in Nat
           /\ \A m \in n..(n + 1) : Lexical(s, n) <= Lexical(s, m)
           /\ Lexical(s, n + 1) = Lexical(s, n) + (IF LexemeIn(s, n + 1) \in FirstLexemes(s, n) THEN 0 ELSE 1)
           /\ \A k \in Nat : n <= k => Lexical(s, n) <= Lexical(s, k)
<1>1. Lexical(s, n) \in Nat
    BY FirstLexemesAreFew DEF Lexical
<1>2. Lexical(s, n + 1) = Lexical(s, n) + (IF LexemeIn(s, n + 1) \in FirstLexemes(s, n) THEN 0 ELSE 1)
    BY FirstLexemesAreFew, FS_AddElement DEF Lexical
<1>3. \A k \in Nat : n <= k => Lexical(s, n) <= Lexical(s, k)
    <2> TAKE k \in Nat
    <2> HAVE n <= k
    <2>1. FirstLexemes(s, n) \subseteq FirstLexemes(s, k) /\ IsFiniteSet(FirstLexemes(s, k))
        <3>1. 1..n \subseteq 1..k
            OBVIOUS
        <3>2. FirstLexemes(s, n) \subseteq FirstLexemes(s, k)
            BY <3>1 DEF FirstLexemes
        <3> QED
            BY <3>2, FirstLexemesAreFew
    <2> QED
        BY <2>1, FS_Subset DEF Lexical
<1>4. \A m \in n..(n + 1) : Lexical(s, n) <= Lexical(s, m)
    BY <1>3
<1> QED
    BY <1>1, <1>2, <1>3, <1>4

(* What it costs to look for the lexemes of the first n names, one after the *)
(* other, among those before.                                                *)
LEMMA ScanCostsTyped ==
    ASSUME NEW s, Len(s.named) \in Nat
    PROVE  /\ ScanCosts(s) \in Seq(Nat) /\ Len(ScanCosts(s)) = Len(s.named)
           /\ \A n \in 1..Len(s.named) : ScanCosts(s)[n] = 1 + Lexical(s, n - 1)
<1> DEFINE m == Len(s.named)
<1>1. \A n \in 1..m : 1 + Lexical(s, n - 1) \in Nat
    <2> TAKE n \in 1..m
    <2>1. n - 1 \in Nat
        OBVIOUS
    <2> QED
        BY <2>1, FirstLexemesGrow
<1>2. ScanCosts(s) = [n \in 1..m |-> 1 + Lexical(s, n - 1)]
    BY DEF ScanCosts, Lexical
<1> HIDE DEF m
<1>3. m \in Nat
    BY DEF m
<1>4. /\ ScanCosts(s) \in Seq(Nat) /\ Len(ScanCosts(s)) = m
      /\ \A n \in 1..m : ScanCosts(s)[n] = 1 + Lexical(s, n - 1)
    BY <1>1, <1>2, <1>3
<1> QED
    BY <1>4 DEF m

(* The cost of a scan so far is the cost of the terminals so far, and no     *)
(* more than all of them need.                                               *)
Scanned(s, n) == SumTo(ScanCosts(s), n)

LEMMA ScanGrows ==
    ASSUME NEW s, Len(s.named) \in Nat
    PROVE  /\ Scanned(s, 0) = 0
           /\ \A n \in 0..Len(s.named) : Scanned(s, n) \in Nat
           /\ \A n \in 0..Len(s.named) : \A k \in 0..Len(s.named) : n <= k => Scanned(s, n) <= Scanned(s, k)
           /\ \A n \in 0..Len(s.named) : n < Len(s.named) => Scanned(s, n + 1) = Scanned(s, n) + 1 + Lexical(s, n)
<1> DEFINE m == Len(s.named)
           c == ScanCosts(s)
<1>1. c \in Seq(Nat) /\ Len(c) = m /\ \A n \in 1..m : c[n] = 1 + Lexical(s, n - 1)
    BY ScanCostsTyped
<1> HIDE DEF c
<1>2. \A n \in 0..m : SumTo(c, n) \in Nat
    BY <1>1, SumsRun
<1>3. \A n \in 0..m : \A k \in 0..m : n <= k => SumTo(c, n) <= SumTo(c, k)
    BY <1>1, SumsGrow
<1>4. \A n \in 0..m : n < m => SumTo(c, n + 1) = SumTo(c, n) + 1 + Lexical(s, n)
    <2> TAKE n \in 0..m
    <2> HAVE n < m
    <2>1. m \in Nat
        OBVIOUS
    <2>2. n + 1 \in 1..m /\ (n + 1) - 1 = n /\ n \in Nat
        <3> HIDE DEF m
        <3> QED
            BY <2>1
    <2>3. SumTo(c, n + 1) = SumTo(c, n) + c[n + 1]
        BY <1>1, <2>2, SumsRun
    <2>4. c[n + 1] = 1 + Lexical(s, n)
        BY <1>1, <2>2
    <2>5. SumTo(c, n) \in Nat /\ Lexical(s, n) \in Nat
        BY <1>2, <2>2, FirstLexemesGrow
    <2> QED
        BY <2>3, <2>4, <2>5
<1>5. SumTo(c, 0) = 0
    BY <1>1, SumsRun
<1> QED
    BY <1>2, <1>3, <1>4, <1>5 DEF Scanned, c

(* Fuel grows with the number of lexemes.                                    *)
LEMMA ProductsGrow == ASSUME NEW a \in Nat, NEW b \in Nat, NEW c \in Nat, b <= c PROVE a * b \in Nat /\ a * b <= a * c
<1>1. PICK d \in Nat : c = b + d
    <2>1. c = b + (c - b) /\ c - b \in Nat
        OBVIOUS
    <2> QED
        BY <2>1
<1>2. a * c = a * b + a * d
    BY <1>1
<1>3. a * b \in Nat /\ a * d \in Nat
    OBVIOUS
<1> QED
    BY <1>2, <1>3

(* What is spent for a part of the terminals is no more than all of it.      *)
LEMMA FuelForAll ==
    ASSUME NEW s, Len(s.named) \in Nat, NEW n \in 0..Len(s.named), NEW k \in 0..Len(s.named)
    PROVE  /\ FuelIn(s) \in Nat
           /\ Scanned(s, n) + (BaseCost + LexemeCost * (1 + Lexical(s, k))) <= FuelIn(s)
<1> DEFINE m == Len(s.named)
           all == 1 + Lexical(s, m)
           some == 1 + Lexical(s, k)
<1>1. m \in Nat /\ m \in 0..m /\ k \in Nat /\ k <= m /\ n \in Nat /\ n <= m
    OBVIOUS
<1>2. FuelIn(s) = BaseCost + (LexemeCost + RelevanceCost) * all + Scanned(s, m)
    BY DEF FuelIn, Scanned, Lexical
<1>3. Scanned(s, m) \in Nat /\ Scanned(s, n) \in Nat /\ Scanned(s, n) <= Scanned(s, m)
    BY <1>1, ScanGrows
<1>4. all \in Nat /\ some \in Nat /\ some <= all
    <2> HIDE DEF m
    <2>1. Lexical(s, m) \in Nat /\ Lexical(s, k) \in Nat /\ Lexical(s, k) <= Lexical(s, m)
        BY <1>1, FirstLexemesGrow
    <2> QED
        BY <2>1
<1> HIDE DEF m, all, some
<1>5. BaseCost \in Nat /\ LexemeCost \in Nat /\ RelevanceCost \in Nat
    BY CompileAssumption
<1>6. (LexemeCost + RelevanceCost) * all = LexemeCost * all + RelevanceCost * all
    BY <1>4, <1>5
<1>7. LexemeCost * some \in Nat /\ LexemeCost * some <= LexemeCost * all
    BY <1>4, <1>5, ProductsGrow
<1>8. LexemeCost * all \in Nat /\ RelevanceCost * all \in Nat
    BY <1>4, <1>5, ProductsGrow
<1> DEFINE p == LexemeCost * all
           q == RelevanceCost * all
           r == LexemeCost * some
<1> HIDE DEF p, q, r
<1>9. /\ FuelIn(s) = BaseCost + (p + q) + Scanned(s, m) /\ r \in Nat /\ r <= p /\ p \in Nat
      /\ q \in Nat
    BY <1>2, <1>6, <1>7, <1>8 DEF p, q, r
<1>10. FuelIn(s) \in Nat /\ Scanned(s, n) + (BaseCost + r) <= FuelIn(s)
    BY <1>3, <1>5, <1>9
<1> QED
    BY <1>10 DEF r, some
-----------------------------------------------------------------------------
(* The spec of a name is the one that the lookup finds.                      *)
Resolved == Elements(source.named) \subseteq DOMAIN specs /\ SourceTyped
              /\ DOMAIN specs = {NameAt(i) : i \in 1..Len(source.terminals)}
              /\ \A i \in 1..Len(source.terminals) : NameAt(i) \in Elements(source.named) /\ specs[NameAt(i)] = i

(* Once every name is matched, the specification of a name is the one in the *)
(* list.                                                                     *)
LEMMA AllResolved ==
    ASSUME ResolutionInv, SourceTyped, step \in AfterSpecs
    PROVE  Resolved
<1>1. step # "specs"
    BY DEF AfterSpecs
<1> QED
    BY <1>1 DEF ResolutionInv, SpecFacts, Resolved

LEMMA SpecFound ==
    ASSUME Resolved, NEW i \in 1..Len(source.named)
    PROVE  /\ specs[source.named[i]] \in 1..Len(source.terminals)
           /\ source.terminals[specs[source.named[i]]] = SpecIn(source, i)
           /\ SpecIn(source, i).name = source.named[i]
           /\ SpecIn(source, i).pattern \in DOMAIN Flaw /\ SpecIn(source, i).priority \in Nat
           /\ LexemeIn(source, i) \in DOMAIN Flaw /\ LexemeIn(source, i) # Skip
<1> DEFINE name == source.named[i]
           Fits2(t) == t \in Elements(source.terminals) /\ t.name = name
<1>1. name \in Elements(source.named)
    BY DEF Elements
<1>2. PICK j \in 1..Len(source.terminals) : NameAt(j) = name
    BY <1>1 DEF Resolved
<1>3. specs[name] = j
    BY <1>2 DEF Resolved
<1>4. Fits2(source.terminals[j])
    BY <1>2 DEF Elements, NameAt
<1>5. \A t : Fits2(t) => t = source.terminals[j]
    <2> TAKE t
    <2> HAVE Fits2(t)
    <2>1. PICK k \in 1..Len(source.terminals) : t = source.terminals[k]
        BY DEF Elements
    <2>2. NameAt(k) = name
        BY <2>1 DEF NameAt
    <2>3. specs[name] = k
        BY <2>2 DEF Resolved
    <2> QED
        BY <1>3, <2>1, <2>3
<1>6. SpecIn(source, i) = CHOOSE t : Fits2(t)
    BY DEF SpecIn
<1> HIDE DEF Fits2
<1>7. Fits2(CHOOSE t : Fits2(t))
    BY <1>4, Zenon
<1>8. SpecIn(source, i) = source.terminals[j]
    BY <1>5, <1>6, <1>7
<1>9. source.terminals[j] \in [name : DOMAIN SizeOf, pattern : DOMAIN SizeOf \cap DOMAIN Flaw, priority : Nat]
    BY ElementOfList, Zenon DEF Resolved, SourceTyped
<1> DEFINE t == SpecIn(source, i)
<1>10. t.pattern \in DOMAIN Flaw /\ t.priority \in Nat /\ t.name = name
    BY <1>4, <1>8, <1>9 DEF Fits2
<1>11. Lexeme[t.pattern] \in DOMAIN Flaw /\ Lexeme[t.pattern] # Skip
    BY <1>10, CompileAssumption
<1> QED
    BY <1>2, <1>3, <1>8, <1>10, <1>11 DEF LexemeIn

(* A grammar whose names all have a terminal has no more names than          *)
(* terminals.                                                                *)
LEMMA MatchedAreFew ==
    ASSUME SourceTyped,
           \A name \in Elements(source.named) : \E i \in 1..Len(source.terminals) : NameAt(i) = name
    PROVE  Len(source.named) <= Len(source.terminals)
<1> DEFINE S == Elements(source.named)
           n == Len(source.terminals)
           At(name, i) == i \in 1..n /\ NameAt(i) = name
           f == [name \in S |-> CHOOSE i : At(name, i)]
<1>1. \A name \in S : At(name, CHOOSE i : At(name, i))
    <2> TAKE name \in S
    <2>1. \E i : At(name, i)
        OBVIOUS
    <2> HIDE DEF At
    <2> QED
        BY <2>1, Zenon
<1>2. f \in [S -> 1..n] /\ \A name \in S : NameAt(f[name]) = name
    BY <1>1
<1> HIDE DEF f
<1>3. f \in Injection(S, 1..n)
    BY <1>2 DEF Injection, IsInjective
<1>4. n \in Nat
    BY DEF SourceTyped
<1>5. IsFiniteSet(1..n) /\ Cardinality(1..n) = n
    <2>1. 1 \in Int /\ n \in Int
        BY <1>4
    <2> QED
        BY <1>4, <2>1, FS_Interval
<1>6. Cardinality(S) <= Cardinality(1..n)
    BY <1>3, <1>5, FS_Injection
<1> QED
    BY <1>5, <1>6 DEF SourceTyped

(* The grammar itself: its sizes.                                            *)
LEMMA LowerKeepsResolution ==
    ASSUME ResolutionInv, SourceTyped, Fits, index \in Nat \ {0}, Lower
    PROVE  ResolutionInv'
<1> DEFINE tests == << Test(/\ Columns <= MaxTerminals /\ source.rules <= MaxNonterminals
                            /\ source.productions <= MaxProductions, "grammar_too_large"),
                       Test(Columns + source.rules <= MaxParserCells, "grammar_too_large") >>
<1>1. /\ step = "ignored" /\ index > Len(source.ignored)
      /\ Proceeds(tests, "regexes") \/ Delegates
    BY DEF Lower
<1>2. CASE Fails(tests)
    <2>1. /\ Len(tests) = 2
          /\ tests[1].why = "grammar_too_large" /\ tests[2].why = "grammar_too_large"
          /\ tests[1].holds <=> /\ Columns <= MaxTerminals /\ source.rules <= MaxNonterminals
                                /\ source.productions <= MaxProductions
          /\ tests[2].holds <=> Columns + source.rules <= MaxParserCells
        BY DEF Test
    <2> HIDE DEF tests
    <2>0. 2 \in Nat
        OBVIOUS
    <2>2. PICK k \in 1..2 : ~tests[k].holds /\ FirstFailure(tests) = tests[k].why
        BY <1>2, <2>0, <2>1, FailingTest, Zenon
    <2>3. k = 1 \/ k = 2
        BY <2>2
    <2>4. Len(source.named) <= Len(source.terminals)
        <3>1. Resolved
            BY <1>1, AllResolved DEF AfterSpecs
        <3>2. \A name \in Elements(source.named) : \E i \in 1..Len(source.terminals) : NameAt(i) = name
            BY <3>1 DEF Resolved
        <3> QED
            BY <3>2, MatchedAreFew
    <2>5. /\ Len(source.named) \in Nat /\ Len(source.terminals) \in Nat /\ source.rules \in Nat
          /\ source.productions \in Nat /\ Len(source.terminals) <= MaxTerminalSpecs
        BY SizesTyped DEF Fits
    <2>6. GrammarGap(source)
        <3>1. CASE k = 1
            <4>1. \/ ~(Columns <= MaxTerminals) \/ ~(source.rules <= MaxNonterminals)
                  \/ ~(source.productions <= MaxProductions)
                BY <2>1, <2>2, <3>1
            <4> QED
                BY <2>4, <2>5, <4>1, StageLimitsTyped DEF GrammarGap, Columns
        <3>2. CASE k = 2
            <4>1. ~(Columns + source.rules <= MaxParserCells)
                BY <2>1, <2>2, <3>2
            <4> QED
                BY <2>4, <2>5, <4>1, StageLimitsTyped DEF GrammarGap, Columns
        <3> QED
            BY <2>3, <3>1, <3>2
    <2>7. Justified(FirstFailure(tests), source, manifest)
        BY <2>1, <2>2, <2>3, <2>6 DEF Justified, Refuted
    <2> QED
        BY <1>2, <2>7, RefusalKeepsResolution
<1>3. CASE Passes(tests, "regexes", 1) /\ UNCHANGED <<layer, counted, Resolution>>
    <2>1. /\ step' = "regexes" /\ index' = 1
          /\ UNCHANGED <<source, manifest, verdict, specs, ignored, lexemes, scan_cost, bindings, aliases>>
        BY <1>3 DEF Passes, Resolution
    <2>2. /\ step \in AfterSpecs /\ step' \in AfterSpecs /\ step' \in AfterIgnored
          /\ step' \notin AfterRegexes /\ step' \notin AfterAliases
        BY <1>1, <2>1 DEF AfterSpecs, AfterIgnored, AfterRegexes, AfterAliases
    <2>3. SpecFacts'
        BY <2>1, <2>2, SpecsSettled DEF ResolutionInv
    <2>4. IgnoredFacts'
        <3>1. Len(source.ignored) \in Nat
            BY DEF SourceTyped
        <3>2. index - 1 <= Len(source.ignored)
            BY <1>1, <2>2 DEF ResolutionInv, IgnoredFacts
        <3>3. index - 1 = Len(source.ignored)
            BY <1>1, <3>1, <3>2
        <3>4. step' # "ignored" /\ source' = source /\ ignored' = ignored
            BY <2>1
        <3> QED
            BY <1>1, <2>2, <3>1, <3>3, <3>4 DEF ResolutionInv, IgnoredFacts
    <2>5. lexemes' = <<Skip>> /\ scan_cost' = 0 /\ bindings' = <<>> /\ aliases' = {}
        BY <1>1, <2>1 DEF ResolutionInv, StartFacts, AfterIgnored, AfterAliases
    <2>6. RegexFacts'
        <3>1. index' - 1 = 0 /\ step' = "regexes" /\ source' = source
            BY <2>1
        <3>2. Len(source.named) \in Nat
            BY DEF SourceTyped
        <3>3. FirstLexemes(source, 0) = {} /\ Cardinality(FirstLexemes(source, 0)) = 0
            BY FS_EmptySet, FirstLexemesAreFew
        <3>4. SumTo(ScanCosts(source), 0) = 0
            BY <3>2, ScanGrows DEF Scanned
        <3>5. Elements(<<Skip>>) = {Skip} /\ Len(<<Skip>>) = 1
            BY DEF Elements
        <3>6. <<>> = [i \in 1..0 |-> BindingIn(source, i)] /\ 1..0 = {} /\ 0 <= Len(source.named)
            BY <3>2
        <3> QED
            BY <2>2, <2>5, <3>1, <3>3, <3>4, <3>5, <3>6 DEF RegexFacts
    <2>7. SourceFacts' /\ Justified(verdict, source, manifest)'
        BY <2>1, <2>2, SourceSettled
    <2>8. BuiltFacts'
        BY <2>2 DEF BuiltFacts
    <2>9. StartFacts'
        BY <2>2, <2>5 DEF StartFacts
    <2>10. ResolutionTyped'
        BY <1>3, <2>1, SameResolutionTyped
    <2> QED
        BY <2>3, <2>4, <2>6, <2>7, <2>8, <2>9, <2>10 DEF ResolutionInv
<1> QED
    BY <1>1, <1>2, <1>3, DelegationKeepsResolution DEF Proceeds, Resolving

(* One more registration: the lexemes, the cost and the bindings of one name *)
(* more.                                                                     *)
LEMMA LexemesTyped == ASSUME ResolutionTyped PROVE Len(lexemes) \in Nat /\ scan_cost \in Nat
BY DEF ResolutionTyped

(* A lexeme is registered once.                                              *)
LEMMA OneMoreLexeme ==
    ASSUME NEW S, NEW ls \in Seq(S), NEW x \in S
    PROVE  /\ WithLexeme(ls, x) \in Seq(S)
           /\ Elements(WithLexeme(ls, x)) = Elements(ls) \cup {x}
           /\ x \in Elements(ls) => Len(WithLexeme(ls, x)) = Len(ls)
           /\ x \notin Elements(ls) => Len(WithLexeme(ls, x)) = Len(ls) + 1
<1>1. CASE x \in Elements(ls)
    BY <1>1 DEF WithLexeme
<1>2. CASE x \notin Elements(ls)
    <2> DEFINE m == Len(ls)
               new == Append(ls, x)
    <2>1. /\ m \in Nat /\ new \in Seq(S) /\ Len(new) = m + 1 /\ new[m + 1] = x
          /\ \A i \in 1..m : new[i] = ls[i]
        OBVIOUS
    <2> HIDE DEF new
    <2>2. \A i \in 1..(m + 1) : i = m + 1 \/ i \in 1..m
        BY <2>1
    <2>3. 1..m \subseteq 1..(m + 1) /\ m + 1 \in 1..(m + 1)
        BY <2>1
    <2>4. Elements(new) = Elements(ls) \cup {x}
        BY <2>1, <2>2, <2>3 DEF Elements
    <2>5. WithLexeme(ls, x) = new
        BY <1>2 DEF WithLexeme, new
    <2> QED
        BY <1>2, <2>1, <2>4, <2>5
<1> QED
    BY <1>1, <1>2
-----------------------------------------------------------------------------
LEMMA OneMoreBinding ==
    ASSUME NEW S, NEW n \in Nat, NEW new \in Seq(S), Len(new) = n + 1
    PROVE  Append([i \in 1..n |-> new[i]], new[n + 1]) = new
<1> DEFINE old == [i \in 1..n |-> new[i]]
           grown == Append(old, new[n + 1])
<1>1. /\ 1..n \subseteq 1..(n + 1) /\ n + 1 \in 1..(n + 1)
      /\ \A i \in 1..(n + 1) : i = n + 1 \/ i \in 1..n
    OBVIOUS
<1>2. old \in Seq(S) /\ Len(old) = n /\ new[n + 1] \in S
    BY <1>1
<1>3. \A i \in 1..n : old[i] = new[i]
    OBVIOUS
<1> HIDE DEF old
<1>4. /\ grown \in Seq(S) /\ Len(grown) = n + 1 /\ grown[n + 1] = new[n + 1]
      /\ \A i \in 1..n : grown[i] = old[i]
    BY <1>2
<1> HIDE DEF grown
<1>5. \A i \in 1..(n + 1) : grown[i] = new[i]
    BY <1>1, <1>3, <1>4
<1>6. grown = new
    BY <1>4, <1>5, SeqEqual
<1> QED
    BY <1>6 DEF grown, old

(* What there is before a terminal is registered, and after.                 *)
LEMMA LexemesSoFar ==
    ASSUME ResolutionInv, SourceTyped, step = "regexes", index \in Nat \ {0}
    PROVE  /\ index - 1 \in 0..Len(source.named) /\ Len(source.named) \in Nat
           /\ Elements(lexemes) = {Skip} \cup FirstLexemes(source, index - 1)
           /\ Len(lexemes) = 1 + Lexical(source, index - 1)
           /\ scan_cost = Scanned(source, index - 1)
           /\ bindings = [i \in 1..(index - 1) |-> BindingIn(source, i)]
           /\ \A i \in 1..(index - 1) : Flaw[SpecIn(source, i).pattern] \in {"none", "unmatchable"}
           /\ Resolved /\ aliases = {}
           /\ lexemes \in Seq(DOMAIN Flaw \cup {Skip})
<1>1. step \in AfterSpecs /\ step \in AfterIgnored /\ step \notin AfterAliases /\ step # "refused"
    BY DEF AfterSpecs, AfterIgnored, AfterAliases
<1>2. Len(source.named) \in Nat
    BY DEF SourceTyped
<1>3. index - 1 <= Len(source.named)
    BY <1>1 DEF ResolutionInv, RegexFacts
<1>4. index - 1 \in 0..Len(source.named)
    BY <1>2, <1>3
<1>5. /\ Elements(lexemes) = {Skip} \cup FirstLexemes(source, index - 1)
      /\ Len(lexemes) = 1 + Lexical(source, index - 1)
      /\ scan_cost = Scanned(source, index - 1)
      /\ bindings = [i \in 1..(index - 1) |-> BindingIn(source, i)]
      /\ \A i \in 1..(index - 1) : Flaw[SpecIn(source, i).pattern] \in {"none", "unmatchable"}
    BY <1>1 DEF ResolutionInv, RegexFacts, Lexical, Scanned
<1>6. Resolved
    BY <1>1, AllResolved
<1>7. aliases = {}
    BY <1>1 DEF ResolutionInv, StartFacts
<1>8. lexemes \in Seq(DOMAIN Flaw \cup {Skip})
    BY DEF ResolutionInv, ResolutionTyped
<1> QED
    BY <1>2, <1>4, <1>5, <1>6, <1>7, <1>8

LEMMA RegisteredOnce ==
    ASSUME ResolutionInv, SourceTyped, step = "regexes", index \in Nat \ {0}, index <= Len(source.named),
           NEW x, x = LexemeIn(source, index)
    PROVE  /\ WithLexeme(lexemes, x) \in Seq(DOMAIN Flaw \cup {Skip})
           /\ Elements(WithLexeme(lexemes, x)) = {Skip} \cup FirstLexemes(source, index)
           /\ Len(WithLexeme(lexemes, x)) = 1 + Lexical(source, index)
           /\ scan_cost + Len(lexemes) = Scanned(source, index)
<1> DEFINE n == index - 1
<1>1. /\ n \in 0..Len(source.named) /\ Len(source.named) \in Nat
      /\ Elements(lexemes) = {Skip} \cup FirstLexemes(source, n)
      /\ Len(lexemes) = 1 + Lexical(source, n)
      /\ scan_cost = Scanned(source, n) /\ Resolved
      /\ lexemes \in Seq(DOMAIN Flaw \cup {Skip})
    BY LexemesSoFar
<1>2. n \in Nat /\ n + 1 = index /\ n < Len(source.named)
    BY <1>1
<1>3. index \in 1..Len(source.named)
    BY <1>1
<1>4. x \in DOMAIN Flaw /\ x # Skip
    BY <1>1, <1>3, SpecFound
<1>5. /\ FirstLexemes(source, n + 1) = FirstLexemes(source, n) \cup {LexemeIn(source, n + 1)}
      /\ Lexical(source, n + 1) = Lexical(source, n) + (IF LexemeIn(source, n + 1) \in FirstLexemes(source, n) THEN 0 ELSE 1)
      /\ Lexical(source, n) \in Nat
    BY <1>2, FirstLexemesAreFew, FirstLexemesGrow
<1>6. /\ Scanned(source, n + 1) = Scanned(source, n) + 1 + Lexical(source, n)
      /\ Scanned(source, n) \in Nat
    BY <1>1, <1>2, ScanGrows
<1> HIDE DEF n
<1>7. /\ WithLexeme(lexemes, x) \in Seq(DOMAIN Flaw \cup {Skip})
      /\ Elements(WithLexeme(lexemes, x)) = Elements(lexemes) \cup {x}
      /\ x \in Elements(lexemes) => Len(WithLexeme(lexemes, x)) = Len(lexemes)
      /\ x \notin Elements(lexemes) => Len(WithLexeme(lexemes, x)) = Len(lexemes) + 1
    <2> DEFINE S == DOMAIN Flaw \cup {Skip}
    <2>1. x \in S /\ lexemes \in Seq(S)
        BY <1>1, <1>4
    <2> HIDE DEF S
    <2>2. /\ WithLexeme(lexemes, x) \in Seq(S)
          /\ Elements(WithLexeme(lexemes, x)) = Elements(lexemes) \cup {x}
          /\ x \in Elements(lexemes) => Len(WithLexeme(lexemes, x)) = Len(lexemes)
          /\ x \notin Elements(lexemes) => Len(WithLexeme(lexemes, x)) = Len(lexemes) + 1
        BY <2>1, OneMoreLexeme
    <2> QED
        BY <2>2 DEF S
<1>8. x \in Elements(lexemes) <=> x \in FirstLexemes(source, n)
    BY <1>1, <1>4
<1>9. Elements(WithLexeme(lexemes, x)) = {Skip} \cup FirstLexemes(source, index)
    BY <1>1, <1>2, <1>5, <1>7
<1>10. Len(WithLexeme(lexemes, x)) = 1 + Lexical(source, index)
    BY <1>1, <1>2, <1>5, <1>7, <1>8
<1>11. scan_cost + Len(lexemes) = Scanned(source, index)
    BY <1>1, <1>2, <1>5, <1>6
<1> QED
    BY <1>7, <1>9, <1>10, <1>11
-----------------------------------------------------------------------------
LEMMA RegisterKeepsResolution ==
    ASSUME ResolutionInv, SourceTyped, index \in Nat \ {0}, Register
    PROVE  ResolutionInv'
<1> DEFINE spec == source.terminals[specs[source.named[index]]]
           scanned == scan_cost + Len(lexemes)
           added == WithLexeme(lexemes, Lexeme[spec.pattern])
           tests == << Test(scan_cost + SpecCost(lexemes) <= MaxRegexFuel, "fuel"),
                       Test(Flaw[spec.pattern] # "unsupported", "regex"),
                       Test(scanned + SpecCost(lexemes) <= MaxRegexFuel, "fuel"),
                       Test(Flaw[spec.pattern] # "invalid", "regex"),
                       Test(scanned + SpecCost(added) <= MaxRegexFuel, "fuel"),
                       Test(Flaw[spec.pattern] # "nullable", "regex") >>
           binding == [lexeme |-> Lexeme[spec.pattern], terminal |-> index, priority |-> spec.priority]
           more == /\ scan_cost' = scanned /\ lexemes' = added /\ bindings' = Append(bindings, binding)
                   /\ UNCHANGED <<specs, ignored, aliases>>
           n == index - 1
<1>1. /\ step = "regexes" /\ index <= Len(source.named)
      /\ Resolving(tests, "regexes", index + 1, more)
    BY DEF Register
<1>2. /\ Len(tests) = 6
      /\ tests[1].why = "fuel" /\ tests[2].why = "regex" /\ tests[3].why = "fuel"
      /\ tests[4].why = "regex" /\ tests[5].why = "fuel" /\ tests[6].why = "regex"
    BY DEF Test
<1>3. /\ tests[1].holds <=> scan_cost + SpecCost(lexemes) <= MaxRegexFuel
      /\ tests[2].holds <=> Flaw[spec.pattern] # "unsupported"
      /\ tests[3].holds <=> scanned + SpecCost(lexemes) <= MaxRegexFuel
      /\ tests[4].holds <=> Flaw[spec.pattern] # "invalid"
      /\ tests[5].holds <=> scanned + SpecCost(added) <= MaxRegexFuel
      /\ tests[6].holds <=> Flaw[spec.pattern] # "nullable"
    BY DEF Test
<1> HIDE DEF tests
<1>4. /\ n \in 0..Len(source.named) /\ Len(source.named) \in Nat
      /\ Len(lexemes) = 1 + Lexical(source, n) /\ scan_cost = Scanned(source, n)
      /\ bindings = [i \in 1..n |-> BindingIn(source, i)]
      /\ \A i \in 1..n : Flaw[SpecIn(source, i).pattern] \in {"none", "unmatchable"}
      /\ Resolved /\ aliases = {}
    BY <1>1, LexemesSoFar
<1>5. /\ index \in 1..Len(source.named) /\ index = n + 1 /\ n \in Nat
      /\ index \in 0..Len(source.named)
    <2> DEFINE m == Len(source.named)
    <2>1. m \in Nat /\ index <= m
        BY <1>1, <1>4
    <2> HIDE DEF m, tests, spec, added, scanned, binding
    <2>2. index \in 1..m /\ index = n + 1 /\ n \in Nat /\ index \in 0..m
        BY <2>1
    <2> QED
        BY <2>2 DEF m
<1>6. spec = SpecIn(source, index) /\ spec.pattern \in DOMAIN Flaw /\ spec.priority \in Nat
    BY <1>4, <1>5, SpecFound
<1>7. Lexeme[spec.pattern] = LexemeIn(source, index) /\ binding = BindingIn(source, index)
    BY <1>6 DEF LexemeIn, BindingIn
<1>8. /\ added \in Seq(DOMAIN Flaw \cup {Skip})
      /\ Elements(added) = {Skip} \cup FirstLexemes(source, index)
      /\ Len(added) = 1 + Lexical(source, index)
      /\ scanned = Scanned(source, index)
    BY <1>1, <1>7, RegisteredOnce
<1> HIDE DEF n, spec, added, scanned, binding
<1>9. CASE Fails(tests)
    <2>1. 6 \in Nat
        OBVIOUS
    <2>2. PICK k \in 1..6 : ~tests[k].holds /\ FirstFailure(tests) = tests[k].why
        BY <1>2, <1>9, <2>1, FailingTest, Zenon
    <2>3. k \in {1, 2, 3, 4, 5, 6}
        OBVIOUS
    <2>4. k \in {2, 4, 6} => FlawedIn(source)
        <3>1. k \in {2, 4, 6} => Flaw[spec.pattern] # "none"
            BY <1>3, <2>2
        <3> QED
            BY <1>5, <1>6, <3>1 DEF FlawedIn
    <2>5. k \in {1, 3, 5} => FuelIn(source) > MaxRegexFuel
        <3>1. /\ FuelIn(source) \in Nat
              /\ Scanned(source, n) + (BaseCost + LexemeCost * (1 + Lexical(source, n))) <= FuelIn(source)
              /\ Scanned(source, index) + (BaseCost + LexemeCost * (1 + Lexical(source, n))) <= FuelIn(source)
              /\ Scanned(source, index) + (BaseCost + LexemeCost * (1 + Lexical(source, index))) <= FuelIn(source)
            BY <1>4, <1>5, FuelForAll
        <3>2. /\ scan_cost + SpecCost(lexemes) <= FuelIn(source)
              /\ scanned + SpecCost(lexemes) <= FuelIn(source)
              /\ scanned + SpecCost(added) <= FuelIn(source)
            BY <1>4, <1>8, <3>1 DEF SpecCost
        <3>3. /\ SpecCost(lexemes) \in Nat /\ SpecCost(added) \in Nat /\ scan_cost \in Nat
              /\ scanned \in Nat
            <4>1. 1 + Lexical(source, n) \in Nat /\ 1 + Lexical(source, index) \in Nat
                <5>1. index \in Nat
                    OBVIOUS
                <5>2. Lexical(source, n) \in Nat /\ Lexical(source, index) \in Nat
                    BY <1>5, <5>1, FirstLexemesGrow
                <5> QED
                    BY <5>2
            <4>2. /\ LexemeCost * Len(lexemes) \in Nat /\ LexemeCost * Len(added) \in Nat
                  /\ BaseCost \in Nat
                <5>1. LexemeCost \in Nat /\ BaseCost \in Nat
                    BY CompileAssumption
                <5>2. Len(lexemes) \in Nat /\ Len(added) \in Nat
                    BY <1>4, <1>8, <4>1
                <5> QED
                    BY <5>1, <5>2, ProductsGrow
            <4>3. scan_cost \in Nat /\ scanned \in Nat
                BY <1>4, <1>5, <1>8, ScanGrows
            <4> QED
                BY <4>2, <4>3 DEF SpecCost
        <3> DEFINE a == scan_cost + SpecCost(lexemes)
                   b == scanned + SpecCost(lexemes)
                   c == scanned + SpecCost(added)
        <3>4. /\ a \in Nat /\ b \in Nat /\ c \in Nat /\ a <= FuelIn(source)
              /\ b <= FuelIn(source) /\ c <= FuelIn(source)
            BY <3>2, <3>3
        <3>5. k \in {1, 3, 5} => ~(a <= MaxRegexFuel) \/ ~(b <= MaxRegexFuel) \/ ~(c <= MaxRegexFuel)
            BY <1>3, <2>2
        <3> HIDE DEF a, b, c
        <3>6. MaxRegexFuel \in Nat
            BY CompileAssumption
        <3> QED
            BY <3>1, <3>4, <3>5, <3>6
    <2>6. Justified(FirstFailure(tests), source, manifest)
        <3>1. /\ k \in {2, 4, 6} => FirstFailure(tests) = "regex"
              /\ k \in {1, 3, 5} => FirstFailure(tests) = "fuel"
              /\ k \in {2, 4, 6} \/ k \in {1, 3, 5}
            BY <1>2, <2>2, <2>3
        <3> QED
            BY <2>4, <2>5, <3>1 DEF Justified, Refuted
    <2> QED
        BY <1>9, <2>6, RefusalKeepsResolution
<1>10. CASE Passes(tests, "regexes", index + 1) /\ more
    <2>1. /\ step' = "regexes" /\ index' = index + 1 /\ lexemes' = added /\ scan_cost' = scanned
          /\ bindings' = Append(bindings, binding)
          /\ UNCHANGED <<source, manifest, verdict, specs, ignored, aliases>>
        BY <1>10 DEF Passes
    <2>2. /\ step \in AfterSpecs /\ step' \in AfterSpecs /\ step \in AfterIgnored
          /\ step' \in AfterIgnored
          /\ step' \notin AfterRegexes /\ step' \notin AfterAliases
        BY <1>1, <2>1 DEF AfterSpecs, AfterIgnored, AfterRegexes, AfterAliases
    <2>3. Flaw[spec.pattern] \in {"none", "unmatchable"}
        <3>1. tests[2].holds /\ tests[4].holds /\ tests[6].holds
            BY <1>2, <1>10 DEF Passes, Holds
        <3> QED
            BY <1>3, <1>6, <3>1, CompileAssumption
    <2>4. SpecFacts'
        BY <2>1, <2>2, SpecsSettled DEF ResolutionInv
    <2>5. IgnoredFacts'
        BY <2>1, <2>2, IgnoredSettled DEF ResolutionInv
    <2> DEFINE all == [i \in 1..index |-> BindingIn(source, i)]
    <2>6. /\ all \in Seq(Binding) /\ Len(all) = index /\ bindings' = all
          /\ \A b \in Elements(all) : b.lexeme \in FirstLexemes(source, index)
        <3>1. \A i \in 1..index : i \in 1..Len(source.named)
            BY <1>4, <1>5
        <3>2. \A i \in 1..index : BindingIn(source, i) \in Binding
            BY <3>1, <1>4, SpecFound DEF BindingIn, Binding
        <3>3. all \in Seq(Binding) /\ Len(all) = index
            BY <3>2
        <3>4. \A i \in 1..index : all[i] = BindingIn(source, i) /\ all[i].lexeme \in FirstLexemes(source, index)
            BY DEF BindingIn, FirstLexemes
        <3>5. bindings = [i \in 1..n |-> all[i]] /\ binding = all[n + 1]
            <4>1. \A i \in 1..n : i \in 1..index
                BY <1>5
            <4>2. \A i \in 1..n : all[i] = BindingIn(source, i)
                BY <3>4, <4>1
            <4> HIDE DEF all
            <4>3. index \in 1..index
                BY <1>5
            <4>4. bindings = [i \in 1..n |-> all[i]]
                BY <1>4, <4>2
            <4> QED
                BY <1>5, <1>7, <3>4, <4>3, <4>4
        <3> HIDE DEF all
        <3>6. bindings' = all
            BY <1>5, <2>1, <3>3, <3>5, OneMoreBinding
        <3>7. \A b \in Elements(all) : b.lexeme \in FirstLexemes(source, index)
            BY <3>3, <3>4 DEF Elements
        <3> QED
            BY <3>3, <3>6, <3>7
    <2>7. RegexFacts'
        <3>1. /\ index' - 1 = index /\ step' = "regexes" /\ source' = source
              /\ index <= Len(source.named)
            BY <1>1, <2>1
        <3>2. \A i \in 1..index : Flaw[SpecIn(source, i).pattern] \in {"none", "unmatchable"}
            <4>1. \A i \in 1..index : i = index \/ i \in 1..n
                BY <1>5
            <4> QED
                BY <1>4, <1>6, <2>3, <4>1
        <3>3. /\ Elements(lexemes') = {Skip} \cup FirstLexemes(source, index)
              /\ Len(lexemes') = 1 + Cardinality(FirstLexemes(source, index))
              /\ scan_cost' = SumTo(ScanCosts(source), index)
            BY <1>8, <2>1 DEF Lexical, Scanned
        <3> QED
            BY <2>2, <2>6, <3>1, <3>2, <3>3 DEF RegexFacts
    <2>8. ResolutionTyped'
        <3>1. Scanned(source, index) \in Nat
            BY <1>4, <1>5, ScanGrows
        <3>2. \A b \in Elements(bindings') : b.lexeme \in Elements(lexemes')
            BY <1>8, <2>1, <2>6
        <3>3. \A pair \in aliases' : \E b \in Elements(bindings') : pair = <<b.lexeme, b.terminal>>
            BY <1>4, <2>1
        <3>4. /\ lexemes' \in Seq(DOMAIN Flaw \cup {Skip}) /\ scan_cost' \in Nat
              /\ bindings' \in Seq(Binding)
            BY <1>8, <2>1, <2>6, <3>1
        <3> QED
            BY <2>1, <3>2, <3>3, <3>4 DEF ResolutionInv, ResolutionTyped
    <2>9. SourceFacts' /\ Justified(verdict, source, manifest)'
        BY <2>1, <2>2, SourceSettled
    <2>10. BuiltFacts'
        BY <2>2 DEF BuiltFacts
    <2>11. StartFacts'
        BY <1>4, <2>1, <2>2 DEF StartFacts
    <2> QED
        BY <2>4, <2>5, <2>7, <2>8, <2>9, <2>10, <2>11 DEF ResolutionInv
<1> QED
    BY <1>1, <1>9, <1>10 DEF Resolving
-----------------------------------------------------------------------------
(* All names are registered and the expressions built.                       *)
LEMMA BuildRegexesKeepsResolution ==
    ASSUME ResolutionInv, SourceTyped, index \in Nat \ {0}, BuildRegexes
    PROVE  ResolutionInv'
<1> DEFINE fuel == scan_cost + SpecCost(lexemes) + RelevanceCost * Len(lexemes)
           tests == << Test(fuel <= MaxRegexFuel, "fuel"), Test(Unmatchable = {}, "regex") >>
           m == Len(source.named)
<1>1. step = "regexes" /\ index > m /\ Resolving(tests, "aliases", 1, UNCHANGED Resolution)
    BY DEF BuildRegexes
<1>2. Len(tests) = 2 /\ tests[1].why = "fuel" /\ tests[2].why = "regex"
    BY DEF Test
<1>3. /\ tests[1].holds <=> fuel <= MaxRegexFuel
      /\ tests[2].holds <=> Unmatchable = {}
    BY DEF Test
<1> HIDE DEF tests, fuel
<1>4. /\ index - 1 \in 0..m /\ m \in Nat
      /\ Elements(lexemes) = {Skip} \cup FirstLexemes(source, index - 1)
      /\ Len(lexemes) = 1 + Lexical(source, index - 1) /\ scan_cost = Scanned(source, index - 1)
      /\ bindings = [i \in 1..(index - 1) |-> BindingIn(source, i)]
      /\ \A i \in 1..(index - 1) : Flaw[SpecIn(source, i).pattern] \in {"none", "unmatchable"}
      /\ Resolved /\ aliases = {}
    BY <1>1, LexemesSoFar
<1> HIDE DEF m
<1>5. index - 1 = m
    BY <1>1, <1>4
<1>6. /\ Elements(lexemes) = {Skip} \cup FirstLexemes(source, m)
      /\ Len(lexemes) = 1 + Lexical(source, m) /\ scan_cost = Scanned(source, m)
      /\ bindings = [i \in 1..m |-> BindingIn(source, i)]
      /\ \A i \in 1..m : Flaw[SpecIn(source, i).pattern] \in {"none", "unmatchable"}
    BY <1>4, <1>5
<1>7. fuel = FuelIn(source) /\ FuelIn(source) \in Nat /\ MaxRegexFuel \in Nat
    <2> DEFINE all == 1 + Lexical(source, m)
    <2>1. FuelIn(source) = BaseCost + (LexemeCost + RelevanceCost) * all + Scanned(source, m)
        BY DEF FuelIn, Scanned, Lexical, m
    <2>2. fuel = Scanned(source, m) + (BaseCost + LexemeCost * all) + RelevanceCost * all
        BY <1>6 DEF fuel, SpecCost
    <2>3. all \in Nat /\ Scanned(source, m) \in Nat /\ FuelIn(source) \in Nat
        <3>1. m \in 0..m /\ m \in Nat
            BY <1>4
        <3>2. Lexical(source, m) \in Nat
            BY <1>4, FirstLexemesGrow
        <3>3. Scanned(source, m) \in Nat
            BY <3>1, ScanGrows DEF m
        <3>4. FuelIn(source) \in Nat
            BY <3>1, FuelForAll DEF m
        <3> QED
            BY <3>2, <3>3, <3>4
    <2>4. BaseCost \in Nat /\ LexemeCost \in Nat /\ RelevanceCost \in Nat /\ MaxRegexFuel \in Nat
        BY CompileAssumption
    <2> HIDE DEF all, fuel
    <2> DEFINE p == LexemeCost * all
               q == RelevanceCost * all
    <2>5. p \in Nat /\ q \in Nat /\ (LexemeCost + RelevanceCost) * all = p + q
        BY <2>3, <2>4
    <2>6. fuel = Scanned(source, m) + (BaseCost + p) + q
        BY <2>2 DEF p, q
    <2> HIDE DEF p, q
    <2> QED
        BY <2>1, <2>3, <2>4, <2>5, <2>6
<1>8. Unmatchable = {} <=> \A i \in 1..m : Flaw[SpecIn(source, i).pattern] # "unmatchable"
    <2>1. \A i \in 1..m : /\ LexemeIn(source, i) # Skip
                          /\ Flaw[LexemeIn(source, i)] = "unmatchable" <=> Flaw[SpecIn(source, i).pattern] = "unmatchable"
        <3> TAKE i \in 1..m
        <3>1. i \in 1..Len(source.named)
            BY DEF m
        <3>2. LexemeIn(source, i) # Skip /\ SpecIn(source, i).pattern \in DOMAIN Flaw
            BY <3>1, <1>4, SpecFound
        <3> QED
            BY <3>2, CompileAssumption DEF LexemeIn
    <2>2. Elements(lexemes) \ {Skip} = {LexemeIn(source, i) : i \in 1..m}
        BY <1>6, <2>1 DEF FirstLexemes
    <2> QED
        BY <2>1, <2>2 DEF Unmatchable
<1>9. CASE Fails(tests)
    <2>1. 2 \in Nat
        OBVIOUS
    <2>2. PICK k \in 1..2 : ~tests[k].holds /\ FirstFailure(tests) = tests[k].why
        BY <1>2, <1>9, <2>1, FailingTest, Zenon
    <2>3. k \in {1, 2}
        OBVIOUS
    <2>4. CASE k = 1
        <3>1. ~(FuelIn(source) <= MaxRegexFuel) /\ FirstFailure(tests) = "fuel"
            BY <1>2, <1>3, <1>7, <2>2, <2>4
        <3>2. FuelIn(source) > MaxRegexFuel
            BY <1>7, <3>1
        <3> QED
            BY <1>9, <3>1, <3>2, RefusalKeepsResolution DEF Justified, Refuted
    <2>5. CASE k = 2
        <3>1. Unmatchable # {} /\ FirstFailure(tests) = "regex"
            BY <1>2, <1>3, <2>2, <2>5
        <3>2. PICK i \in 1..m : Flaw[SpecIn(source, i).pattern] = "unmatchable"
            BY <1>8, <3>1
        <3>3. FlawedIn(source)
            BY <3>2 DEF FlawedIn, m
        <3> QED
            BY <1>9, <3>1, <3>3, RefusalKeepsResolution DEF Justified, Refuted
    <2> QED
        BY <2>3, <2>4, <2>5
<1>10. CASE Passes(tests, "aliases", 1) /\ UNCHANGED Resolution
    <2>1. /\ step' = "aliases" /\ index' = 1
          /\ UNCHANGED <<source, manifest, verdict, specs, ignored, lexemes, scan_cost, bindings, aliases>>
        BY <1>10 DEF Passes, Resolution
    <2>2. /\ step \in AfterSpecs /\ step' \in AfterSpecs /\ step \in AfterIgnored
          /\ step' \in AfterIgnored
          /\ step' \in AfterRegexes /\ step' \notin AfterAliases
        BY <1>1, <2>1 DEF AfterSpecs, AfterIgnored, AfterRegexes, AfterAliases
    <2>3. tests[1].holds /\ tests[2].holds
        BY <1>2, <1>10 DEF Passes, Holds
    <2>4. /\ FuelIn(source) <= MaxRegexFuel
          /\ \A i \in 1..m : Flaw[SpecIn(source, i).pattern] = "none"
        BY <1>3, <1>6, <1>7, <1>8, <2>3
    <2>5. SpecFacts'
        BY <2>1, <2>2, SpecsSettled DEF ResolutionInv
    <2>6. IgnoredFacts'
        BY <2>1, <2>2, IgnoredSettled DEF ResolutionInv
    <2>7. RegexFacts'
        <3>1. step' # "regexes" /\ source' = source
            BY <2>1
        <3>2. m <= m /\ Len(source.named) = m
            BY <1>4 DEF m
        <3> QED
            BY <1>6, <2>1, <2>2, <3>1, <3>2 DEF RegexFacts, Lexical, Scanned
    <2>8. BuiltFacts'
        <3>1. ~FlawedIn(source)
            BY <2>4 DEF FlawedIn, m
        <3>2. source' = source
            BY <2>1
        <3> QED
            BY <2>2, <2>4, <3>1, <3>2 DEF BuiltFacts
    <2>9. SourceFacts' /\ Justified(verdict, source, manifest)'
        BY <2>1, <2>2, SourceSettled
    <2>10. StartFacts'
        BY <1>4, <2>1, <2>2 DEF StartFacts
    <2>11. ResolutionTyped'
        BY <1>10, <2>1, SameResolutionTyped
    <2> QED
        BY <2>5, <2>6, <2>7, <2>8, <2>9, <2>10, <2>11 DEF ResolutionInv
<1> QED
    BY <1>1, <1>9, <1>10 DEF Resolving
-----------------------------------------------------------------------------
(* The terminals of a lexeme, and the one of least priority.                 *)
LEMMA BindingsGrouped ==
    ASSUME NEW m \in Nat, bindings = [i \in 1..m |-> BindingIn(source, i)]
    PROVE  /\ Elements(bindings) = {BindingIn(source, i) : i \in 1..m}
           /\ IsFiniteSet(Elements(bindings))
           /\ \A l : Group(l) = {BindingIn(source, i) : i \in {j \in 1..m : LexemeIn(source, j) = l}}
<1> DEFINE B(i) == BindingIn(source, i)
           S == {B(i) : i \in 1..m}
<1>1. \A i \in 1..m : bindings[i] = B(i)
    OBVIOUS
<1>2. bindings \in Seq(S) /\ Len(bindings) = m
    OBVIOUS
<1>3. Elements(bindings) = S
    BY <1>1, <1>2 DEF Elements
<1>4. IsFiniteSet(Elements(bindings))
    <2> HIDE DEF S
    <2> QED
        BY <1>2, ElementsOfList
<1>5. \A i : B(i).lexeme = LexemeIn(source, i)
    BY DEF BindingIn
<1> HIDE DEF B
<1>6. \A l : Group(l) = {B(i) : i \in {j \in 1..m : LexemeIn(source, j) = l}}
    BY <1>3, <1>5 DEF Group
<1> QED
    BY <1>3, <1>4, <1>6 DEF B

(* The terminal that wins a lexeme, as the compiler finds it and as it is    *)
(* meant: the one of the smallest priority.                                  *)
LEMMA WinnerIsLeast ==
    ASSUME NEW m \in Nat, bindings = [i \in 1..m |-> BindingIn(source, i)], m = Len(source.named),
           \A i \in 1..m : SpecIn(source, i).priority \in Nat,
           NEW j \in 1..m, WinsIn(source, j)
    PROVE  Least(Group(LexemeIn(source, j))) = {BindingIn(source, j)}
<1> DEFINE l == LexemeIn(source, j)
           B(i) == BindingIn(source, i)
           P(i) == SpecIn(source, i).priority
<1>1. \A i : B(i).priority = P(i)
    BY DEF BindingIn
<1>2. \A b : b \in Group(l) <=> \E i \in 1..m : LexemeIn(source, i) = l /\ b = B(i)
    BY BindingsGrouped
<1>3. \A i \in 1..m : P(i) \in Nat
    OBVIOUS
<1>4. \A i \in 1..m : i # j /\ LexemeIn(source, i) = l => P(j) < P(i)
    BY DEF WinsIn
<1> HIDE DEF B, P, l
<1>5. B(j) \in Group(l)
    BY <1>2 DEF l
<1>6. \A c \in Group(l) : B(j).priority <= c.priority
    <2> TAKE c \in Group(l)
    <2>1. PICK i \in 1..m : LexemeIn(source, i) = l /\ c = B(i)
        BY <1>2
    <2>2. i = j \/ P(j) < P(i)
        BY <1>4, <2>1
    <2> QED
        BY <1>1, <1>3, <2>1, <2>2
<1>7. \A b \in Group(l) : (\A c \in Group(l) : b.priority <= c.priority) => b = B(j)
    <2> TAKE b \in Group(l)
    <2> HAVE \A c \in Group(l) : b.priority <= c.priority
    <2>1. PICK i \in 1..m : LexemeIn(source, i) = l /\ b = B(i)
        BY <1>2
    <2>2. P(i) <= P(j)
        BY <1>1, <1>5, <2>1
    <2>3. ~(P(j) < P(i))
        BY <1>3, <2>2
    <2> QED
        BY <1>4, <2>1, <2>3
<1>8. Least(Group(l)) = {B(j)}
    BY <1>5, <1>6, <1>7 DEF Least
<1> QED
    BY <1>8 DEF B, l

LEMMA OnlyLeastWins ==
    ASSUME NEW m \in Nat, bindings = [i \in 1..m |-> BindingIn(source, i)], m = Len(source.named),
           \A i \in 1..m : SpecIn(source, i).priority \in Nat,
           NEW l, Cardinality(Least(Group(l))) = 1
    PROVE  \E j \in 1..m : WinsIn(source, j) /\ LexemeIn(source, j) = l
<1> DEFINE B(i) == BindingIn(source, i)
           P(i) == SpecIn(source, i).priority
<1>1. \A i : B(i).priority = P(i) /\ B(i).terminal = i
    BY DEF BindingIn
<1>2. \A b : b \in Group(l) <=> \E i \in 1..m : LexemeIn(source, i) = l /\ b = B(i)
    BY BindingsGrouped
<1>3. \A i \in 1..m : P(i) \in Nat
    OBVIOUS
<1>4. IsFiniteSet(Least(Group(l)))
    <2>1. Least(Group(l)) \subseteq Elements(bindings)
        BY DEF Least, Group
    <2>2. IsFiniteSet(Elements(bindings))
        BY BindingsGrouped
    <2> QED
        BY <2>1, <2>2, FS_Subset
<1>5. PICK b : Least(Group(l)) = {b}
    BY <1>4, FS_Singleton
<1>6. b \in Group(l) /\ \A c \in Group(l) : b.priority <= c.priority
    BY <1>5 DEF Least
<1>7. PICK j \in 1..m : LexemeIn(source, j) = l /\ b = B(j)
    BY <1>2, <1>6
<1> HIDE DEF B, P
<1>8. ASSUME NEW i \in 1..m, i # j, LexemeIn(source, i) = l PROVE P(j) < P(i)
    <2>1. B(i) \in Group(l)
        BY <1>2, <1>8
    <2>2. P(j) <= P(i)
        BY <1>1, <1>6, <1>7, <2>1
    <2>3. P(j) # P(i)
        <3> SUFFICES ASSUME P(j) = P(i) PROVE FALSE
            OBVIOUS
        <3>1. \A c \in Group(l) : B(i).priority <= c.priority
            BY <1>1, <1>6, <1>7
        <3>2. B(i) \in Least(Group(l))
            BY <2>1, <3>1 DEF Least
        <3>3. B(i) = B(j)
            BY <1>5, <1>7, <3>2
        <3> QED
            BY <1>1, <1>8, <3>3
    <2> QED
        BY <1>3, <2>2, <2>3
<1>9. WinsIn(source, j)
    BY <1>7, <1>8 DEF WinsIn, P
<1> QED
    BY <1>7, <1>9

LEMMA ChosenWins ==
    ASSUME NEW g, NEW b, Least(g) = {b}, b.terminal \in Nat
    PROVE  Chosen(g) = b
<1>1. b \in Least(g) /\ \A c \in Least(g) : b.terminal <= c.terminal
    OBVIOUS
<1>2. Chosen(g) \in Least(g)
    BY <1>1, Zenon DEF Chosen
<1> QED
    BY <1>2
-----------------------------------------------------------------------------
(* The aliases: every lexeme has a terminal that answers for it.             *)
LEMMA CollapseAliasesKeepsResolution ==
    ASSUME ResolutionInv, SourceTyped, CollapseAliases
    PROVE  ResolutionInv'
<1> DEFINE groups == {Group(l) : l \in Elements(lexemes)} \ {{}}
           tests == <<Test(\A g \in groups : Cardinality(Least(g)) = 1, "tied")>>
           more == /\ aliases' = {<<Chosen(g).lexeme, Chosen(g).terminal>> : g \in groups}
                   /\ UNCHANGED <<specs, ignored, lexemes, scan_cost, bindings>>
           m == Len(source.named)
           B(i) == BindingIn(source, i)
           L(i) == LexemeIn(source, i)
<1>1. step = "aliases" /\ Resolving(tests, "export", 1, more)
    BY DEF CollapseAliases
<1>2. Len(tests) = 1 /\ tests[1].why = "tied"
    BY DEF Test
<1>3. tests[1].holds <=> \A g \in groups : Cardinality(Least(g)) = 1
    BY DEF Test
<1> HIDE DEF tests
<1>4. /\ step \in AfterSpecs /\ step \in AfterIgnored /\ step \in AfterRegexes /\ step # "regexes"
      /\ step \notin AfterAliases
    BY <1>1 DEF AfterSpecs, AfterIgnored, AfterRegexes, AfterAliases
<1>5. /\ m \in Nat /\ Elements(lexemes) = {Skip} \cup FirstLexemes(source, m)
      /\ bindings = [i \in 1..m |-> BindingIn(source, i)]
    BY <1>4 DEF ResolutionInv, RegexFacts, SourceTyped
<1>6. Resolved
    BY <1>4, AllResolved
<1>7. \A i \in 1..m : SpecIn(source, i).priority \in Nat /\ L(i) # Skip
    BY <1>6, SpecFound
<1> HIDE DEF m
<1>8. m = Len(source.named)
    BY DEF m
<1>9. /\ Elements(bindings) = {B(i) : i \in 1..m}
      /\ \A l : Group(l) = {B(i) : i \in {j \in 1..m : L(j) = l}}
    BY <1>5, BindingsGrouped
<1>10. \A i : B(i).lexeme = L(i) /\ B(i).terminal = i
    BY DEF BindingIn
<1>11. groups = {Group(L(i)) : i \in 1..m}
    <2>1. Elements(lexemes) = {Skip} \cup {L(i) : i \in 1..m}
        BY <1>5 DEF FirstLexemes
    <2> HIDE DEF B, L
    <2>2. Group(Skip) = {}
        BY <1>7, <1>9
    <2>3. \A i \in 1..m : Group(L(i)) # {}
        BY <1>9
    <2> QED
        BY <2>1, <2>2, <2>3
<1>12. \A j \in 1..m : WinsIn(source, j) => Least(Group(L(j))) = {B(j)} /\ Chosen(Group(L(j))) = B(j)
    <2> TAKE j \in 1..m
    <2> HAVE WinsIn(source, j)
    <2>1. Least(Group(L(j))) = {B(j)}
        BY <1>5, <1>7, <1>8, WinnerIsLeast
    <2>2. B(j).terminal \in Nat
        BY <1>10
    <2> HIDE DEF B, L
    <2> QED
        BY <2>1, <2>2, ChosenWins
<1> HIDE DEF groups
<1>13. CASE Fails(tests)
    <2>1. 1 \in Nat
        OBVIOUS
    <2>2. PICK k \in 1..1 : ~tests[k].holds /\ FirstFailure(tests) = tests[k].why
        BY <1>2, <1>13, <2>1, FailingTest, Zenon
    <2>3. FirstFailure(tests) = "tied" /\ \E g \in groups : Cardinality(Least(g)) # 1
        BY <1>2, <1>3, <2>2
    <2>4. PICK i \in 1..m : Cardinality(Least(Group(L(i)))) # 1
        BY <1>11, <2>3
    <2>5. \A j \in 1..m : L(j) = L(i) => ~WinsIn(source, j)
        <3> SUFFICES ASSUME NEW j \in 1..m, L(j) = L(i), WinsIn(source, j) PROVE FALSE
            OBVIOUS
        <3>1. Least(Group(L(i))) = {B(j)}
            BY <1>12
        <3> HIDE DEF B, L
        <3>2. Cardinality({B(j)}) = 1
            BY FS_Singleton
        <3> QED
            BY <2>4, <3>1, <3>2
    <2>6. TiedIn(source)
        BY <1>8, <2>5 DEF TiedIn
    <2> QED
        BY <1>13, <2>3, <2>6, RefusalKeepsResolution DEF Justified, Refuted
<1>14. CASE Passes(tests, "export", 1) /\ more
    <2>1. /\ step' = "export" /\ index' = 1
          /\ UNCHANGED <<source, manifest, verdict, specs, ignored, lexemes, scan_cost, bindings>>
          /\ aliases' = {<<Chosen(g).lexeme, Chosen(g).terminal>> : g \in groups}
        BY <1>14 DEF Passes
    <2>2. /\ step' \in AfterSpecs /\ step' \in AfterIgnored /\ step' \in AfterRegexes
          /\ step' \in AfterAliases
        BY <2>1 DEF AfterSpecs, AfterIgnored, AfterRegexes, AfterAliases
    <2>3. \A g \in groups : Cardinality(Least(g)) = 1
        BY <1>2, <1>3, <1>14 DEF Passes, Holds
    <2> DEFINE winners == {j \in 1..m : WinsIn(source, j)}
    <2>4. \A i \in 1..m : \E j \in winners : L(j) = L(i)
        <3> TAKE i \in 1..m
        <3>1. Cardinality(Least(Group(L(i)))) = 1
            BY <1>11, <2>3
        <3>2. \A k \in 1..m : SpecIn(source, k).priority \in Nat
            BY <1>7
        <3>3. \E j \in 1..m : WinsIn(source, j) /\ LexemeIn(source, j) = L(i)
            BY <1>5, <1>8, <3>1, <3>2, OnlyLeastWins
        <3> QED
            BY <3>3
    <2> HIDE DEF B, L, winners
    <2>5. groups = {Group(L(j)) : j \in winners}
        BY <1>11, <2>4 DEF winners
    <2>6. \A j \in winners : Chosen(Group(L(j))) = B(j)
        BY <1>12 DEF winners
    <2>7. aliases' = {<<L(j), j>> : j \in winners}
        BY <1>10, <2>1, <2>5, <2>6
    <2>8. FirstLexemes(source, m) = {pair[1] : pair \in aliases'}
        <3>1. FirstLexemes(source, m) = {L(i) : i \in 1..m}
            BY DEF FirstLexemes, L
        <3>2. {L(i) : i \in 1..m} = {L(j) : j \in winners}
            BY <2>4 DEF winners
        <3> DEFINE all == {<<L(j), j>> : j \in winners}
        <3>3. \A pair \in all : \E j \in winners : pair[1] = L(j)
            OBVIOUS
        <3>4. \A j \in winners : \E pair \in all : pair[1] = L(j)
            <4> TAKE j \in winners
            <4> WITNESS <<L(j), j>> \in all
            <4> QED
                OBVIOUS
        <3> HIDE DEF all
        <3>5. {pair[1] : pair \in all} = {L(j) : j \in winners}
            BY <3>3, <3>4
        <3> QED
            BY <2>7, <3>1, <3>2, <3>5 DEF all
    <2>9. BuiltFacts'
        <3>1. ~FlawedIn(source) /\ FuelIn(source) <= MaxRegexFuel
            BY <1>4 DEF ResolutionInv, BuiltFacts
        <3>2. source' = source
            BY <2>1
        <3>3. aliases' = {<<LexemeIn(source, i), i>> : i \in {j \in 1..Len(source.named) : WinsIn(source, j)}}
            BY <1>8, <2>7 DEF L, winners
        <3> QED
            BY <1>8, <2>8, <3>1, <3>2, <3>3 DEF BuiltFacts
    <2>10. SpecFacts'
        BY <1>4, <2>1, <2>2, SpecsSettled DEF ResolutionInv
    <2>11. IgnoredFacts'
        BY <1>4, <2>1, <2>2, IgnoredSettled DEF ResolutionInv
    <2>12. RegexFacts'
        BY <1>4, <2>1, <2>2, RegexesSettled DEF ResolutionInv
    <2>13. SourceFacts' /\ Justified(verdict, source, manifest)'
        BY <1>4, <2>1, <2>2, SourceSettled
    <2>14. StartFacts'
        BY <2>2 DEF StartFacts
    <2>15. ResolutionTyped'
        <3>1. \A pair \in aliases' : \E b \in Elements(bindings) : pair = <<b.lexeme, b.terminal>>
            <4> TAKE pair \in aliases'
            <4>1. PICK j \in winners : pair = <<L(j), j>>
                BY <2>7
            <4>2. B(j) \in Elements(bindings)
                BY <1>9, <4>1 DEF winners
            <4> QED
                BY <1>10, <4>1, <4>2
        <3>2. bindings' = bindings
            BY <2>1
        <3>3. \A pair \in aliases' : \E b \in Elements(bindings') : pair = <<b.lexeme, b.terminal>>
            BY <3>1, <3>2
        <3> QED
            BY <2>1, <3>3 DEF ResolutionInv, ResolutionTyped
    <2> QED
        BY <2>9, <2>10, <2>11, <2>12, <2>13, <2>14, <2>15 DEF ResolutionInv
<1> QED
    BY <1>1, <1>13, <1>14 DEF Resolving
-----------------------------------------------------------------------------
(* Every step of the compiler.                                               *)
LEMMA CompileStepKeepsResolution ==
    ASSUME ResolutionInv, SourceTyped, ManifestTyped, step \in Later => Fits, index \in Nat \ {0}, CompileNext
    PROVE  ResolutionInv'
<1>1. CASE MakeInputs \/ ReadGrammar \/ MeasureTerminal \/ MeasureIgnored \/ CallNativeCompile
    BY <1>1, MakeInputsKeepsResolution, ReadGrammarKeepsResolution, MeasuringKeepsResolution,
       HandingOnKeepsResolution
<1>2. CASE PreflightGrammar \/ PreflightItem \/ CallCompile \/ CheckLimits
    BY <1>2, PreflightKeepsResolution, HandingOnKeepsResolution, CheckLimitsKeepsResolution
<1>3. CASE ReadYacc \/ Lower \/ Validate
    <2>1. Fits
        BY <1>3 DEF ReadYacc, Lower, Validate, Later
    <2> QED
        BY <1>3, <2>1, ReadYaccKeepsResolution, LowerKeepsResolution, ValidateKeepsResolution
<1>4. CASE Register \/ BuildRegexes \/ CollapseAliases
    BY <1>4, RegisterKeepsResolution, BuildRegexesKeepsResolution, CollapseAliasesKeepsResolution
<1>5. CASE MatchSpec \/ MatchNames \/ Ignore \/ Export \/ Prepare
    BY <1>5, MatchSpecKeepsResolution, MatchNamesKeepsResolution, IgnoreKeepsResolution,
       ExportAndPrepareKeepResolution
<1> QED
    BY <1>1, <1>2, <1>3, <1>4, <1>5 DEF CompileNext

(* Before the compiler is called nothing is resolved.                        *)
LEMMA NothingResolved ==
    ASSUME specs = NoSpecs, ignored = {}, lexemes = <<Skip>>, scan_cost = 0, bindings = <<>>, aliases = {},
           verdict = "none", step \in {"inputs", "grammar", "limits"}, step = "limits" => source.utf8
    PROVE  ResolutionInv
<1>1. /\ step \notin {"specs"} \cup AfterSpecs /\ step \notin AfterIgnored
      /\ step \notin AfterRegexes
      /\ step \notin AfterAliases /\ step # "refused"
    BY DEF AfterSpecs, AfterIgnored, AfterRegexes, AfterAliases
<1>2. StartFacts
    BY DEF StartFacts
<1>3. ResolutionTyped
    BY DEF ResolutionTyped, Elements, NoSpecs
<1>4. SpecFacts
    BY <1>1 DEF SpecFacts
<1>5. IgnoredFacts
    BY <1>1 DEF IgnoredFacts
<1>6. RegexFacts
    BY <1>1 DEF RegexFacts
<1>7. BuiltFacts
    BY <1>1 DEF BuiltFacts
<1>8. SourceFacts
    BY <1>1 DEF SourceFacts
<1>9. Justified(verdict, source, manifest)
    BY DEF Justified, Refuted
<1> QED
    BY <1>2, <1>3, <1>4, <1>5, <1>6, <1>7, <1>8, <1>9 DEF ResolutionInv

(* The invariant of the resolution, in every state of the toolchain.         *)
LEMMA ResolutionStarts == ToolchainInit => ResolutionInv
<1> SUFFICES ASSUME ToolchainInit PROVE ResolutionInv
    OBVIOUS
<1>1. /\ specs = NoSpecs /\ ignored = {} /\ lexemes = <<Skip>> /\ scan_cost = 0
      /\ bindings = <<>> /\ aliases = {}
      /\ verdict = "none" /\ step \in {"inputs", "grammar", "limits"}
    BY DEF ToolchainInit, CompileStarts
<1>2. step = "limits" => source.utf8
    BY DEF ToolchainInit, CompileStarts
<1> QED
    BY <1>1, <1>2, NothingResolved

LEMMA ResolutionKept ==
    ASSUME LayersInv, ResolutionInv, [ToolchainNext]_toolVars
    PROVE  ResolutionInv'
<1>1. CASE Compile
    <2>1. /\ SourceTyped /\ ManifestTyped /\ index \in Nat \ {0}
          /\ step \in Later => Fits
        BY <1>1 DEF Compile, LayersInv, LayersTyped, Admitted
    <2> QED
        BY <1>1, <2>1, CompileStepKeepsResolution DEF Compile
<1>2. CASE UseManifest
    <2>1. /\ phase = "imported"
          /\ UNCHANGED <<step, verdict, specs, ignored, lexemes, scan_cost, bindings, aliases>>
        BY <1>2 DEF UseManifest
    <2>2. step = "inputs" /\ verdict = "none"
        BY <2>1 DEF LayersInv, LayersTyped, Fresh
    <2>3. /\ specs' = NoSpecs /\ ignored' = {} /\ lexemes' = <<Skip>> /\ scan_cost' = 0
          /\ bindings' = <<>> /\ aliases' = {}
        BY <2>1, <2>2 DEF ResolutionInv, StartFacts, AfterSpecs, AfterIgnored, AfterRegexes,
           AfterAliases
    <2>4. verdict' = "none" /\ step' = "inputs"
        BY <2>1, <2>2
    <2>5. /\ step' \notin {"specs"} \cup AfterSpecs /\ step' \notin AfterIgnored
          /\ step' \notin AfterRegexes
          /\ step' \notin AfterAliases
        BY <2>4 DEF AfterSpecs, AfterIgnored, AfterRegexes, AfterAliases
    <2>6. StartFacts'
        BY <2>3 DEF StartFacts
    <2>7. ResolutionTyped'
        BY <2>3 DEF ResolutionTyped, Elements, NoSpecs
    <2>8. SpecFacts' /\ IgnoredFacts'
        BY <2>5 DEF SpecFacts, IgnoredFacts
    <2>9. RegexFacts' /\ BuiltFacts'
        BY <2>5 DEF RegexFacts, BuiltFacts
    <2>10. SourceFacts'
        BY <2>4, <2>5 DEF SourceFacts
    <2>11. Justified(verdict, source, manifest)'
        BY <2>4 DEF Justified, Refuted
    <2> QED
        BY <2>6, <2>7, <2>8, <2>9, <2>10, <2>11 DEF ResolutionInv
<1>3. CASE Import \/ UNCHANGED toolVars
    <2>1. UNCHANGED <<source, manifest, step, index, verdict, specs, ignored, lexemes, scan_cost, bindings, aliases>>
        BY <1>3 DEF Import, toolVars, compileVars
    <2>2. StartFacts' /\ ResolutionTyped'
        BY <2>1 DEF ResolutionInv, StartFacts, ResolutionTyped
    <2>3. SpecFacts' /\ IgnoredFacts'
        BY <2>1 DEF ResolutionInv, SpecFacts, IgnoredFacts, NameAt
    <2>4. source' = source /\ manifest' = manifest
        BY <2>1
    <2>5. RegexFacts' /\ BuiltFacts' /\ SourceFacts' /\ Justified(verdict, source, manifest)'
        BY <2>1, <2>4 DEF ResolutionInv, RegexFacts, BuiltFacts, SourceFacts
    <2> QED
        BY <2>2, <2>3, <2>5 DEF ResolutionInv
<1> QED
    BY <1>1, <1>2, <1>3 DEF ToolchainNext

LEMMA ResolutionInvAlways == ToolchainSpec => [](ImportInv /\ LayersInv /\ ResolutionInv)
<1>1. ToolchainInit => ResolutionInv
    BY ResolutionStarts
<1>2. LayersInv /\ ResolutionInv /\ [ToolchainNext]_toolVars => ResolutionInv'
    BY ResolutionKept
<1> QED
    BY <1>1, <1>2, LayersInvAlways, PTL DEF ToolchainSpec
-----------------------------------------------------------------------------
(* Every variable of the import, of the layers and of the resolution has its *)
(* type in every state of the toolchain, which the others rest on: what an   *)
(* import hands on is a list of bytes (tokenizer_json.rs, grammar.rs and     *)
(* regex.rs).                                                                *)
THEOREM ToolchainIsTyped == ToolchainSpec => []ToolchainTypeOK
<1>1. ASSUME ImportInv, LayersInv, ResolutionInv PROVE ToolchainTypeOK
    <2>1. ImportTypeOK
        <3>1. DOMAIN entries = 0..(Cardinality(DOMAIN entries) - 1)
            BY <1>1, SizeOfEntries DEF ImportInv, Size
        <3>2. \A i \in 1..Len(tokens) : tokens[i] = Eos \/ tokens[i] \in Seq(Bytes)
            <4> TAKE i \in 1..Len(tokens)
            <4>1. tokens \in Seq(Seq(Bytes) \cup {Eos})
                BY <1>1 DEF ImportInv, ImportTyped
            <4>2. tokens[i] \in Seq(Bytes) \cup {Eos}
                BY <4>1, ElementOfList, Zenon
            <4> QED
                BY <4>2
        <3> QED
            BY <1>1, <3>1, <3>2 DEF ImportInv, ImportTyped, ImportTypeOK, Started
    <2>2. /\ origin \in {"transformers", "json", "given"}
          /\ entry \in {"facade", "native", "rust"} /\ layer \in {"facade", "native", "rust"}
          /\ index \in Nat /\ counted \in [{"source", "regex", "tokens"} -> Nat]
        BY <1>1 DEF LayersInv, LayersTyped
    <2>3. ResolutionTyped
        BY <1>1 DEF ResolutionInv
    <2> QED
        BY <2>1, <2>2, <2>3 DEF ToolchainTypeOK, ResolutionTyped
<1> QED
    BY <1>1, ResolutionInvAlways, PTL
-----------------------------------------------------------------------------
(* What the compilation says of a grammar, in the words of its resolution.   *)
LEMMA SpecsAgree == \A i : SpecIn(source, i) = SpecOf(source.named[i])
BY DEF SpecIn, SpecOf

(* What the invariant says of a grammar by the indices of its names is what  *)
(* the property says of it by the names themselves.                          *)
LEMMA NamesAgree == NamesFit <=> NamesFitIn(source)
BY DEF NamesFit, NamesFitIn, Named

LEMMA FlawsAgree == FlawedIn(source) <=> \E p \in PatternsOf(Elements(source.named)) : Flaw[p] # "none"
BY SpecsAgree DEF FlawedIn, PatternsOf, Elements

LEMMA LexemesAgree ==
    ASSUME SourceTyped, NEW k \in 0..Len(source.named)
    PROVE  /\ LexemesOf(Elements(SubSeq(source.named, 1, k))) = FirstLexemes(source, k)
           /\ LexemesOf(Elements(source.named)) = FirstLexemes(source, Len(source.named))
<1> DEFINE m == Len(source.named)
           part == SubSeq(source.named, 1, k)
<1>1. source.named \in Seq(DOMAIN SizeOf) /\ m \in Nat
    BY DEF SourceTyped
<1>2. Len(part) = k /\ \A i \in 1..k : part[i] = source.named[i]
    BY <1>1
<1>3. \A S : LexemesOf(S) = {Lexeme[SpecOf(name).pattern] : name \in S}
    BY DEF LexemesOf, PatternsOf
<1>4. Elements(part) = {source.named[i] : i \in 1..k}
    <2> HIDE DEF part
    <2> QED
        BY <1>2 DEF Elements
<1>5. Elements(source.named) = {source.named[i] : i \in 1..m}
    BY DEF Elements
<1>6. \A n : FirstLexemes(source, n) = {Lexeme[SpecOf(source.named[i]).pattern] : i \in 1..n}
    BY SpecsAgree DEF FirstLexemes, LexemeIn
<1>7. \A n : {Lexeme[SpecOf(name).pattern] : name \in {source.named[i] : i \in 1..n}}
               = {Lexeme[SpecOf(source.named[i]).pattern] : i \in 1..n}
    OBVIOUS
<1>8. LexemesOf(Elements(part)) = FirstLexemes(source, k)
    BY <1>3, <1>4, <1>6, <1>7
<1>9. LexemesOf(Elements(source.named)) = FirstLexemes(source, m)
    BY <1>3, <1>5, <1>6, <1>7
<1> QED
    BY <1>8, <1>9

LEMMA FuelAgrees ==
    ASSUME SourceTyped
    PROVE  FuelNeeded = FuelIn(source)
<1> DEFINE m == Len(source.named)
           before(i) == 1 + Cardinality(LexemesOf(Elements(SubSeq(source.named, 1, i - 1))))
           s == [i \in 1..m |-> i]
           c == ScanCosts(source)
           Solves(f) == f = [S \in SUBSET (DOMAIN s) |->
                               IF S = {} THEN 0 ELSE f[S \ {Max(S)}] + before(s[Max(S)])]
           f0 == CHOOSE f : Solves(f)
<1>1. FuelNeeded = BaseCost + (LexemeCost + RelevanceCost) * (1 + Cardinality(LexemesOf(Elements(source.named)))) + f0[DOMAIN s]
    BY DEF FuelNeeded, FoldLeft, MapThenFoldSet
<1>2. m \in Nat
    BY DEF SourceTyped
<1>3. c \in Seq(Nat) /\ Len(c) = m /\ \A n \in 1..m : c[n] = 1 + Lexical(source, n - 1)
    BY <1>2, ScanCostsTyped
<1>4. \A n \in 1..m : c[n] = before(n)
    <2> TAKE n \in 1..m
    <2>1. n - 1 \in 0..Len(source.named)
        BY <1>2
    <2>2. LexemesOf(Elements(SubSeq(source.named, 1, n - 1))) = FirstLexemes(source, n - 1)
        BY <2>1, LexemesAgree
    <2> QED
        BY <1>3, <2>2 DEF Lexical
<1> HIDE DEF before, c
<1>5. \A S \in SUBSET (1..m) : S # {} => Max(S) \in 1..m /\ s[Max(S)] = Max(S)
    BY <1>2, MaxOfIndices
<1>6. DOMAIN s = 1..m /\ 1..m = 1..Len(c)
    BY <1>3
<1> HIDE DEF s
<1>7. \A S \in SUBSET (1..m) : S # {} => c[Max(S)] = before(s[Max(S)])
    BY <1>4, <1>5
<1>8. \A f : Solves(f) <=> AddsUp(f, c)
    BY <1>6, <1>7 DEF AddsUp
<1>9. \E f : Solves(f)
    BY <1>3, <1>8, AddingExists
<1>10. Solves(f0)
    BY <1>9, Zenon
<1> HIDE DEF Solves, f0
<1>11. f0[DOMAIN s] = SumTo(c, m)
    BY <1>3, <1>6, <1>8, <1>10, AddingSums
<1>12. LexemesOf(Elements(source.named)) = FirstLexemes(source, m)
    <2>1. 0 \in 0..Len(source.named)
        BY <1>2
    <2> QED
        BY <2>1, LexemesAgree
<1> QED
    BY <1>1, <1>11, <1>12 DEF FuelIn, c
-----------------------------------------------------------------------------
LEMMA NamedApart ==
    ASSUME SourceTyped
    PROVE  /\ \A i, j \in 1..Len(source.named) : source.named[i] = source.named[j] => i = j
           /\ Elements(source.named) = {source.named[i] : i \in 1..Len(source.named)}
<1>1. /\ source.named \in Seq(DOMAIN SizeOf)
      /\ Cardinality(Elements(source.named)) = Len(source.named)
    BY DEF SourceTyped
<1> QED
    BY <1>1, ElementsOfList DEF Elements

LEMMA WinsAgree ==
    ASSUME SourceTyped
    PROVE  /\ \A i \in 1..Len(source.named) : Wins(source.named[i]) <=> WinsIn(source, i)
           /\ TiedIn(source) <=> \E name \in Elements(source.named) : \A n \in Sharing(name) : ~Wins(n)
<1> DEFINE m == Len(source.named)
           N(i) == source.named[i]
           L(i) == LexemeIn(source, i)
           P(i) == SpecIn(source, i).priority
<1>1. /\ \A i, j \in 1..m : N(i) = N(j) => i = j
      /\ Elements(source.named) = {N(i) : i \in 1..m}
    BY NamedApart
<1>2. \A i : L(i) = Lexeme[SpecOf(N(i)).pattern] /\ P(i) = SpecOf(N(i)).priority
    BY SpecsAgree DEF LexemeIn
<1>3. \A i : WinsIn(source, i) <=> \A j \in 1..m : j # i /\ L(j) = L(i) => P(i) < P(j)
    BY DEF WinsIn
<1> HIDE DEF N, L, P, m
<1>4. \A i \in 1..m : Sharing(N(i)) = {N(j) : j \in {k \in 1..m : L(k) = L(i)}}
    BY <1>1, <1>2 DEF Sharing
<1>5. ASSUME NEW i \in 1..m
      PROVE  Wins(N(i)) <=> WinsIn(source, i)
    <2>1. Wins(N(i)) <=> \A other \in Sharing(N(i)) \ {N(i)} : P(i) < SpecOf(other).priority
        BY <1>2 DEF Wins
    <2>2. \A other : other \in Sharing(N(i)) \ {N(i)} <=> \E j \in 1..m : L(j) = L(i) /\ j # i /\ other = N(j)
        BY <1>1, <1>4
    <2>3. (\A other \in Sharing(N(i)) \ {N(i)} : P(i) < SpecOf(other).priority)
            <=> (\A j \in 1..m : j # i /\ L(j) = L(i) => P(i) < P(j))
        BY <1>2, <2>2
    <2> QED
        BY <1>3, <2>1, <2>3
<1>6. TiedIn(source) <=> \E i \in 1..m : \A j \in 1..m : L(j) = L(i) => ~WinsIn(source, j)
    BY DEF TiedIn, L, m
<1>7. \A i \in 1..m : (\A n \in Sharing(N(i)) : ~Wins(n)) <=> (\A j \in 1..m : L(j) = L(i) => ~WinsIn(source, j))
    BY <1>4, <1>5
<1>8. (\E name \in Elements(source.named) : \A n \in Sharing(name) : ~Wins(n))
        <=> (\E i \in 1..m : \A n \in Sharing(N(i)) : ~Wins(n))
    BY <1>1
<1>9. TiedIn(source) <=> \E name \in Elements(source.named) : \A n \in Sharing(name) : ~Wins(n)
    BY <1>6, <1>7, <1>8
<1> QED
    BY <1>5, <1>9 DEF N, m

LEMMA ResolvedNamesFit ==
    ASSUME SourceTyped, ResolutionInv, step \in AfterIgnored
    PROVE  NamesFitIn(source)
<1>1. step \in AfterSpecs /\ step # "ignored"
    BY DEF AfterIgnored, AfterSpecs
<1>2. Resolved
    BY <1>1, AllResolved
<1>3. \A i \in 1..Len(source.terminals) : source.terminals[i].name \in Elements(source.named)
    BY <1>2 DEF Resolved, NameAt
<1>4. \A name \in Elements(source.named) :
        Cardinality({i \in 1..Len(source.terminals) : source.terminals[i].name = name}) = 1
    <2> TAKE name \in Elements(source.named)
    <2>1. PICK k \in 1..Len(source.terminals) : NameAt(k) = name
        BY <1>2 DEF Resolved
    <2>2. \A i \in 1..Len(source.terminals) : NameAt(i) = name => i = k
        BY <1>2, <2>1 DEF Resolved
    <2>3. {i \in 1..Len(source.terminals) : source.terminals[i].name = name} = {k}
        BY <2>1, <2>2 DEF NameAt
    <2> QED
        BY <2>3, FS_Singleton
<1>5. /\ \A i \in 1..Len(source.ignored) : source.ignored[i] \in Elements(source.named) /\ source.ignored[i] \notin source.used
      /\ \A i, j \in 1..Len(source.ignored) : source.ignored[i] = source.ignored[j] => i = j
    BY <1>1 DEF ResolutionInv, IgnoredFacts
<1>6. Elements(source.ignored) \subseteq Elements(source.named) \ source.used
    BY <1>5 DEF Elements
<1>7. Cardinality(Elements(source.ignored)) = Len(source.ignored)
    <2>1. source.ignored \in Seq(DOMAIN SizeOf)
        BY DEF SourceTyped
    <2> QED
        BY <1>5, <2>1, ElementsOfList
<1> QED
    BY <1>3, <1>4, <1>6, <1>7 DEF NamesFitIn

(* The facade, the native layer and the Rust compiler measure the same six   *)
(* sizes, each on its own: whatever the inputs are, for these a later layer  *)
(* never refuses what an earlier one let pass, and never the tokens of an    *)
(* import (compile of compiler.py, preflight_compile_inputs of               *)
(* greatgramma-python/src/lib.rs, check_source_limits of compile.rs).  What  *)
(* the stages after them still refuse for its size is in the gap between the *)
(* layers' limits and theirs: names without a terminal (parse_source of      *)
(* grammar.rs), terminals which the end of input makes one too many, rules   *)
(* and productions (check_grammar_dimensions of lr.rs), tokens that fit and  *)
(* whose sum with the tables does not (validate_declared_sizes).             *)
THEOREM StagesAlwaysAgree == ToolchainSpec => []StagesAgree
<1>1. ASSUME ImportInv, LayersInv, ResolutionInv PROVE StagesAgree
    <2>1. LayersAgree
        <3>1. step \in {"yacc", "specs", "ignored", "regexes"} => step \in Later
            BY DEF Later
        <3>2. layer # entry => verdict # "too_large" /\ (entry = "facade" => verdict # "tokenizer")
            BY <1>1 DEF LayersInv, RefusedRightly
        <3>3. verdict = "too_large" => ~Fits
            BY <1>1 DEF LayersInv, RefusedRightly
        <3>4. layer # entry \/ step \in {"yacc", "specs", "ignored", "regexes"} => Fits
            BY <1>1, <3>1 DEF LayersInv, Admitted
        <3> QED
            BY <3>2, <3>3, <3>4 DEF LayersAgree
    <2>2. origin = "transformers" => verdict # "tokenizer"
        BY <1>1 DEF LayersInv, RefusedRightly
    <2>3. origin = "transformers" /\ source # NoSource => Len(Given) <= MaxTokens /\ TokenBytes <= MaxTokenBytes
        <3> SUFFICES ASSUME origin = "transformers", source # NoSource
                     PROVE  Len(Given) <= MaxTokens /\ TokenBytes <= MaxTokenBytes
            OBVIOUS
        <3>1. ManifestGood /\ ManifestTyped
            BY <1>1 DEF LayersInv, LayersTyped, Admitted
        <3> QED
            BY <3>1, GoodManifestTokens DEF Givens
    <2>4. LateRefusals
        <3>1. Justified(verdict, source, manifest)
            BY <1>1 DEF ResolutionInv
        <3>2. verdict \in {"too_many_names", "work", "bytes"} => SourceTyped
            BY <1>1 DEF LayersInv, LayersTyped, Fresh
        <3>3. ASSUME verdict = "too_many_names"
              PROVE  \E name \in Elements(source.named) : \A t \in Elements(source.terminals) : t.name # name
            <4>1. ~(Len(source.named) <= Len(source.terminals))
                <5>1. NamesGap(source)
                    BY <3>1, <3>3 DEF Justified
                <5>2. Len(source.named) \in Nat /\ Len(source.terminals) \in Nat
                    BY <3>2, <3>3, SizesTyped
                <5> QED
                    BY <5>1, <5>2, StageLimitsTyped DEF NamesGap
            <4>2. PICK name \in Elements(source.named) : \A i \in 1..Len(source.terminals) : NameAt(i) # name
                BY <3>2, <3>3, <4>1, MatchedAreFew
            <4>3. \A t \in Elements(source.terminals) : t.name # name
                BY <4>2 DEF Elements, NameAt
            <4> QED
                BY <4>3
        <3>4. verdict = "grammar_too_large" => GrammarGap(source)
            BY <3>1 DEF Justified
        <3>5. TokenLoad = LoadOf(manifest)
            BY DEF TokenLoad, TokenBytes, Given, LoadOf
        <3>6. /\ verdict = "work" => LoadGap(MaxWork - source.work + 1, manifest)
              /\ verdict = "bytes" => LoadGap(MaxLogicalBytes - source.bytes + 1, manifest)
            BY <3>1 DEF Justified
        <3> QED
            BY <3>3, <3>4, <3>5, <3>6 DEF LateRefusals, GrammarGap, LoadGap
    <2> QED
        BY <2>1, <2>2, <2>3, <2>4 DEF StagesAgree
<1> QED
    BY <1>1, ResolutionInvAlways, PTL

(* A compilation that passes the resolution of its terminals is of a grammar *)
(* that has no fault, its ignored names are those given and each lexeme is   *)
(* answered for by the terminal with the smallest priority; one that is      *)
(* refused for its terminals has the fault that it is refused for. That      *)
(* holds for every grammar, whatever the order of its names (parse_source of *)
(* grammar.rs, compile_regexes and collapse_aliases of regex.rs).            *)
THEOREM CompileIsAlwaysExact == ToolchainSpec => []CompileIsExact
<1>1. ASSUME LayersInv, ResolutionInv PROVE CompileIsExact
    <2>1. Justified(verdict, source, manifest)
        BY <1>1 DEF ResolutionInv
    <2>2. source = NoSource => verdict = "none" /\ step \in {"inputs", "grammar", "limits"}
        BY <1>1 DEF LayersInv, LayersTyped, Fresh
    <2>3. source # NoSource => SourceTyped
        BY <1>1 DEF LayersInv, LayersTyped
    <2>4. verdict \in {"unknown", "duplicate", "missing", "unknown_ignored", "duplicate_ignored", "ignored_used"} => ~NamesFit
        BY <2>1, NamesAgree DEF Justified, Refuted
    <2>5. verdict = "regex" => \E p \in PatternsOf(Elements(source.named)) : Flaw[p] # "none"
        BY <2>1, FlawsAgree DEF Justified
    <2>6. verdict = "fuel" => FuelNeeded > MaxRegexFuel
        BY <2>1, <2>2, <2>3, FuelAgrees DEF Justified
    <2>7. verdict = "tied" => \E name \in Elements(source.named) : \A n \in Sharing(name) : ~Wins(n)
        BY <2>1, <2>2, <2>3, WinsAgree DEF Justified
    <2>8. ASSUME step \in {"export", "validate", "prepare", "compiled"}
          PROVE  /\ NamesFit /\ source.syntax /\ source.directives = {} /\ source.utf8
                 /\ \A p \in PatternsOf(Elements(source.named)) : Flaw[p] = "none"
                 /\ FuelNeeded <= MaxRegexFuel
                 /\ aliases = {<<Lexeme[SpecOf(source.named[i]).pattern], i>> :
                                 i \in {j \in 1..Len(source.named) : Wins(source.named[j])}}
                 /\ LexemesOf(Elements(source.named)) = {pair[1] : pair \in aliases}
        <3>1. /\ step \in AfterAliases /\ step \in AfterRegexes /\ step \in AfterIgnored
              /\ step \in AfterSpecs
              /\ step \notin {"inputs", "grammar", "refused"}
            BY <2>8 DEF AfterAliases, AfterRegexes, AfterIgnored, AfterSpecs
        <3>2. SourceTyped
            BY <2>2, <2>3, <2>8
        <3>3. NamesFit
            BY <1>1, <3>1, <3>2, ResolvedNamesFit, NamesAgree
        <3>4. source.syntax /\ source.directives = {} /\ source.utf8
            BY <1>1, <3>1 DEF ResolutionInv, SourceFacts
        <3>5. /\ ~FlawedIn(source) /\ FuelIn(source) <= MaxRegexFuel
              /\ aliases = {<<LexemeIn(source, i), i>> : i \in {j \in 1..Len(source.named) : WinsIn(source, j)}}
              /\ FirstLexemes(source, Len(source.named)) = {pair[1] : pair \in aliases}
            BY <1>1, <3>1 DEF ResolutionInv, BuiltFacts
        <3>6. \A p \in PatternsOf(Elements(source.named)) : Flaw[p] = "none"
            BY <3>5, FlawsAgree
        <3>7. FuelNeeded <= MaxRegexFuel
            BY <3>2, <3>5, FuelAgrees
        <3>8. {j \in 1..Len(source.named) : WinsIn(source, j)} = {j \in 1..Len(source.named) : Wins(source.named[j])}
            BY <3>2, WinsAgree
        <3>9. \A i : LexemeIn(source, i) = Lexeme[SpecOf(source.named[i]).pattern]
            BY SpecsAgree DEF LexemeIn
        <3>10. aliases = {<<Lexeme[SpecOf(source.named[i]).pattern], i>> :
                            i \in {j \in 1..Len(source.named) : Wins(source.named[j])}}
            BY <3>5, <3>8, <3>9
        <3>11. LexemesOf(Elements(source.named)) = {pair[1] : pair \in aliases}
            <4>1. 0 \in 0..Len(source.named)
                BY <3>2 DEF SourceTyped
            <4> QED
                BY <3>2, <3>5, <4>1, LexemesAgree
        <3> QED
            BY <3>3, <3>4, <3>6, <3>7, <3>10, <3>11
    <2> QED
        BY <2>4, <2>5, <2>6, <2>7, <2>8 DEF CompileIsExact
<1> QED
    BY <1>1, ResolutionInvAlways, PTL
=============================================================================
