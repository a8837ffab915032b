--------------------------- MODULE PreparedProofs ---------------------------
(* Facts about the runs of the LALR stack machine, about the execution of    *)
(* tokens and about what a matcher asks of the tables, for every grammar and *)
(* vocabulary.                                                               *)
(*                                                                           *)
(* An iteration keeps a configuration one (StepFollows), and on two stacks   *)
(* of which one is the upper part of the other it does the same thing unless *)
(* it pops the base of the smaller one (StepAligned).  Every run ends        *)
(* (NoEndlessRun), so that a run is its iterations up to the last            *)
(* (RunUnfolds) and keeps what they keep (RunEnds); and what a run from the  *)
(* top of a stack decides holds on the stack (ClassIsTheAnswer).             *)
EXTENDS Prepared, SequenceTheorems, WellFoundedInduction, TLAPS

-----------------------------------------------------------------------------
(* Facts about a stack on top of another.                                    *)

(* What is on top of a stack does not depend on what lies below it.          *)
LEMMA TopOver ==
    ASSUME NEW S, NEW b \in Seq(S), NEW s \in Seq(S), NEW k \in 1..Len(s)
    PROVE  /\ (b \o s)[Len(b) + k] = s[k]
           /\ Len(b \o s) = Len(b) + Len(s)
           /\ b \o s \in Seq(S)
<1>1. Len(b) \in Nat /\ Len(s) \in Nat
  BY LenProperties
<1> QED
  BY <1>1, ConcatProperties

(* What is pushed is on top of a stack that is not empty.                    *)
LEMMA Pushed ==
    ASSUME NEW s \in Seq(ParserStates), NEW x \in ParserStates
    PROVE  /\ Append(s, x) \in Seq(ParserStates) \ {<<>>}
           /\ Len(Append(s, x)) = Len(s) + 1
           /\ Top(Append(s, x)) = x
<1>1. Len(s) \in Nat
  BY LenProperties
<1>2. Append(s, x) \in Seq(ParserStates) /\ Len(Append(s, x)) = Len(s) + 1
      /\ Append(s, x)[Len(s) + 1] = x
  BY <1>1, AppendProperties
<1> QED
  BY <1>1, <1>2, EmptySeq DEF Top

(* Pushing on the upper part pushes on the whole.                            *)
LEMMA PushOver ==
    ASSUME NEW b \in Seq(ParserStates), NEW s \in Seq(ParserStates), NEW x \in ParserStates
    PROVE  Append(b \o s, x) = b \o Append(s, x)
<1>1. b \o s \in Seq(ParserStates) /\ <<x>> \in Seq(ParserStates)
  BY ConcatProperties
<1>2. Append(b \o s, x) = (b \o s) \o <<x>> /\ Append(s, x) = s \o <<x>>
  BY <1>1, AppendIsConcat
<1> QED
  BY <1>1, <1>2, ConcatAssociative

(* Popping part of the upper part pops the same part of the whole.           *)
LEMMA PopOver ==
    ASSUME NEW S, NEW b \in Seq(S), NEW s \in Seq(S), NEW k \in 1..Len(s)
    PROVE  /\ SubSeq(b \o s, 1, Len(b) + k) = b \o SubSeq(s, 1, k)
           /\ SubSeq(s, 1, k) \in Seq(S)
           /\ SubSeq(b \o s, 1, Len(b) + k) \in Seq(S)
<1>1. Len(b) \in Nat /\ Len(s) \in Nat /\ k \in Nat
  BY LenProperties
<1>2. /\ b \o s \in Seq(S) /\ Len(b \o s) = Len(b) + Len(s)
      /\ \A i \in 1..Len(b) + Len(s) :
            (b \o s)[i] = IF i <= Len(b) THEN b[i] ELSE s[i - Len(b)]
  BY ConcatProperties
<1>3. /\ SubSeq(s, 1, k) \in Seq(S) /\ Len(SubSeq(s, 1, k)) = k
      /\ \A i \in 1..k : SubSeq(s, 1, k)[i] = s[i]
  <2>1. \A i \in 1..k : s[i] \in S
    BY <1>1, ElementOfSeq
  <2> QED
    BY <1>1, <2>1, SubSeqProperties
<1>4. /\ SubSeq(b \o s, 1, Len(b) + k) \in Seq(S)
      /\ Len(SubSeq(b \o s, 1, Len(b) + k)) = Len(b) + k
      /\ \A i \in 1..Len(b) + k : SubSeq(b \o s, 1, Len(b) + k)[i] = (b \o s)[i]
  <2>1. \A i \in 1..Len(b) + k : (b \o s)[i] \in S
    BY <1>1, <1>2, ElementOfSeq
  <2> QED
    BY <1>1, <2>1, SubSeqProperties
<1>5. /\ b \o SubSeq(s, 1, k) \in Seq(S) /\ Len(b \o SubSeq(s, 1, k)) = Len(b) + k
      /\ \A i \in 1..Len(b) + k : (b \o SubSeq(s, 1, k))[i]
            = IF i <= Len(b) THEN b[i] ELSE SubSeq(s, 1, k)[i - Len(b)]
  BY <1>3, ConcatProperties
<1>6. \A i \in 1..Len(b) + k :
          SubSeq(b \o s, 1, Len(b) + k)[i] = (b \o SubSeq(s, 1, k))[i]
  BY <1>1, <1>2, <1>3, <1>4, <1>5
<1> QED
  BY <1>3, <1>4, <1>5, <1>6, SeqEqual

(* A nonempty stack is its rest under its top.                               *)
LEMMA TopAndRest ==
    ASSUME NEW S, NEW s \in Seq(S) \ {<<>>}
    PROVE  /\ SubSeq(s, 1, Len(s) - 1) \in Seq(S)
           /\ Len(SubSeq(s, 1, Len(s) - 1)) = Len(s) - 1
           /\ Len(s) \in Nat \ {0}
           /\ s[Len(s)] \in S
           /\ s = SubSeq(s, 1, Len(s) - 1) \o <<s[Len(s)]>>
<1>1. Len(s) \in Nat \ {0}
  BY EmptySeq
<1>2. \A i \in 1..Len(s) : s[i] \in S
  BY ElementOfSeq
<1>3. /\ SubSeq(s, 1, Len(s) - 1) \in Seq(S)
      /\ Len(SubSeq(s, 1, Len(s) - 1)) = Len(s) - 1
  <2> DEFINE n == Len(s) - 1
  <2>1. n \in Nat /\ \A i \in 1..n : s[i] \in S
    BY <1>1, <1>2
  <2> HIDE DEF n
  <2>2. SubSeq(s, 1, n) \in Seq(S) /\ Len(SubSeq(s, 1, n)) = IF 1 <= n THEN n - 1 + 1 ELSE 0
    BY <2>1, SubSeqProperties
  <2>3. SubSeq(s, 1, n) \in Seq(S) /\ Len(SubSeq(s, 1, n)) = n
    BY <2>1, <2>2
  <2> QED
    BY <2>3 DEF n
<1>4. SubSeq(s, 1, Len(s)) = s
  BY SubSeqFull
<1>5. SubSeq(s, 1, Len(s)) = SubSeq(s, 1, Len(s) - 1) \o <<s[Len(s)]>>
  BY <1>1, SubSeqRecursiveSecond
<1>6. s[Len(s)] \in S
  BY <1>1, <1>2
<1> QED
  BY <1>1, <1>3, <1>4, <1>5, <1>6

-----------------------------------------------------------------------------
(* Step stays in the configurations and never empties the stack.             *)

(* What every iteration keeps: the type, a nonempty stack and the mode.      *)
KeepsRun(c, n) ==
    /\ n \in Configurations
    /\ n.stack # <<>>
    /\ n.underflow = c.underflow /\ n.maximum = c.maximum

(* Charging keeps them, whatever the budget says.                            *)
LEMMA ChargedFollows ==
    ASSUME NEW c \in Configurations, c.stack # <<>>, NEW cost \in Nat,
           NEW next, KeepsRun(c, next)
    PROVE  KeepsRun(c, Charged(c, cost, next))
<1>1. CASE c.maximum = Unbounded
  BY <1>1 DEF Charged
<1>2. CASE c.maximum # Unbounded /\ c.used + cost > c.maximum
  <2> DEFINE n == [c EXCEPT !.used = c.maximum + 1, !.decision = "WorkLimitExceeded"]
  <2>1. c.maximum + 1 \in Nat /\ "WorkLimitExceeded" \in Failures
    BY <1>2 DEF Configurations, Failures
  <2>2. n \in Configurations
    BY <2>1 DEF Configurations
  <2>3. n.stack = c.stack /\ n.underflow = c.underflow /\ n.maximum = c.maximum
    BY DEF Configurations
  <2> QED
    BY <1>2, <2>2, <2>3 DEF Charged, KeepsRun
<1>3. CASE c.maximum # Unbounded /\ ~(c.used + cost > c.maximum)
  <2> DEFINE n == [next EXCEPT !.used = c.used + cost]
  <2>1. c.used + cost \in Nat /\ next \in Configurations
    BY DEF Configurations, KeepsRun
  <2>2. n \in Configurations
    BY <2>1 DEF Configurations
  <2>3. n.stack = next.stack /\ n.underflow = next.underflow /\ n.maximum = next.maximum
    BY <2>1 DEF Configurations
  <2> QED
    BY <1>3, <2>2, <2>3 DEF Charged, KeepsRun
<1> QED
  BY <1>1, <1>2, <1>3

(* A run that stops keeps them.                                              *)
LEMMA HaltFollows ==
    ASSUME NEW c \in Configurations, c.stack # <<>>,
           NEW decision \in Decisions \cup Failures
    PROVE  KeepsRun(c, Halt(c, decision))
<1>1. [c EXCEPT !.decision = decision] \in Configurations
  BY DEF Configurations
<1>2. /\ Halt(c, decision).stack = c.stack
      /\ Halt(c, decision).underflow = c.underflow
      /\ Halt(c, decision).maximum = c.maximum
  BY DEF Halt, Configurations
<1> QED
  BY <1>1, <1>2 DEF Halt, KeepsRun

(* Going on to the next terminal with a nonempty stack keeps them.           *)
LEMMA NextTerminalFollows ==
    ASSUME NEW c \in Configurations, NEW s \in Seq(ParserStates), s # <<>>
    PROVE  KeepsRun(c, NextTerminal(c, s))
<1>1. c.index + 1 \in Nat \ {0} /\ NoReduction \in [rank : Int, pop_len : Nat]
  BY DEF Configurations, NoReduction
<1>2. [c EXCEPT !.stack = s, !.index = c.index + 1, !.previous = NoReduction]
        \in Configurations
  BY <1>1 DEF Configurations
<1>3. /\ NextTerminal(c, s).stack = s
      /\ NextTerminal(c, s).underflow = c.underflow
      /\ NextTerminal(c, s).maximum = c.maximum
  BY DEF NextTerminal, Configurations
<1> QED
  BY <1>2, <1>3 DEF NextTerminal, KeepsRun

(* A table cell is one of the four kinds, with its fields.                   *)
LEMMA CellType ==
    ASSUME NEW s \in ParserStates, NEW t \in Terminals
    PROVE  LET cell == Action[s][t] IN
           /\ cell.type \in {"error", "accept", "shift", "reduce"}
           /\ cell.type = "shift" => cell.to \in ParserStates
           /\ cell.type = "reduce" => cell.production \in Productions /\ cell.rank \in Nat
BY LalrAssumption DEF ActionCells

(* A reduction keeps them.                                                   *)
LEMMA ReductionFollows ==
    ASSUME NEW c \in Configurations, c.stack # <<>>, NEW lookup \in Nat,
           NEW cell, cell.production \in Productions, cell.rank \in Nat
    PROVE  KeepsRun(c, ApplyReduction(c, cell, lookup))
<1> DEFINE kept == Len(c.stack) - PopLen[cell.production]
           destination == Goto[c.stack[kept]][Lhs[cell.production]]
<1>1. /\ c.stack \in Seq(ParserStates) /\ Len(c.stack) \in Nat
      /\ PopLen[cell.production] \in Nat /\ Lhs[cell.production] \in Nonterminals
  BY LalrAssumption, LenProperties DEF Configurations
<1>2. CASE kept <= 0
  <2>1. c.underflow \in Decisions \cup Failures
    BY DEF Configurations, Decisions, Failures
  <2>2. ApplyReduction(c, cell, lookup) = Charged(c, lookup + 1, Halt(c, c.underflow))
    BY <1>2 DEF ApplyReduction
  <2> QED
    BY <2>1, <2>2, HaltFollows, ChargedFollows
<1>3. CASE kept > 0 /\ destination = NoGoto
  <2>1. ApplyReduction(c, cell, lookup) = Charged(c, lookup + 2, Halt(c, "MissingGoto"))
    BY <1>1, <1>3 DEF ApplyReduction
  <2> QED
    BY <2>1, HaltFollows, ChargedFollows DEF Failures
<1>4. CASE kept > 0 /\ destination # NoGoto
  <2>1. kept \in 1..Len(c.stack) /\ c.stack[kept] \in ParserStates
    BY <1>1, <1>4, ElementOfSeq
  <2>2. destination \in ParserStates
    BY <1>1, <1>4, <2>1, LalrAssumption
  <2>3. SubSeq(c.stack, 1, kept) \in Seq(ParserStates)
    BY <1>1, <2>1, PopOver, EmptySeq
  <2>4. /\ Append(SubSeq(c.stack, 1, kept), destination) \in Seq(ParserStates)
        /\ Append(SubSeq(c.stack, 1, kept), destination) # <<>>
    BY <2>2, <2>3, AppendProperties
  <2>5. KeepsRun(c, Reduced(c, kept, cell, destination))
    <3>1. [rank |-> cell.rank, pop_len |-> PopLen[cell.production]]
            \in [rank : Int, pop_len : Nat]
      BY <1>1
    <3>2. Reduced(c, kept, cell, destination) \in Configurations
      BY <2>4, <3>1 DEF Reduced, Configurations
    <3>3. /\ Reduced(c, kept, cell, destination).stack
               = Append(SubSeq(c.stack, 1, kept), destination)
          /\ Reduced(c, kept, cell, destination).underflow = c.underflow
          /\ Reduced(c, kept, cell, destination).maximum = c.maximum
      BY DEF Reduced, Configurations
    <3> QED
      BY <2>4, <3>2, <3>3 DEF KeepsRun
  <2>6. ApplyReduction(c, cell, lookup)
          = Charged(c, lookup + 3, Reduced(c, kept, cell, destination))
    BY <1>1, <1>4 DEF ApplyReduction
  <2>7. lookup + 3 \in Nat
    OBVIOUS
  <2> QED
    BY <2>5, <2>6, <2>7, ChargedFollows
<1> QED
  BY <1>1, <1>2, <1>3, <1>4

(* Every iteration of a run keeps the type and a nonempty stack.             *)
LEMMA StepFollows ==
    ASSUME NEW terminals \in Seq(Terminals), NEW c \in Configurations, c.stack # <<>>
    PROVE  KeepsRun(c, Step(terminals, c))
<1>1. /\ c.index \in Nat \ {0} /\ Len(terminals) \in Nat
      /\ c.stack \in Seq(ParserStates) \ {<<>>}
  BY LenProperties DEF Configurations
<1>2. CASE c.index > Len(terminals)
  <2>1. Step(terminals, c) = Halt(c, "Continue")
    BY <1>1, <1>2 DEF Step
  <2> QED
    BY <2>1, HaltFollows DEF Decisions
<1>3. CASE c.index <= Len(terminals) /\ terminals[c.index] \in Ignored
  <2>1. Step(terminals, c) = Charged(c, 1, NextTerminal(c, c.stack))
    BY <1>1, <1>3 DEF Step
  <2> QED
    BY <1>1, <2>1, NextTerminalFollows, ChargedFollows
<1>4. CASE c.index <= Len(terminals) /\ terminals[c.index] \notin Ignored
  <2> DEFINE cell == Action[Top(c.stack)][terminals[c.index]]
             lookup == IF c.previous = NoReduction THEN 2 ELSE 1
  <2>1. Step(terminals, c) = RunTerminal(terminals, c)
    BY <1>1, <1>4 DEF Step
  <2>2. Top(c.stack) \in ParserStates /\ terminals[c.index] \in Terminals
    BY <1>1, <1>4, TopAndRest, ElementOfSeq DEF Top
  <2>3. /\ cell.type \in {"error", "accept", "shift", "reduce"}
        /\ cell.type = "shift" => cell.to \in ParserStates
        /\ cell.type = "reduce" => cell.production \in Productions /\ cell.rank \in Nat
    BY <2>2, CellType
  <2>4. lookup \in Nat
    OBVIOUS
  <2> HIDE DEF lookup
  <2>5. CASE cell.type = "error"
    <3>1. RunTerminal(terminals, c) = Charged(c, lookup, Halt(c, "Rejected"))
      BY <2>5 DEF RunTerminal, lookup
    <3> QED
      BY <2>1, <2>4, <3>1, HaltFollows, ChargedFollows DEF Decisions
  <2>6. CASE cell.type = "shift"
    <3>1. RunTerminal(terminals, c)
            = Charged(c, lookup + 1, NextTerminal(c, Append(c.stack, cell.to)))
      BY <2>6 DEF RunTerminal, lookup
    <3>2. Append(c.stack, cell.to) \in Seq(ParserStates) /\ Append(c.stack, cell.to) # <<>>
      BY <1>1, <2>3, <2>6, AppendProperties
    <3>3. KeepsRun(c, NextTerminal(c, Append(c.stack, cell.to)))
      BY <3>2, NextTerminalFollows
    <3>4. lookup + 1 \in Nat
      BY <2>4
    <3> QED
      BY <2>1, <3>1, <3>3, <3>4, ChargedFollows
  <2>7. CASE cell.type = "reduce"
    <3>1. RunTerminal(terminals, c)
            = IF Progresses(c.previous, cell.rank) THEN ApplyReduction(c, cell, lookup)
              ELSE Charged(c, lookup, Halt(c, "InvalidReductionProgress"))
      BY <2>7 DEF RunTerminal, lookup
    <3> QED
      BY <2>1, <2>3, <2>4, <2>7, <3>1, ReductionFollows, HaltFollows, ChargedFollows DEF Failures
  <2>8. CASE cell.type = "accept"
    <3>1. RunTerminal(terminals, c)
            = Charged(c, lookup, Halt(c, IF c.index = Len(terminals) THEN "Accepted"
                                         ELSE "AcceptBeforeEnd"))
      BY <2>8 DEF RunTerminal, lookup
    <3> QED
      BY <2>1, <2>4, <3>1, HaltFollows, ChargedFollows DEF Decisions, Failures
  <2> QED
    BY <2>3, <2>5, <2>6, <2>7, <2>8
<1> QED
  BY <1>1, <1>2, <1>3, <1>4
-----------------------------------------------------------------------------
(* One iteration of two aligned runs.                                        *)

(* A budget either ends a run or does not change what it does.               *)
LEMMA ChargedCases ==
    ASSUME NEW c \in Configurations, NEW cost \in Nat, NEW next \in Configurations
    PROVE  LET n == Charged(c, cost, next) IN
           /\ c.maximum = Unbounded => n = next
           /\ \/ n.decision = "WorkLimitExceeded"
              \/ /\ n.decision = next.decision /\ n.stack = next.stack
                 /\ n.previous = next.previous /\ n.index = next.index
<1>1. CASE c.maximum = Unbounded
  BY <1>1 DEF Charged
<1>2. CASE c.maximum # Unbounded /\ c.used + cost > c.maximum
  BY <1>2 DEF Charged, Configurations
<1>3. CASE c.maximum # Unbounded /\ ~(c.used + cost > c.maximum)
  BY <1>3 DEF Charged, Configurations
<1> QED
  BY <1>1, <1>2, <1>3

(* c runs on the upper part of the stack d runs on, and both are at the same *)
(* point of the same terminal.                                               *)
AlignedOver(b, c, d) ==
    /\ c \in Configurations /\ d \in Configurations
    /\ c.stack # <<>>
    /\ d.stack = b \o c.stack
    /\ d.previous = c.previous
    /\ c.decision = "running" /\ d.decision = "running"
    /\ c.underflow = "Dependent" /\ d.maximum = Unbounded

(* What the iterations n of c and m of d, at the ends of runs of i and j     *)
(* terminals, have in common.                                                *)
SameStep(b, c, d, n, m, i, j) ==
    /\ n.decision = "running" =>
         /\ m.decision = "running"
         /\ m.stack = b \o n.stack
         /\ m.previous = n.previous
         /\ n.index - c.index = m.index - d.index
         /\ \/ m.index = d.index
            \/ m.index = d.index + 1 /\ m.previous = NoReduction
    /\ n.decision = "Rejected" => m.decision = "Rejected"
    /\ n.decision = "Accepted" => c.index = i /\ (d.index = j => m.decision = "Accepted")
    /\ n.decision # "Continue"

(* Reductions that stay above the base act alike.                            *)
LEMMA ReductionAligned ==
    ASSUME NEW b \in Seq(ParserStates), NEW c, NEW d, AlignedOver(b, c, d),
           NEW lookup \in Nat, NEW i \in Nat, NEW j \in Nat,
           NEW cell, cell.production \in Productions, cell.rank \in Nat
    PROVE  SameStep(b, c, d, ApplyReduction(c, cell, lookup),
                    ApplyReduction(d, cell, lookup), i, j)
<1> DEFINE kept == Len(c.stack) - PopLen[cell.production]
           below == Len(b) + kept
           destination == Goto[c.stack[kept]][Lhs[cell.production]]
<1>1. /\ c.stack \in Seq(ParserStates) /\ d.stack \in Seq(ParserStates)
      /\ Len(c.stack) \in Nat /\ Len(b) \in Nat
      /\ PopLen[cell.production] \in Nat
      /\ d.stack = b \o c.stack
      /\ Len(d.stack) - PopLen[cell.production] = below
  <2>1. c.stack \in Seq(ParserStates) /\ d.stack \in Seq(ParserStates)
        /\ d.stack = b \o c.stack
    BY DEF AlignedOver, Configurations
  <2>2. PopLen[cell.production] \in Nat /\ Len(c.stack) \in Nat /\ Len(b) \in Nat
    BY <2>1, LalrAssumption, LenProperties
  <2>3. Len(d.stack) = Len(b) + Len(c.stack)
    BY <2>1, ConcatProperties
  <2> QED
    BY <2>1, <2>2, <2>3
<1>2. CASE kept <= 0
  <2>1. ApplyReduction(c, cell, lookup) = Charged(c, lookup + 1, Halt(c, c.underflow))
    BY <1>2 DEF ApplyReduction
  <2>2. Halt(c, "Dependent") \in Configurations /\ Halt(c, "Dependent").decision = "Dependent"
    BY HaltFollows DEF KeepsRun, AlignedOver, Decisions, Halt, Configurations
  <2>3. ApplyReduction(c, cell, lookup).decision \in {"Dependent", "WorkLimitExceeded"}
    BY <2>1, <2>2, ChargedCases DEF AlignedOver
  <2> QED
    BY <2>3 DEF SameStep
<1>3. CASE kept > 0
  <2>1. /\ kept \in 1..Len(c.stack) /\ below = Len(b) + kept /\ below > 0
        /\ below = Len(d.stack) - PopLen[cell.production]
    BY <1>1, <1>3
  <2>2. /\ ApplyReduction(c, cell, lookup)
             = IF destination = NoGoto THEN Charged(c, lookup + 2, Halt(c, "MissingGoto"))
               ELSE Charged(c, lookup + 3, Reduced(c, kept, cell, destination))
    BY <1>1, <1>3 DEF ApplyReduction
  <2>3. /\ ApplyReduction(d, cell, lookup)
             = IF Goto[d.stack[below]][Lhs[cell.production]] = NoGoto
               THEN Charged(d, lookup + 2, Halt(d, "MissingGoto"))
               ELSE Charged(d, lookup + 3,
                            Reduced(d, below, cell, Goto[d.stack[below]][Lhs[cell.production]]))
    <3> HIDE DEF below
    <3>1. ~(below <= 0)
      BY <1>1, <2>1
    <3> QED
      BY <2>1, <3>1 DEF ApplyReduction
  <2> HIDE DEF kept, below
  <2>4. /\ d.stack[below] = c.stack[kept]
        /\ SubSeq(d.stack, 1, below) = b \o SubSeq(c.stack, 1, kept)
        /\ SubSeq(c.stack, 1, kept) \in Seq(ParserStates)
        /\ SubSeq(d.stack, 1, below) \in Seq(ParserStates)
    <3>1. (b \o c.stack)[Len(b) + kept] = c.stack[kept]
      BY <1>1, <2>1, TopOver
    <3>2. /\ SubSeq(b \o c.stack, 1, Len(b) + kept) = b \o SubSeq(c.stack, 1, kept)
          /\ SubSeq(c.stack, 1, kept) \in Seq(ParserStates)
          /\ SubSeq(b \o c.stack, 1, Len(b) + kept) \in Seq(ParserStates)
      BY <1>1, <2>1, PopOver
    <3> QED
      BY <1>1, <2>1, <3>1, <3>2
  <2>5. CASE destination = NoGoto
    <3>1. /\ Halt(c, "MissingGoto") \in Configurations
          /\ Halt(c, "MissingGoto").decision = "MissingGoto"
      BY HaltFollows DEF KeepsRun, AlignedOver, Failures, Halt, Configurations
    <3>2. ApplyReduction(c, cell, lookup).decision \in {"MissingGoto", "WorkLimitExceeded"}
      BY <2>2, <2>5, <3>1, ChargedCases DEF AlignedOver
    <3> QED
      BY <3>2 DEF SameStep
  <2>6. CASE destination # NoGoto
    <3>1. c.stack[kept] \in ParserStates
      BY <1>1, <2>1, ElementOfSeq
    <3>2. destination \in ParserStates
      BY <2>6, <3>1, LalrAssumption
    <3>3. ApplyReduction(d, cell, lookup)
            = Charged(d, lookup + 3, Reduced(d, below, cell, destination))
      BY <2>3, <2>4, <2>6
    <3> HIDE DEF destination
    <3> DEFINE r == Reduced(c, kept, cell, destination)
               q == Reduced(d, below, cell, destination)
               p == [rank |-> cell.rank, pop_len |-> PopLen[cell.production]]
               e == Append(SubSeq(c.stack, 1, kept), destination)
               f == Append(SubSeq(d.stack, 1, below), destination)
    <3>4. /\ e \in Seq(ParserStates) \ {<<>>} /\ f \in Seq(ParserStates) \ {<<>>} /\ f = b \o e
          /\ p \in [rank : Int, pop_len : Nat]
      <4>1. e \in Seq(ParserStates) \ {<<>>} /\ f \in Seq(ParserStates) \ {<<>>}
        <5>1. SubSeq(c.stack, 1, kept) \in Seq(ParserStates)
          BY <2>4
        <5>2. SubSeq(d.stack, 1, below) \in Seq(ParserStates)
          BY <2>4
        <5> QED
          BY <3>2, <5>1, <5>2, Pushed
      <4>2. Append(b \o SubSeq(c.stack, 1, kept), destination) = b \o e
        BY <2>4, <3>2, PushOver
      <4>3. p \in [rank : Int, pop_len : Nat]
        BY <1>1
      <4> QED
        BY <2>4, <4>1, <4>2, <4>3
    <3>5. r \in Configurations /\ q \in Configurations
      BY <3>4 DEF Reduced, Configurations, AlignedOver
    <3>6. /\ r.stack = e /\ r.previous = p /\ r.index = c.index /\ r.decision = "running"
          /\ q.stack = f /\ q.previous = p /\ q.index = d.index /\ q.decision = "running"
      BY DEF Reduced, Configurations, AlignedOver
    <3>7. /\ lookup + 3 \in Nat /\ c \in Configurations /\ d \in Configurations
          /\ d.maximum = Unbounded /\ c.index \in Nat /\ d.index \in Nat
      BY DEF AlignedOver, Configurations
    <3> HIDE DEF r, q, p, e, f
    <3>8. ApplyReduction(d, cell, lookup) = q
      BY <3>3, <3>5, <3>7, ChargedCases DEF q
    <3>9. ApplyReduction(c, cell, lookup) = Charged(c, lookup + 3, r)
      BY <2>2, <2>6 DEF r
    <3> DEFINE n == ApplyReduction(c, cell, lookup)
    <3>10. \/ n.decision = "WorkLimitExceeded"
           \/ /\ n.decision = "running" /\ n.stack = e
              /\ n.previous = p /\ n.index = c.index
      BY <3>5, <3>6, <3>7, <3>9, ChargedCases
    <3> HIDE DEF n
    <3>11. n.decision \notin {"Rejected", "Accepted", "Continue"}
      BY <3>10
    <3>12. n.decision = "running" =>
             /\ q.stack = b \o n.stack /\ q.previous = n.previous
             /\ n.index - c.index = q.index - d.index
      <4>1. n.decision = "running" => n.stack = e /\ n.previous = p /\ n.index = c.index
        BY <3>10
      <4>2. c.index - c.index = d.index - d.index
        BY <3>7
      <4> QED
        BY <3>4, <3>6, <4>1, <4>2
    <3>13. SameStep(b, c, d, n, q, i, j)
      BY <3>6, <3>11, <3>12 DEF SameStep
    <3> QED
      BY <3>8, <3>13 DEF n
  <2> QED
    BY <2>5, <2>6
<1> QED
  BY <1>1, <1>2, <1>3

(* An iteration on the same terminal acts alike.                             *)
LEMMA StepAligned ==
    ASSUME NEW b \in Seq(ParserStates), NEW c, NEW d, AlignedOver(b, c, d),
           NEW t \in Seq(Terminals), NEW u \in Seq(Terminals),
           c.index <= Len(t), d.index <= Len(u), t[c.index] = u[d.index]
    PROVE  SameStep(b, c, d, Step(t, c), Step(u, d), Len(t), Len(u))
<1> DEFINE term == t[c.index]
           cell == Action[Top(c.stack)][term]
           lookup == IF c.previous = NoReduction THEN 2 ELSE 1
<1>1. /\ c \in Configurations /\ d \in Configurations
      /\ c.stack \in Seq(ParserStates) \ {<<>>} /\ d.stack = b \o c.stack
      /\ d.previous = c.previous /\ d.maximum = Unbounded
      /\ c.decision = "running" /\ d.decision = "running"
      /\ c.index \in Nat \ {0} /\ d.index \in Nat \ {0}
      /\ Len(t) \in Nat /\ Len(u) \in Nat
  BY LenProperties DEF AlignedOver, Configurations
<1>2. term \in Terminals /\ u[d.index] = term
  BY <1>1, ElementOfSeq
<1>3. /\ Top(c.stack) \in ParserStates /\ Top(d.stack) = Top(c.stack)
      /\ d.stack \in Seq(ParserStates) \ {<<>>}
  <2>1. Len(c.stack) \in Nat \ {0} /\ Len(b) \in Nat
    BY <1>1, EmptySeq, LenProperties
  <2>2. /\ (b \o c.stack)[Len(b) + Len(c.stack)] = c.stack[Len(c.stack)]
        /\ Len(b \o c.stack) = Len(b) + Len(c.stack)
        /\ b \o c.stack \in Seq(ParserStates)
    BY <1>1, <2>1, TopOver
  <2>3. c.stack[Len(c.stack)] \in ParserStates
    BY <1>1, TopAndRest
  <2>4. b \o c.stack # <<>>
    BY <1>1, ConcatEqualIffEmpty
  <2> QED
    BY <1>1, <2>2, <2>3, <2>4 DEF Top
<1>4. CASE term \in Ignored
  <2> DEFINE r == NextTerminal(c, c.stack)
             q == NextTerminal(d, d.stack)
             n == Step(t, c)
  <2>1. n = Charged(c, 1, r) /\ Step(u, d) = Charged(d, 1, q)
    BY <1>1, <1>2, <1>4 DEF Step
  <2>2. r \in Configurations /\ q \in Configurations
    BY <1>1, <1>3, NextTerminalFollows DEF KeepsRun
  <2>3. /\ r.stack = c.stack /\ r.index = c.index + 1 /\ r.previous = NoReduction
        /\ r.decision = "running"
        /\ q.stack = d.stack /\ q.index = d.index + 1 /\ q.previous = NoReduction
        /\ q.decision = "running"
    BY <1>1 DEF NextTerminal, Configurations
  <2> HIDE DEF r, q, n
  <2>4. Step(u, d) = q
    BY <1>1, <2>1, <2>2, ChargedCases
  <2>5. \/ n.decision = "WorkLimitExceeded"
        \/ /\ n.decision = "running" /\ n.stack = c.stack
           /\ n.previous = NoReduction /\ n.index = c.index + 1
    BY <1>1, <2>1, <2>2, <2>3, ChargedCases
  <2>6. (c.index + 1) - c.index = (d.index + 1) - d.index
    BY <1>1
  <2>7. SameStep(b, c, d, n, q, Len(t), Len(u))
    BY <1>1, <2>3, <2>5, <2>6 DEF SameStep
  <2> QED
    BY <2>4, <2>7 DEF n
<1>5. CASE term \notin Ignored
  <2>1. Step(t, c) = RunTerminal(t, c) /\ Step(u, d) = RunTerminal(u, d)
    BY <1>1, <1>2, <1>5 DEF Step
  <2>2. /\ cell = Action[Top(d.stack)][u[d.index]]
        /\ lookup = IF d.previous = NoReduction THEN 2 ELSE 1
        /\ lookup \in Nat
    BY <1>1, <1>2, <1>3
  <2>3. /\ cell.type \in {"error", "accept", "shift", "reduce"}
        /\ cell.type = "shift" => cell.to \in ParserStates
        /\ cell.type = "reduce" => cell.production \in Productions /\ cell.rank \in Nat
    BY <1>2, <1>3, CellType
  <2>4. /\ RunTerminal(t, c) =
             CASE cell.type = "error" -> Charged(c, lookup, Halt(c, "Rejected"))
               [] cell.type = "shift" ->
                    Charged(c, lookup + 1, NextTerminal(c, Append(c.stack, cell.to)))
               [] cell.type = "reduce" ->
                    IF Progresses(c.previous, cell.rank) THEN ApplyReduction(c, cell, lookup)
                    ELSE Charged(c, lookup, Halt(c, "InvalidReductionProgress"))
               [] cell.type = "accept" ->
                    Charged(c, lookup, Halt(c, IF c.index = Len(t) THEN "Accepted"
                                               ELSE "AcceptBeforeEnd"))
    BY DEF RunTerminal
  <2>5. /\ RunTerminal(u, d) =
             CASE cell.type = "error" -> Charged(d, lookup, Halt(d, "Rejected"))
               [] cell.type = "shift" ->
                    Charged(d, lookup + 1, NextTerminal(d, Append(d.stack, cell.to)))
               [] cell.type = "reduce" ->
                    IF Progresses(d.previous, cell.rank) THEN ApplyReduction(d, cell, lookup)
                    ELSE Charged(d, lookup, Halt(d, "InvalidReductionProgress"))
               [] cell.type = "accept" ->
                    Charged(d, lookup, Halt(d, IF d.index = Len(u) THEN "Accepted"
                                               ELSE "AcceptBeforeEnd"))
    BY <2>2 DEF RunTerminal
  <2> HIDE DEF cell, lookup
  <2> DEFINE n == RunTerminal(t, c)
             m == RunTerminal(u, d)
  <2>6. ASSUME NEW x \in Decisions \cup Failures
        PROVE  /\ Halt(c, x) \in Configurations /\ Halt(c, x).decision = x
               /\ Halt(d, x) \in Configurations /\ Halt(d, x).decision = x
    BY <1>1, <1>3, HaltFollows DEF KeepsRun, Halt, Configurations
  <2>7. CASE cell.type = "error"
    <3>1. n = Charged(c, lookup, Halt(c, "Rejected")) /\ m = Charged(d, lookup, Halt(d, "Rejected"))
      BY <2>4, <2>5, <2>7
    <3>2. n.decision \in {"Rejected", "WorkLimitExceeded"} /\ m.decision = "Rejected"
      BY <1>1, <2>2, <2>6, <3>1, ChargedCases DEF Decisions
    <3> QED
      BY <2>1, <3>2 DEF SameStep
  <2>8. CASE cell.type = "shift"
    <3> DEFINE r == NextTerminal(c, Append(c.stack, cell.to))
               q == NextTerminal(d, Append(d.stack, cell.to))
    <3>1. n = Charged(c, lookup + 1, r) /\ m = Charged(d, lookup + 1, q)
      BY <2>4, <2>5, <2>8
    <3>2. /\ Append(c.stack, cell.to) \in Seq(ParserStates) /\ Append(c.stack, cell.to) # <<>>
          /\ Append(d.stack, cell.to) \in Seq(ParserStates) /\ Append(d.stack, cell.to) # <<>>
      BY <1>1, <1>3, <2>3, <2>8, AppendProperties
    <3>3. Append(b \o c.stack, cell.to) = b \o Append(c.stack, cell.to)
      <4> DEFINE upper == c.stack
                 to == cell.to
      <4>1. to \in ParserStates /\ upper \in Seq(ParserStates)
        BY <1>1, <2>3, <2>8
      <4> HIDE DEF upper, to
      <4>2. Append(b \o upper, to) = b \o Append(upper, to)
        BY <4>1, PushOver
      <4> QED
        BY <4>2 DEF upper, to
    <3>4. r \in Configurations /\ q \in Configurations
      BY <1>1, <3>2, NextTerminalFollows DEF KeepsRun
    <3>5. /\ r.stack = Append(c.stack, cell.to) /\ r.index = c.index + 1
          /\ r.previous = NoReduction /\ r.decision = "running"
          /\ q.stack = Append(d.stack, cell.to) /\ q.index = d.index + 1
          /\ q.previous = NoReduction /\ q.decision = "running"
      BY <1>1 DEF NextTerminal, Configurations
    <3> HIDE DEF r, q, n, m
    <3>6. lookup + 1 \in Nat
      BY <2>2
    <3>7. m = q
      BY <1>1, <3>1, <3>4, <3>6, ChargedCases
    <3>8. \/ n.decision = "WorkLimitExceeded"
          \/ /\ n.decision = "running" /\ n.stack = Append(c.stack, cell.to)
             /\ n.previous = NoReduction /\ n.index = c.index + 1
      <4>1. \/ n.decision = "WorkLimitExceeded"
            \/ /\ n.decision = r.decision /\ n.stack = r.stack
               /\ n.previous = r.previous /\ n.index = r.index
        BY <1>1, <3>1, <3>4, <3>6, ChargedCases
      <4> QED
        BY <3>5, <4>1
    <3>9. (c.index + 1) - c.index = (d.index + 1) - d.index
      BY <1>1
    <3>10. SameStep(b, c, d, n, q, Len(t), Len(u))
      BY <1>1, <3>3, <3>5, <3>8, <3>9 DEF SameStep
    <3> QED
      BY <2>1, <3>7, <3>10 DEF n, m
  <2>9. CASE cell.type = "reduce"
    <3>1. CASE Progresses(c.previous, cell.rank)
      <4>1. n = ApplyReduction(c, cell, lookup) /\ m = ApplyReduction(d, cell, lookup)
        BY <1>1, <2>4, <2>5, <2>9, <3>1
      <4>2. SameStep(b, c, d, ApplyReduction(c, cell, lookup),
                     ApplyReduction(d, cell, lookup), Len(t), Len(u))
        BY <1>1, <2>2, <2>3, <2>9, ReductionAligned
      <4> QED
        BY <2>1, <4>1, <4>2
    <3>2. CASE ~Progresses(c.previous, cell.rank)
      <4>1. n = Charged(c, lookup, Halt(c, "InvalidReductionProgress"))
        BY <2>4, <2>9, <3>2
      <4>2. n.decision \in {"InvalidReductionProgress", "WorkLimitExceeded"}
        BY <1>1, <2>2, <2>6, <4>1, ChargedCases DEF Failures
      <4> QED
        BY <2>1, <4>2 DEF SameStep
    <3> QED
      BY <3>1, <3>2
  <2>10. CASE cell.type = "accept"
    <3>1. CASE c.index = Len(t)
      <4>1. n = Charged(c, lookup, Halt(c, "Accepted"))
        BY <2>4, <2>10, <3>1
      <4>2. n.decision \in {"Accepted", "WorkLimitExceeded"}
        BY <1>1, <2>2, <2>6, <4>1, ChargedCases DEF Decisions
      <4>3. d.index = Len(u) => m = Charged(d, lookup, Halt(d, "Accepted"))
        BY <2>5, <2>10
      <4>4. d.index = Len(u) => m.decision = "Accepted"
        BY <1>1, <2>2, <2>6, <4>3, ChargedCases DEF Decisions
      <4> QED
        BY <2>1, <3>1, <4>2, <4>4 DEF SameStep
    <3>2. CASE c.index # Len(t)
      <4>1. n = Charged(c, lookup, Halt(c, "AcceptBeforeEnd"))
        BY <2>4, <2>10, <3>2
      <4>2. n.decision \in {"AcceptBeforeEnd", "WorkLimitExceeded"}
        BY <1>1, <2>2, <2>6, <4>1, ChargedCases DEF Failures
      <4> QED
        BY <2>1, <4>2 DEF SameStep
    <3> QED
      BY <3>1, <3>2
  <2> QED
    BY <2>3, <2>7, <2>8, <2>9, <2>10
<1> QED
  BY <1>4, <1>5
-----------------------------------------------------------------------------
(* Whole runs.  Every run ends, on every table: the terminals read, the rank *)
(* of the last reduction and the height of the stack fall together.          *)

Live(c) == c.decision = "running"

(* What an iteration after which the run goes on has done.                   *)
Moved(terminals, c, n) ==
    /\ c.index <= Len(terminals)
    /\ \/ n.index = c.index + 1
       \/ /\ n.index = c.index
          /\ n.previous.rank \in Nat /\ n.previous.pop_len \in Nat
          /\ Progresses(c.previous, n.previous.rank)
          /\ Len(n.stack) = Len(c.stack) - n.previous.pop_len + 1

LEMMA ChargedMoves ==
    ASSUME NEW terminals, NEW c \in Configurations, NEW cost \in Nat, NEW next \in Configurations,
           Live(next) => Moved(terminals, c, next)
    PROVE  LET n == Charged(c, cost, next) IN Live(n) => Moved(terminals, c, n)
<1> DEFINE n == Charged(c, cost, next)
<1>1. \/ n.decision = "WorkLimitExceeded"
      \/ /\ n.decision = next.decision /\ n.stack = next.stack
         /\ n.previous = next.previous /\ n.index = next.index
  BY ChargedCases
<1> HIDE DEF n
<1>2. Live(n) => Moved(terminals, c, n)
  BY <1>1 DEF Live, Moved
<1> QED
  BY <1>2 DEF n

LEMMA HaltMoves ==
    ASSUME NEW terminals, NEW c \in Configurations, NEW decision \in Decisions \cup Failures
    PROVE  /\ Halt(c, decision) \in Configurations
           /\ Live(Halt(c, decision)) => Moved(terminals, c, Halt(c, decision))
<1>1. Halt(c, decision) \in Configurations
  BY DEF Halt, Configurations
<1>2. Halt(c, decision).decision = decision /\ decision # "running"
  BY DEF Halt, Configurations, Decisions, Failures
<1> QED
  BY <1>1, <1>2 DEF Live

LEMMA NextTerminalMoves ==
    ASSUME NEW terminals, NEW c \in Configurations, c.index <= Len(terminals),
           NEW s \in Seq(ParserStates) \ {<<>>}
    PROVE  /\ NextTerminal(c, s) \in Configurations
           /\ Moved(terminals, c, NextTerminal(c, s))
<1>1. NextTerminal(c, s) \in Configurations
  BY NextTerminalFollows DEF KeepsRun
<1>2. NextTerminal(c, s).index = c.index + 1
  BY DEF NextTerminal, Configurations
<1> QED
  BY <1>1, <1>2 DEF Moved

LEMMA ReductionMoves ==
    ASSUME NEW terminals, NEW c \in Configurations, c.index <= Len(terminals), NEW lookup \in Nat,
           NEW cell, cell.production \in Productions, cell.rank \in Nat,
           Progresses(c.previous, cell.rank)
    PROVE  LET n == ApplyReduction(c, cell, lookup) IN Live(n) => Moved(terminals, c, n)
<1> DEFINE kept == Len(c.stack) - PopLen[cell.production]
           destination == Goto[c.stack[kept]][Lhs[cell.production]]
<1>1. /\ c.stack \in Seq(ParserStates) \ {<<>>} /\ Len(c.stack) \in Nat
      /\ PopLen[cell.production] \in Nat /\ Lhs[cell.production] \in Nonterminals
  BY LalrAssumption, LenProperties DEF Configurations
<1>2. CASE kept <= 0
  <2>1. c.underflow \in Decisions \cup Failures /\ lookup + 1 \in Nat
    BY DEF Configurations, Decisions, Failures
  <2>2. ApplyReduction(c, cell, lookup) = Charged(c, lookup + 1, Halt(c, c.underflow))
    BY <1>2 DEF ApplyReduction
  <2> QED
    BY <2>1, <2>2, HaltMoves, ChargedMoves
<1>3. CASE kept > 0 /\ destination = NoGoto
  <2>1. ApplyReduction(c, cell, lookup) = Charged(c, lookup + 2, Halt(c, "MissingGoto"))
    BY <1>1, <1>3 DEF ApplyReduction
  <2>2. "MissingGoto" \in Decisions \cup Failures /\ lookup + 2 \in Nat
    BY DEF Failures
  <2> QED
    BY <2>1, <2>2, HaltMoves, ChargedMoves
<1>4. CASE kept > 0 /\ destination # NoGoto
  <2> DEFINE n == Reduced(c, kept, cell, destination)
             cost == lookup + 3
  <2>1. kept \in 1..Len(c.stack) /\ c.stack[kept] \in ParserStates
    BY <1>1, <1>4, ElementOfSeq
  <2>2. destination \in ParserStates
    BY <1>1, <1>4, <2>1, LalrAssumption
  <2>3. SubSeq(c.stack, 1, kept) \in Seq(ParserStates) /\ Len(SubSeq(c.stack, 1, kept)) = kept
    <3>1. \A i \in 1..kept : c.stack[i] \in ParserStates
      BY <1>1, <2>1, ElementOfSeq
    <3> HIDE DEF kept
    <3>2. kept \in Nat
      BY <2>1
    <3>3. /\ SubSeq(c.stack, 1, kept) \in Seq(ParserStates)
          /\ Len(SubSeq(c.stack, 1, kept)) = IF 1 <= kept THEN kept - 1 + 1 ELSE 0
      BY <3>1, <3>2, SubSeqProperties
    <3> QED
      BY <2>1, <3>3
  <2>4. /\ Append(SubSeq(c.stack, 1, kept), destination) \in Seq(ParserStates) \ {<<>>}
        /\ Len(Append(SubSeq(c.stack, 1, kept), destination)) = kept + 1
    BY <2>2, <2>3, Pushed
  <2>5. [rank |-> cell.rank, pop_len |-> PopLen[cell.production]]
          \in [rank : Int, pop_len : Nat]
    BY <1>1
  <2>6. /\ n \in Configurations
        /\ n.stack = Append(SubSeq(c.stack, 1, kept), destination)
        /\ n.previous = [rank |-> cell.rank, pop_len |-> PopLen[cell.production]]
        /\ n.index = c.index
    BY <2>4, <2>5 DEF Reduced, Configurations
  <2>7. Moved(terminals, c, n)
    <3> HIDE DEF n
    <3>1. n.previous.rank = cell.rank /\ n.previous.pop_len = PopLen[cell.production]
      BY <2>6
    <3>2. Len(n.stack) = Len(c.stack) - PopLen[cell.production] + 1
      BY <2>4, <2>6
    <3> QED
      BY <1>1, <2>6, <3>1, <3>2 DEF Moved
  <2>8. ApplyReduction(c, cell, lookup) = Charged(c, cost, n)
    BY <1>1, <1>4 DEF ApplyReduction
  <2>9. n \in Configurations
    BY <2>6
  <2> HIDE DEF n, kept, destination
  <2>10. cost \in Nat
    OBVIOUS
  <2> HIDE DEF cost
  <2> QED
    BY <2>7, <2>8, <2>9, <2>10, ChargedMoves
<1> QED
  BY <1>1, <1>2, <1>3, <1>4

(* An iteration after which the run goes on has passed a terminal or made a  *)
(* reduction that check_reduction_progress allows.                           *)
LEMMA StepMoves ==
    ASSUME NEW terminals \in Seq(Terminals), NEW c \in Configurations,
           Live(Step(terminals, c))
    PROVE  Moved(terminals, c, Step(terminals, c))
<1>1. /\ c.index \in Nat \ {0} /\ Len(terminals) \in Nat
      /\ c.stack \in Seq(ParserStates) \ {<<>>}
  BY LenProperties DEF Configurations
<1>2. CASE c.index > Len(terminals)
  <2>1. Step(terminals, c) = Halt(c, "Continue")
    BY <1>1, <1>2 DEF Step
  <2> QED
    BY <2>1, HaltMoves DEF Decisions
<1>3. CASE c.index <= Len(terminals) /\ terminals[c.index] \in Ignored
  <2>1. Step(terminals, c) = Charged(c, 1, NextTerminal(c, c.stack))
    BY <1>1, <1>3 DEF Step
  <2> QED
    BY <1>1, <1>3, <2>1, NextTerminalMoves, ChargedMoves
<1>4. CASE c.index <= Len(terminals) /\ terminals[c.index] \notin Ignored
  <2> DEFINE cell == Action[Top(c.stack)][terminals[c.index]]
             lookup == IF c.previous = NoReduction THEN 2 ELSE 1
  <2>1. Step(terminals, c) = RunTerminal(terminals, c)
    BY <1>1, <1>4 DEF Step
  <2>2. Top(c.stack) \in ParserStates /\ terminals[c.index] \in Terminals
    BY <1>1, <1>4, TopAndRest, ElementOfSeq DEF Top
  <2>3. /\ cell.type \in {"error", "accept", "shift", "reduce"}
        /\ cell.type = "shift" => cell.to \in ParserStates
        /\ cell.type = "reduce" => cell.production \in Productions /\ cell.rank \in Nat
    BY <2>2, CellType
  <2>4. lookup \in Nat /\ lookup + 1 \in Nat
    OBVIOUS
  <2> HIDE DEF lookup
  <2>5. CASE cell.type = "error"
    <3>1. RunTerminal(terminals, c) = Charged(c, lookup, Halt(c, "Rejected"))
      BY <2>5 DEF RunTerminal, lookup
    <3> QED
      BY <2>1, <2>4, <3>1, HaltMoves, ChargedMoves DEF Decisions
  <2>6. CASE cell.type = "shift"
    <3>1. RunTerminal(terminals, c)
            = Charged(c, lookup + 1, NextTerminal(c, Append(c.stack, cell.to)))
      BY <2>6 DEF RunTerminal, lookup
    <3>2. Append(c.stack, cell.to) \in Seq(ParserStates) \ {<<>>}
      BY <1>1, <2>3, <2>6, Pushed
    <3> DEFINE next == NextTerminal(c, Append(c.stack, cell.to))
    <3>3. next \in Configurations /\ Moved(terminals, c, next)
      BY <1>4, <3>2, NextTerminalMoves
    <3> HIDE DEF next
    <3> QED
      BY <2>1, <2>4, <3>1, <3>3, ChargedMoves DEF next
  <2>7. CASE cell.type = "reduce"
    <3>1. CASE Progresses(c.previous, cell.rank)
      <4>1. RunTerminal(terminals, c) = ApplyReduction(c, cell, lookup)
        BY <2>7, <3>1 DEF RunTerminal, lookup
      <4> QED
        BY <1>4, <2>1, <2>3, <2>4, <2>7, <3>1, <4>1, ReductionMoves
    <3>2. CASE ~Progresses(c.previous, cell.rank)
      <4>1. RunTerminal(terminals, c) = Charged(c, lookup, Halt(c, "InvalidReductionProgress"))
        BY <2>7, <3>2 DEF RunTerminal, lookup
      <4> QED
        BY <2>1, <2>4, <4>1, HaltMoves, ChargedMoves DEF Failures
    <3> QED
      BY <3>1, <3>2
  <2>8. CASE cell.type = "accept"
    <3>1. RunTerminal(terminals, c)
            = Charged(c, lookup, Halt(c, IF c.index = Len(terminals) THEN "Accepted"
                                         ELSE "AcceptBeforeEnd"))
      BY <2>8 DEF RunTerminal, lookup
    <3> QED
      BY <2>1, <2>4, <3>1, HaltMoves, ChargedMoves DEF Decisions, Failures
  <2> QED
    BY <2>3, <2>5, <2>6, <2>7, <2>8
<1> QED
  BY <1>1, <1>2, <1>3, <1>4
(* Every nonempty set of naturals has a least element.                       *)
LEMMA LeastExists ==
    ASSUME NEW numbers, numbers \subseteq Nat, numbers # {}
    PROVE  \E k \in numbers : \A j \in numbers : k <= j
<1>1. PICK k \in numbers : \A j \in numbers : <<j, k>> \notin OpToRel(<, Nat)
  BY WFMin, NatLessThanWellFounded, Zenon
<1>2. \A j \in numbers : ~(j < k)
  BY <1>1, Zenon DEF OpToRel
<1> QED
  BY <1>2

(* The measure: a terminal counts for more than the first reduction on it,   *)
(* that for more than a rank, and a rank for more than a height.             *)
Unread(terminals, c) ==
    2 * (Len(terminals) - c.index) + (IF c.previous = NoReduction THEN 1 ELSE 0)
LastRank(c) == IF c.previous.rank \in Nat THEN c.previous.rank ELSE 0
Height(c) == IF c.previous.pop_len < 2 THEN 0 ELSE Len(c.stack)

(* Which falls.                                                              *)
LEMMA MeasureFalls ==
    ASSUME NEW terminals \in Seq(Terminals), NEW c \in Configurations, NEW n \in Configurations,
           Moved(terminals, c, n), n.index <= Len(terminals)
    PROVE  /\ {Unread(terminals, c), LastRank(c), Height(c)} \subseteq Nat
           /\ {Unread(terminals, n), LastRank(n), Height(n)} \subseteq Nat
           /\ \/ Unread(terminals, n) < Unread(terminals, c)
              \/ /\ Unread(terminals, n) = Unread(terminals, c)
                 /\ \/ LastRank(n) < LastRank(c)
                    \/ LastRank(n) = LastRank(c) /\ Height(n) < Height(c)
<1>1. /\ c.index \in Nat \ {0} /\ n.index \in Nat \ {0} /\ Len(terminals) \in Nat
      /\ c.stack \in Seq(ParserStates) \ {<<>>} /\ n.stack \in Seq(ParserStates) \ {<<>>}
      /\ Len(c.stack) \in Nat \ {0} /\ Len(n.stack) \in Nat \ {0}
      /\ c.previous \in [rank : Int, pop_len : Nat] /\ n.previous \in [rank : Int, pop_len : Nat]
  <2>1. /\ c.index \in Nat \ {0} /\ n.index \in Nat \ {0}
        /\ c.stack \in Seq(ParserStates) \ {<<>>} /\ n.stack \in Seq(ParserStates) \ {<<>>}
        /\ c.previous \in [rank : Int, pop_len : Nat] /\ n.previous \in [rank : Int, pop_len : Nat]
    BY DEF Configurations
  <2> QED
    BY <2>1, LenProperties, EmptySeq
<1>2. c.index <= Len(terminals)
  BY DEF Moved
<1>3. {Unread(terminals, c), LastRank(c), Height(c)} \subseteq Nat
  BY <1>1, <1>2 DEF Unread, LastRank, Height
<1>4. {Unread(terminals, n), LastRank(n), Height(n)} \subseteq Nat
  BY <1>1 DEF Unread, LastRank, Height
<1> DEFINE length == Len(terminals)
           first(x) == IF x.previous = NoReduction THEN 1 ELSE 0
<1>a. /\ length \in Nat /\ first(c) \in {0, 1} /\ first(n) \in {0, 1}
      /\ Unread(terminals, c) = 2 * (length - c.index) + first(c)
      /\ Unread(terminals, n) = 2 * (length - n.index) + first(n)
      /\ c.previous = NoReduction => first(c) = 1
      /\ n.previous # NoReduction => first(n) = 0
  BY <1>1 DEF Unread
<1> HIDE DEF length, first
<1>5. CASE n.index = c.index + 1
  <2>1. Unread(terminals, n) < Unread(terminals, c)
    BY <1>1, <1>5, <1>a
  <2> QED
    BY <1>3, <1>4, <2>1
<1>6. CASE /\ n.index = c.index
           /\ n.previous.rank \in Nat /\ n.previous.pop_len \in Nat
           /\ Progresses(c.previous, n.previous.rank)
           /\ Len(n.stack) = Len(c.stack) - n.previous.pop_len + 1
  <2>1. n.previous # NoReduction
    BY <1>6 DEF NoReduction
  <2>2. CASE c.previous = NoReduction
    <3>1. Unread(terminals, n) < Unread(terminals, c)
      BY <1>1, <1>6, <1>a, <2>1, <2>2
    <3> QED
      BY <1>3, <1>4, <3>1
  <2>3. CASE c.previous # NoReduction
    <3>1. Unread(terminals, n) = Unread(terminals, c)
      BY <1>6, <2>1, <2>3 DEF Unread
    <3>2. CASE n.previous.rank < c.previous.rank
      BY <1>1, <1>3, <1>4, <1>6, <3>1, <3>2 DEF LastRank
    <3>3. CASE n.previous.rank = c.previous.rank /\ c.previous.pop_len >= 2
      <4>1. LastRank(n) = LastRank(c)
        BY <3>3 DEF LastRank
      <4>2. Height(c) = Len(c.stack)
        BY <1>1, <3>3 DEF Height
      <4>3. Height(n) < Height(c)
        BY <1>1, <1>6, <4>2 DEF Height
      <4> QED
        BY <1>3, <1>4, <3>1, <4>1, <4>3
    <3> QED
      BY <1>6, <2>3, <3>2, <3>3 DEF Progresses
  <2> QED
    BY <2>2, <2>3
<1> QED
  BY <1>5, <1>6 DEF Moved

(* No run goes on for ever (run_initialized has no counter that stops it):   *)
(* no set of configurations that run is closed under the iteration.          *)
THEOREM NoEndlessRun ==
    ASSUME NEW terminals \in Seq(Terminals),
           NEW B, B \subseteq Configurations,
           \A c \in B : Live(c) /\ Step(terminals, c) \in B
    PROVE  B = {}
<1> SUFFICES ASSUME B # {} PROVE FALSE
  OBVIOUS
<1> DEFINE next(c) == Step(terminals, c)
<1>1. \A c \in B : /\ next(c) \in B
                   /\ {Unread(terminals, c), LastRank(c), Height(c)} \subseteq Nat
                   /\ \/ Unread(terminals, next(c)) < Unread(terminals, c)
                      \/ /\ Unread(terminals, next(c)) = Unread(terminals, c)
                         /\ \/ LastRank(next(c)) < LastRank(c)
                            \/ LastRank(next(c)) = LastRank(c) /\ Height(next(c)) < Height(c)
  <2> SUFFICES ASSUME NEW c \in B
               PROVE  /\ next(c) \in B
                      /\ {Unread(terminals, c), LastRank(c), Height(c)} \subseteq Nat
                      /\ \/ Unread(terminals, next(c)) < Unread(terminals, c)
                         \/ /\ Unread(terminals, next(c)) = Unread(terminals, c)
                            /\ \/ LastRank(next(c)) < LastRank(c)
                               \/ LastRank(next(c)) = LastRank(c) /\ Height(next(c)) < Height(c)
    OBVIOUS
  <2>1. next(c) \in B /\ c \in Configurations /\ next(c) \in Configurations /\ Live(next(c))
    OBVIOUS
  <2>2. Moved(terminals, c, next(c))
    BY <2>1, StepMoves
  <2>3. next(c).index <= Len(terminals)
    <3>1. next(next(c)) \in Configurations /\ Live(next(next(c)))
      BY <2>1
    <3>2. Moved(terminals, next(c), next(next(c)))
      BY <2>1, <3>1, StepMoves
    <3> QED
      BY <3>2 DEF Moved
  <2> HIDE DEF next
  <2> QED
    BY <2>1, <2>2, <2>3, MeasureFalls
<1> HIDE DEF next
<1>2. PICK i \in {Unread(terminals, c) : c \in B} : \A j \in {Unread(terminals, c) : c \in B} : i <= j
  <2>1. {Unread(terminals, c) : c \in B} \subseteq Nat /\ {Unread(terminals, c) : c \in B} # {}
    BY <1>1
  <2> QED
    BY <2>1, LeastExists
<1> DEFINE C == {c \in B : Unread(terminals, c) = i}
<1>3. PICK r \in {LastRank(c) : c \in C} : \A j \in {LastRank(c) : c \in C} : r <= j
  <2>1. {LastRank(c) : c \in C} \subseteq Nat /\ {LastRank(c) : c \in C} # {}
    BY <1>1, <1>2
  <2> QED
    BY <2>1, LeastExists
<1> DEFINE D == {c \in C : LastRank(c) = r}
<1>4. PICK h \in {Height(c) : c \in D} : \A j \in {Height(c) : c \in D} : h <= j
  <2>1. {Height(c) : c \in D} \subseteq Nat /\ {Height(c) : c \in D} # {}
    BY <1>1, <1>3
  <2> QED
    BY <2>1, LeastExists
<1>5. PICK c \in D : Height(c) = h
  BY <1>4
<1>6. /\ c \in B /\ Unread(terminals, c) = i /\ LastRank(c) = r /\ Height(c) = h
  BY <1>5
<1>7. next(c) \in B /\ {i, r, h} \subseteq Nat
  BY <1>1, <1>6
<1>8. {Unread(terminals, next(c)), LastRank(next(c)), Height(next(c))} \subseteq Nat
  BY <1>1, <1>7
<1>9. i <= Unread(terminals, next(c))
  BY <1>2, <1>7
<1>10. Unread(terminals, next(c)) = i
  BY <1>1, <1>6, <1>7, <1>8, <1>9
<1>11. next(c) \in C /\ r <= LastRank(next(c))
  BY <1>3, <1>7, <1>10
<1>12. LastRank(next(c)) = r
  BY <1>1, <1>6, <1>7, <1>8, <1>10, <1>11
<1>13. h <= Height(next(c))
  BY <1>4, <1>11, <1>12
<1> QED
  BY <1>1, <1>6, <1>7, <1>8, <1>10, <1>12, <1>13
(* The recursive function of Run exists, so that Run is Step until a         *)
(* decision.  Its values are given by the configurations a run comes through.*)
Closed(terminals, Q) == \A c \in Q : Live(c) => Step(terminals, c) \in Q
Reached(terminals, c) ==
    {d \in Configurations :
       \A Q \in SUBSET Configurations : c \in Q /\ Closed(terminals, Q) => d \in Q}
EndsOf(terminals, c) == {d \in Reached(terminals, c) : ~Live(d)}

(* Every iteration of a run is a configuration.                              *)
LEMMA StepType ==
    ASSUME NEW terminals \in Seq(Terminals), NEW c \in Configurations
    PROVE  Step(terminals, c) \in Configurations
<1>1. c.stack # <<>>
  BY DEF Configurations
<1> QED
  BY <1>1, StepFollows DEF KeepsRun

(* What a run that goes on comes through is where it is and what the rest of *)
(* it comes through.                                                         *)
LEMMA ReachedFrom ==
    ASSUME NEW terminals \in Seq(Terminals), NEW c \in Configurations
    PROVE  /\ ~Live(c) => Reached(terminals, c) = {c}
           /\ Live(c) => Reached(terminals, c) = {c} \cup Reached(terminals, Step(terminals, c))
<1>1. c \in Reached(terminals, c)
  BY DEF Reached
<1>2. ASSUME ~Live(c), NEW d \in Reached(terminals, c) PROVE d = c
  <2>1. {c} \in SUBSET Configurations /\ Closed(terminals, {c})
    BY <1>2 DEF Closed
  <2>2. d \in {c}
    BY <2>1 DEF Reached
  <2> QED
    BY <2>2
<1>3. ASSUME Live(c), NEW d \in Reached(terminals, Step(terminals, c))
      PROVE  d \in Reached(terminals, c)
  <2>1. d \in Configurations
    BY DEF Reached
  <2>2. ASSUME NEW Q \in SUBSET Configurations, c \in Q, Closed(terminals, Q) PROVE d \in Q
    <3>1. Step(terminals, c) \in Q
      BY <1>3, <2>2 DEF Closed
    <3> QED
      BY <2>2, <3>1 DEF Reached
  <2> QED
    BY <2>1, <2>2 DEF Reached
<1>4. ASSUME Live(c), NEW d \in Reached(terminals, c)
      PROVE  d \in {c} \cup Reached(terminals, Step(terminals, c))
  <2> DEFINE Q == {c} \cup Reached(terminals, Step(terminals, c))
  <2>1. Q \in SUBSET Configurations
    BY DEF Reached
  <2>2. Closed(terminals, Q)
    <3>1. ASSUME NEW e \in Reached(terminals, Step(terminals, c)), Live(e)
          PROVE  Step(terminals, e) \in Reached(terminals, Step(terminals, c))
      <4>1. e \in Configurations /\ Step(terminals, e) \in Configurations
        BY StepType DEF Reached
      <4>2. ASSUME NEW P \in SUBSET Configurations, Step(terminals, c) \in P, Closed(terminals, P)
            PROVE  Step(terminals, e) \in P
        <5>1. e \in P
          BY <4>2 DEF Reached
        <5> QED
          BY <3>1, <4>2, <5>1 DEF Closed
      <4> QED
        BY <4>1, <4>2 DEF Reached
    <3>2. Step(terminals, c) \in Reached(terminals, Step(terminals, c))
      BY StepType DEF Reached
    <3> QED
      BY <3>1, <3>2 DEF Closed
  <2>3. c \in Q
    OBVIOUS
  <2> HIDE DEF Q
  <2>4. d \in Q
    BY <2>1, <2>2, <2>3 DEF Reached
  <2> QED
    BY <2>4 DEF Q
<1> QED
  BY <1>1, <1>2, <1>3, <1>4

LEMMA EndsFrom ==
    ASSUME NEW terminals \in Seq(Terminals), NEW c \in Configurations
    PROVE  /\ ~Live(c) => EndsOf(terminals, c) = {c}
           /\ Live(c) => EndsOf(terminals, c) = EndsOf(terminals, Step(terminals, c))
BY ReachedFrom DEF EndsOf

LEMMA RunUnfolds ==
    ASSUME NEW terminals \in Seq(Terminals), NEW c \in Configurations
    PROVE  Run(terminals, c) = IF Live(c) THEN Run(terminals, Step(terminals, c)) ELSE c
<1> DEFINE run[x \in Configurations] ==
             IF x.decision = "running" THEN run[Step(terminals, x)] ELSE x
           some(S) == CHOOSE d : d \in S
           f == [x \in Configurations |-> some(EndsOf(terminals, x))]
<1>1. f = [x \in Configurations |->
             IF x.decision = "running" THEN f[Step(terminals, x)] ELSE x]
  <2>1. ASSUME NEW x \in Configurations
        PROVE  some(EndsOf(terminals, x))
                 = IF x.decision = "running" THEN f[Step(terminals, x)] ELSE x
    <3>1. CASE Live(x)
      <4>1. f[Step(terminals, x)] = some(EndsOf(terminals, Step(terminals, x)))
        BY StepType
      <4>2. EndsOf(terminals, x) = EndsOf(terminals, Step(terminals, x))
        BY <3>1, EndsFrom
      <4> HIDE DEF some, f
      <4> QED
        BY <3>1, <4>1, <4>2 DEF Live
    <3>2. CASE ~Live(x)
      <4>1. EndsOf(terminals, x) = {x}
        BY <3>2, EndsFrom
      <4>2. some({x}) = x
        OBVIOUS
      <4> HIDE DEF some
      <4> QED
        BY <3>2, <4>1, <4>2 DEF Live
    <3> QED
      BY <3>1, <3>2
  <2> HIDE DEF some
  <2> QED
    BY <2>1
<1> HIDE DEF f
<1>2. run = [x \in Configurations |->
               IF x.decision = "running" THEN run[Step(terminals, x)] ELSE x]
  BY <1>1
<1>3. \A x : Run(terminals, x) = run[x]
  BY DEF Run
<1> HIDE DEF run
<1>4. run[c] = IF c.decision = "running" THEN run[Step(terminals, c)] ELSE c
  BY <1>2
<1> QED
  BY <1>3, <1>4 DEF Live

(* A run has an end, and what every iteration keeps holds there.             *)
THEOREM RunEnds ==
    ASSUME NEW terminals \in Seq(Terminals), NEW Q, Q \subseteq Configurations,
           Closed(terminals, Q), NEW c \in Q
    PROVE  Run(terminals, c) \in Q /\ ~Live(Run(terminals, c))
<1> DEFINE good(d) == d \in Q /\ ~Live(d)
           B == {x \in Q : ~good(Run(terminals, x))}
<1>1. ASSUME NEW x \in B PROVE Live(x) /\ Step(terminals, x) \in B
  <2>1. x \in Configurations /\ x \in Q
    OBVIOUS
  <2>2. Live(x)
    <3> SUFFICES ASSUME ~Live(x) PROVE FALSE
      OBVIOUS
    <3>1. Run(terminals, x) = x
      BY <2>1, RunUnfolds
    <3> QED
      BY <2>1, <3>1
  <2>3. Run(terminals, x) = Run(terminals, Step(terminals, x)) /\ Step(terminals, x) \in Q
    BY <2>1, <2>2, RunUnfolds DEF Closed
  <2> QED
    BY <2>2, <2>3
<1>2. B \subseteq Configurations
  OBVIOUS
<1> HIDE DEF B
<1>3. B = {}
  BY <1>1, <1>2, NoEndlessRun
<1> QED
  BY <1>3 DEF B
-----------------------------------------------------------------------------
(* The stored classification of a head, and the check on the whole stack.    *)

(* What the direct prefix and the probe of a head are.                       *)
LEMMA HeadParts ==
    ASSUME NEW h \in Seq(Terminals) \ {<<>>}
    PROVE  /\ Direct(h) \in Seq(Terminals) /\ Probe(h) \in Seq(Terminals)
           /\ Len(h) \in Nat \ {0}
           /\ Len(Direct(h)) = Len(h) - 1 /\ Len(Probe(h)) = 1
           /\ \A i \in 1..Len(h) - 1 : Direct(h)[i] = h[i]
           /\ Probe(h)[1] = h[Len(h)]
<1>1. /\ Direct(h) \in Seq(Terminals) /\ Len(Direct(h)) = Len(h) - 1
      /\ Len(h) \in Nat \ {0} /\ h[Len(h)] \in Terminals
  BY TopAndRest DEF Direct
<1>2. \A i \in 1..Len(h) - 1 : Direct(h)[i] = h[i]
  <2>1. \A i \in 1..Len(h) - 1 : h[i] \in Terminals
    BY <1>1, ElementOfSeq
  <2> QED
    BY <1>1, <2>1, SubSeqProperties DEF Direct
<1> QED
  BY <1>1, <1>2 DEF Probe


(* A new run is a configuration.                                             *)
LEMMA BeginType ==
    ASSUME NEW s \in Seq(ParserStates) \ {<<>>}, NEW m \in Nat \cup {Unbounded}
    PROVE  /\ Top(s) \in ParserStates
           /\ BeginConcrete(s) \in Configurations
           /\ BeginSymbolic(Top(s), m) \in Configurations
<1>1. Top(s) \in ParserStates /\ Len(s) \in Nat
  BY TopAndRest DEF Top
<1>2. BeginConcrete(s) \in Configurations
  BY <1>1 DEF BeginConcrete, Begin, Configurations, NoReduction, Unbounded
<1>3. <<Top(s)>> \in Seq(ParserStates) \ {<<>>} /\ Len(<<Top(s)>>) \in Nat
  BY <1>1
<1>4. BeginSymbolic(Top(s), m) \in Configurations
  BY <1>3 DEF BeginSymbolic, Begin, Configurations, NoReduction
<1> QED
  BY <1>1, <1>2, <1>4

Readable == {"Continue", "Accepted"}

(* Two runs of which the second answers at least what the first decides.     *)
Upholds(decision, answer) ==
    /\ decision = "Rejected" => answer = "Rejected"
    /\ decision \in Readable => answer \in Readable

(* Both at the last terminal.                                                *)
AtProbe(b, h, c, d) ==
    AlignedOver(b, c, d) /\ c.index = Len(h) - 1 + d.index /\ d.index <= 2

LEMMA ProbeUpheld ==
    ASSUME NEW b \in Seq(ParserStates), NEW h \in Seq(Terminals) \ {<<>>},
           NEW c, NEW d, AtProbe(b, h, c, d)
    PROVE  Upholds(Run(h, c).decision, Run(Probe(h), d).decision)
<1> DEFINE B == {x \in Configurations : \E y :
                   AtProbe(b, h, x, y) /\ ~Upholds(Run(h, x).decision, Run(Probe(h), y).decision)}
<1>1. /\ Probe(h) \in Seq(Terminals) /\ Len(h) \in Nat \ {0}
      /\ Len(Probe(h)) = 1 /\ Probe(h)[1] = h[Len(h)]
  BY HeadParts
<1>2. ASSUME NEW x \in B PROVE Live(x) /\ Step(h, x) \in B
  <2>1. PICK y : AtProbe(b, h, x, y) /\ ~Upholds(Run(h, x).decision, Run(Probe(h), y).decision)
    OBVIOUS
  <2> DEFINE n == Step(h, x)
             m == Step(Probe(h), y)
  <2>2. /\ x \in Configurations /\ y \in Configurations /\ Live(x) /\ Live(y)
        /\ AlignedOver(b, x, y) /\ x.index = Len(h) - 1 + y.index /\ y.index <= 2
    BY <2>1 DEF AtProbe, AlignedOver, Live
  <2>3. x.index \in Nat \ {0} /\ y.index \in Nat \ {0}
    BY <2>2 DEF Configurations
  <2>4. n \in Configurations /\ m \in Configurations
    BY <1>1, <2>2, StepType
  <2>5. Run(h, x) = Run(h, n) /\ Run(Probe(h), y) = Run(Probe(h), m)
    BY <1>1, <2>2, RunUnfolds
  <2>6. /\ ~Live(n) => Run(h, n) = n
        /\ ~Live(m) => Run(Probe(h), m) = m
    BY <1>1, <2>4, RunUnfolds
  <2>7. CASE y.index = 2
    <3>1. n = Halt(x, "Continue") /\ m = Halt(y, "Continue")
      BY <1>1, <2>2, <2>3, <2>7 DEF Step
    <3>2. n.decision = "Continue" /\ m.decision = "Continue"
      BY <2>2, <3>1 DEF Halt, Configurations
    <3> HIDE DEF n, m
    <3> QED
      BY <2>1, <2>5, <2>6, <3>2 DEF Upholds, Readable, Live
  <2>8. CASE y.index = 1
    <3>1. x.index = Len(h) /\ h[x.index] = Probe(h)[y.index]
      BY <1>1, <2>2, <2>8
    <3>2. SameStep(b, x, y, n, m, Len(h), Len(Probe(h)))
      <4>1. x.index <= Len(h) /\ y.index <= Len(Probe(h))
        BY <1>1, <2>8, <3>1
      <4> QED
        BY <1>1, <2>2, <3>1, <4>1, StepAligned
    <3>3. KeepsRun(x, n) /\ KeepsRun(y, m)
      BY <1>1, <2>2, StepFollows DEF Configurations
    <3> HIDE DEF n, m
    <3>4. CASE Live(n)
      <4>1. AtProbe(b, h, n, m)
        <5>1. AlignedOver(b, n, m)
          BY <2>2, <2>4, <3>2, <3>3, <3>4 DEF SameStep, AlignedOver, Live, KeepsRun
        <5>2. /\ n.index - x.index = m.index - y.index
              /\ (m.index = y.index \/ m.index = y.index + 1)
              /\ n.index \in Nat /\ m.index \in Nat
          BY <2>4, <3>2, <3>4 DEF SameStep, Live, Configurations
        <5> DEFINE length == Len(h)
        <5>3. /\ n.index = length - 1 + m.index /\ m.index <= 2
          <6>1. length \in Nat /\ x.index = length /\ y.index = 1 /\ x.index \in Nat
            BY <1>1, <2>3, <2>8, <3>1
          <6> HIDE DEF length
          <6> QED
            BY <5>2, <6>1
        <5> QED
          BY <5>1, <5>3 DEF AtProbe
      <4>2. ~Upholds(Run(h, n).decision, Run(Probe(h), m).decision)
        BY <2>1, <2>5
      <4> QED
        BY <2>2, <2>4, <4>1, <4>2 DEF n
    <3>5. CASE ~Live(n)
      <4>1. /\ n.decision = "Rejected" => m.decision = "Rejected"
            /\ n.decision = "Accepted" => m.decision = "Accepted"
            /\ n.decision # "Continue"
        BY <1>1, <2>8, <3>2 DEF SameStep
      <4>2. Run(h, n) = n
        BY <2>6, <3>5
      <4>3. m.decision \in {"Rejected", "Accepted"} => Run(Probe(h), m) = m
        BY <2>6 DEF Live
      <4> QED
        BY <2>1, <2>5, <4>1, <4>2, <4>3 DEF Upholds, Readable
    <3> QED
      BY <3>4, <3>5
  <2> QED
    BY <2>2, <2>3, <2>7, <2>8
<1>3. c \in Configurations
  BY DEF AtProbe, AlignedOver
<1>4. B \subseteq Configurations
  OBVIOUS
<1>5. c \in B \/ Upholds(Run(h, c).decision, Run(Probe(h), d).decision)
  BY <1>3
<1> HIDE DEF B
<1>6. B = {}
  BY <1>2, <1>4, NoEndlessRun
<1> QED
  BY <1>5, <1>6

(* Both in the direct prefix, or at its end.                                 *)
InPrefix(b, h, c, d) ==
    /\ AlignedOver(b, c, d) /\ c.index = d.index /\ d.index <= Len(h)
    /\ d.index = Len(h) => d.previous = NoReduction

(* What HeadAllowed goes on to do when the prefix has been run.              *)
Answered(h, direct) ==
    CASE direct.decision = "Continue" ->
           HeadVerdict(Run(Probe(h), BeginConcrete(direct.stack)).decision)
      [] direct.decision = "Rejected" -> "denied"
      [] direct.decision \notin {"Continue", "Rejected"} -> "failed"

Judges(decision, verdict) ==
    /\ decision = "Rejected" => verdict = "denied"
    /\ decision \in Readable => verdict = "allowed"

LEMMA PrefixUpheld ==
    ASSUME NEW b \in Seq(ParserStates), NEW h \in Seq(Terminals) \ {<<>>},
           NEW c, NEW d, InPrefix(b, h, c, d)
    PROVE  Judges(Run(h, c).decision, Answered(h, Run(Direct(h), d)))
<1> DEFINE B == {x \in Configurations : \E y :
                   /\ InPrefix(b, h, x, y)
                   /\ ~Judges(Run(h, x).decision, Answered(h, Run(Direct(h), y)))}
<1>1. /\ Direct(h) \in Seq(Terminals) /\ Len(h) \in Nat \ {0} /\ Len(Direct(h)) = Len(h) - 1
      /\ \A i \in 1..Len(h) - 1 : Direct(h)[i] = h[i]
  BY HeadParts
<1>2. ASSUME NEW x \in B PROVE Live(x) /\ Step(h, x) \in B
  <2>1. PICK y : /\ InPrefix(b, h, x, y)
                 /\ ~Judges(Run(h, x).decision, Answered(h, Run(Direct(h), y)))
    OBVIOUS
  <2> DEFINE n == Step(h, x)
             m == Step(Direct(h), y)
  <2>2. /\ x \in Configurations /\ y \in Configurations /\ Live(x) /\ Live(y)
        /\ AlignedOver(b, x, y) /\ x.index = y.index /\ y.index <= Len(h)
    BY <2>1 DEF InPrefix, AlignedOver, Live
  <2>3. x.index \in Nat \ {0} /\ y.index \in Nat \ {0}
    BY <2>2 DEF Configurations
  <2>4. n \in Configurations /\ m \in Configurations
    BY <1>1, <2>2, StepType
  <2>5. Run(h, x) = Run(h, n) /\ Run(Direct(h), y) = Run(Direct(h), m)
    BY <1>1, <2>2, RunUnfolds
  <2>6. /\ ~Live(n) => Run(h, n) = n
        /\ ~Live(m) => Run(Direct(h), m) = m
    BY <1>1, <2>4, RunUnfolds
  <2>7. CASE y.index = Len(h)
    <3>1. m = Halt(y, "Continue")
      BY <1>1, <2>2, <2>3, <2>7 DEF Step
    <3>2. m.decision = "Continue" /\ m.stack = y.stack
      BY <2>2, <3>1 DEF Halt, Configurations
    <3> DEFINE z == BeginConcrete(y.stack)
    <3>3. Run(Direct(h), y) = m
      BY <2>5, <2>6, <3>2 DEF Live
    <3> HIDE DEF m
    <3>4. Answered(h, Run(Direct(h), y)) = HeadVerdict(Run(Probe(h), z).decision)
      BY <3>2, <3>3 DEF Answered
    <3>5. AtProbe(b, h, x, z)
      <4>1. y.stack \in Seq(ParserStates) \ {<<>>}
        BY <2>2 DEF Configurations
      <4>2. /\ z \in Configurations /\ z.stack = y.stack /\ z.previous = NoReduction
            /\ z.decision = "running" /\ z.maximum = Unbounded /\ z.index = 1
        BY <4>1, BeginType DEF BeginConcrete, Begin
      <4>3. x.previous = NoReduction
        BY <2>1, <2>2, <2>7 DEF InPrefix, AlignedOver
      <4> HIDE DEF z
      <4>4. AlignedOver(b, x, z)
        BY <2>2, <4>2, <4>3 DEF AlignedOver
      <4> QED
        BY <1>1, <2>2, <2>7, <4>2, <4>4 DEF AtProbe
    <3>6. Upholds(Run(h, x).decision, Run(Probe(h), z).decision)
      BY <3>5, ProbeUpheld
    <3> HIDE DEF z
    <3> QED
      BY <2>1, <3>4, <3>6 DEF Judges, Upholds, Readable, HeadVerdict
  <2>8. CASE y.index < Len(h)
    <3>1. x.index <= Len(h) /\ y.index <= Len(Direct(h)) /\ h[x.index] = Direct(h)[y.index]
      BY <1>1, <2>2, <2>3, <2>8
    <3>2. SameStep(b, x, y, n, m, Len(h), Len(Direct(h)))
      BY <1>1, <2>2, <3>1, StepAligned
    <3>3. KeepsRun(x, n) /\ KeepsRun(y, m)
      BY <1>1, <2>2, StepFollows DEF Configurations
    <3> HIDE DEF n, m
    <3>4. CASE Live(n)
      <4>1. InPrefix(b, h, n, m)
        <5>1. AlignedOver(b, n, m)
          BY <2>2, <2>4, <3>2, <3>3, <3>4 DEF SameStep, AlignedOver, Live, KeepsRun
        <5>2. /\ n.index - x.index = m.index - y.index
              /\ (m.index = y.index \/ (m.index = y.index + 1 /\ m.previous = NoReduction))
              /\ n.index \in Nat /\ m.index \in Nat
          BY <2>4, <3>2, <3>4 DEF SameStep, Live, Configurations
        <5> QED
          BY <1>1, <2>2, <2>3, <2>8, <5>1, <5>2 DEF InPrefix
      <4>2. ~Judges(Run(h, n).decision, Answered(h, Run(Direct(h), m)))
        BY <2>1, <2>5
      <4> QED
        BY <2>2, <2>4, <4>1, <4>2 DEF n
    <3>5. CASE ~Live(n)
      <4>1. /\ n.decision = "Rejected" => m.decision = "Rejected"
            /\ n.decision \notin Readable
        BY <1>1, <2>2, <2>8, <3>2 DEF SameStep, Readable
      <4>2. Run(h, n) = n
        BY <2>6, <3>5
      <4>3. m.decision = "Rejected" => Answered(h, Run(Direct(h), m)) = "denied"
        BY <2>6 DEF Live, Answered
      <4> QED
        BY <2>1, <2>5, <4>1, <4>2, <4>3 DEF Judges
    <3> QED
      BY <3>4, <3>5
  <2> QED
    BY <1>1, <2>2, <2>3, <2>7, <2>8
<1>3. c \in Configurations
  BY DEF InPrefix, AlignedOver
<1>4. B \subseteq Configurations
  OBVIOUS
<1>5. c \in B \/ Judges(Run(h, c).decision, Answered(h, Run(Direct(h), d)))
  BY <1>3
<1> HIDE DEF B
<1>6. B = {}
  BY <1>2, <1>4, NoEndlessRun
<1> QED
  BY <1>5, <1>6

(* What preparation stores for a state and a head, if it is not Dependent, is*)
(* what sequence_head_allowed_with_scratch answers on every stack with that  *)
(* state on top (engine.rs, sequence_allowed_with_scratch, asks no further). *)
THEOREM ClassIsTheAnswer ==
    ASSUME NEW h \in Seq(Terminals) \ {<<>>}, NEW s \in Seq(ParserStates) \ {<<>>},
           NEW m \in Nat \cup {Unbounded}
    PROVE  LET decision == Run(h, BeginSymbolic(Top(s), m)).decision IN
           /\ decision = "Rejected" => HeadAllowed(s, h) = "denied"
           /\ decision \in {"Continue", "Accepted"} => HeadAllowed(s, h) = "allowed"
<1> DEFINE b == SubSeq(s, 1, Len(s) - 1)
           c == BeginSymbolic(Top(s), m)
           d == BeginConcrete(s)
<1>1. b \in Seq(ParserStates) /\ s = b \o <<Top(s)>>
  BY TopAndRest DEF Top
<1>2. c \in Configurations /\ d \in Configurations
  BY BeginType
<1>3. /\ c.stack = <<Top(s)>> /\ c.index = 1 /\ c.previous = NoReduction
      /\ c.decision = "running" /\ c.underflow = "Dependent"
      /\ d.stack = s /\ d.index = 1 /\ d.previous = NoReduction
      /\ d.decision = "running" /\ d.maximum = Unbounded
  BY DEF BeginSymbolic, BeginConcrete, Begin
<1>4. Answered(h, Run(Direct(h), d)) = HeadAllowed(s, h)
  BY DEF Answered, HeadAllowed
<1>5. Len(h) \in Nat \ {0}
  BY HeadParts
<1> HIDE DEF b, c, d
<1>6. c.stack # <<>>
  BY <1>2 DEF Configurations
<1>7. InPrefix(b, h, c, d)
  BY <1>1, <1>2, <1>3, <1>5, <1>6 DEF InPrefix, AlignedOver
<1>8. Judges(Run(h, c).decision, HeadAllowed(s, h))
  BY <1>1, <1>4, <1>7, PrefixUpheld
<1> QED
  BY <1>8 DEF Judges, Readable, c
-----------------------------------------------------------------------------
(* A concrete run from a stack of the table ends on a stack of the table.    *)

(* What an iteration does to the stack: nothing, or a state on part of it.   *)
Stacked(c, n) ==
    \/ n.stack = c.stack
    \/ \E k \in 1..Len(c.stack), x \in ParserStates :
         Follows(c.stack[k], x) /\ n.stack = Append(SubSeq(c.stack, 1, k), x)

LEMMA ChargedStacks ==
    ASSUME NEW c \in Configurations, NEW cost \in Nat, NEW next \in Configurations,
           Stacked(c, next)
    PROVE  Stacked(c, Charged(c, cost, next))
<1> DEFINE n == Charged(c, cost, next)
<1>1. n.stack = c.stack \/ n.stack = next.stack
  BY DEF Charged, Configurations
<1> HIDE DEF n
<1>2. Stacked(c, n)
  BY <1>1 DEF Stacked
<1> QED
  BY <1>2 DEF n

LEMMA HaltStacks ==
    ASSUME NEW c \in Configurations, NEW decision \in Decisions \cup Failures
    PROVE  Halt(c, decision) \in Configurations /\ Stacked(c, Halt(c, decision))
<1>1. Halt(c, decision) \in Configurations
  BY HaltMoves
<1>2. Halt(c, decision).stack = c.stack
  BY DEF Halt, Configurations
<1> QED
  BY <1>1, <1>2 DEF Stacked

LEMMA ReductionStacks ==
    ASSUME NEW c \in Configurations, NEW lookup \in Nat,
           NEW cell, cell.production \in Productions, cell.rank \in Nat
    PROVE  Stacked(c, ApplyReduction(c, cell, lookup))
<1> DEFINE kept == Len(c.stack) - PopLen[cell.production]
           destination == Goto[c.stack[kept]][Lhs[cell.production]]
<1>1. /\ c.stack \in Seq(ParserStates) \ {<<>>} /\ Len(c.stack) \in Nat
      /\ PopLen[cell.production] \in Nat /\ Lhs[cell.production] \in Nonterminals
  BY LalrAssumption, LenProperties DEF Configurations
<1>2. CASE kept <= 0
  <2>1. c.underflow \in Decisions \cup Failures /\ lookup + 1 \in Nat
    BY DEF Configurations, Decisions, Failures
  <2>2. ApplyReduction(c, cell, lookup) = Charged(c, lookup + 1, Halt(c, c.underflow))
    BY <1>2 DEF ApplyReduction
  <2> QED
    BY <2>1, <2>2, HaltStacks, ChargedStacks
<1>3. CASE kept > 0 /\ destination = NoGoto
  <2>1. ApplyReduction(c, cell, lookup) = Charged(c, lookup + 2, Halt(c, "MissingGoto"))
    BY <1>1, <1>3 DEF ApplyReduction
  <2>2. "MissingGoto" \in Decisions \cup Failures /\ lookup + 2 \in Nat
    BY DEF Failures
  <2> QED
    BY <2>1, <2>2, HaltStacks, ChargedStacks
<1>4. CASE kept > 0 /\ destination # NoGoto
  <2> DEFINE n == Reduced(c, kept, cell, destination)
             cost == lookup + 3
  <2>1. kept \in 1..Len(c.stack) /\ c.stack[kept] \in ParserStates
    BY <1>1, <1>4, ElementOfSeq
  <2>2. destination \in ParserStates
    BY <1>1, <1>4, <2>1, LalrAssumption
  <2>3. SubSeq(c.stack, 1, kept) \in Seq(ParserStates)
    BY <1>1, <2>1, PopOver, EmptySeq
  <2>4. Append(SubSeq(c.stack, 1, kept), destination) \in Seq(ParserStates) \ {<<>>}
    BY <2>2, <2>3, Pushed
  <2>5. [rank |-> cell.rank, pop_len |-> PopLen[cell.production]]
          \in [rank : Int, pop_len : Nat]
    BY <1>1
  <2>6. n \in Configurations /\ n.stack = Append(SubSeq(c.stack, 1, kept), destination)
    BY <2>4, <2>5 DEF Reduced, Configurations
  <2>7. Follows(c.stack[kept], destination)
    BY <1>1 DEF Follows
  <2>8. ApplyReduction(c, cell, lookup) = Charged(c, cost, n)
    BY <1>1, <1>4 DEF ApplyReduction
  <2>9. cost \in Nat
    OBVIOUS
  <2> HIDE DEF n, kept, destination, cost
  <2>10. Stacked(c, n)
    BY <2>1, <2>2, <2>6, <2>7 DEF Stacked
  <2> QED
    BY <2>6, <2>8, <2>9, <2>10, ChargedStacks
<1> QED
  BY <1>1, <1>2, <1>3, <1>4

LEMMA ShiftStacks ==
    ASSUME NEW c \in Configurations, NEW t \in Terminals,
           Action[Top(c.stack)][t].type = "shift"
    PROVE  LET next == NextTerminal(c, Append(c.stack, Action[Top(c.stack)][t].to)) IN
           next \in Configurations /\ Stacked(c, next)
<1> DEFINE to == Action[Top(c.stack)][t].to
           next == NextTerminal(c, Append(c.stack, to))
<1>1. c.stack \in Seq(ParserStates) \ {<<>>}
  BY DEF Configurations
<1>2. Top(c.stack) \in ParserStates /\ Len(c.stack) \in 1..Len(c.stack)
  BY <1>1, TopAndRest DEF Top
<1>3. to \in ParserStates
  BY <1>2, CellType
<1>4. Append(c.stack, to) \in Seq(ParserStates) \ {<<>>}
  BY <1>1, <1>3, Pushed
<1>5. next \in Configurations /\ next.stack = Append(c.stack, to)
  <2> HIDE DEF to
  <2>1. next \in Configurations
    BY <1>4, NextTerminalFollows DEF KeepsRun
  <2>2. next.stack = Append(c.stack, to)
    BY DEF NextTerminal, Configurations
  <2> QED
    BY <2>1, <2>2
<1>6. Follows(c.stack[Len(c.stack)], to)
  BY DEF Follows, Top
<1>7. SubSeq(c.stack, 1, Len(c.stack)) = c.stack
  BY <1>1, SubSeqFull
<1> HIDE DEF to, next
<1>8. Stacked(c, next)
  BY <1>2, <1>3, <1>5, <1>6, <1>7 DEF Stacked
<1> QED
  BY <1>5, <1>8 DEF to, next

LEMMA StepStacks ==
    ASSUME NEW terminals \in Seq(Terminals), NEW c \in Configurations
    PROVE  Stacked(c, Step(terminals, c))
<1>1. /\ c.index \in Nat \ {0} /\ Len(terminals) \in Nat
      /\ c.stack \in Seq(ParserStates) \ {<<>>}
  BY LenProperties DEF Configurations
<1>2. CASE c.index > Len(terminals)
  <2>1. Step(terminals, c) = Halt(c, "Continue")
    BY <1>1, <1>2 DEF Step
  <2> QED
    BY <2>1, HaltStacks DEF Decisions
<1>3. CASE c.index <= Len(terminals) /\ terminals[c.index] \in Ignored
  <2> DEFINE next == NextTerminal(c, c.stack)
  <2>1. Step(terminals, c) = Charged(c, 1, next)
    BY <1>1, <1>3 DEF Step
  <2>2. next \in Configurations
    BY <1>1, NextTerminalFollows DEF KeepsRun
  <2>3. Stacked(c, next)
    BY DEF NextTerminal, Configurations, Stacked
  <2> HIDE DEF next
  <2> QED
    BY <2>1, <2>2, <2>3, ChargedStacks
<1>4. CASE c.index <= Len(terminals) /\ terminals[c.index] \notin Ignored
  <2> DEFINE cell == Action[Top(c.stack)][terminals[c.index]]
             lookup == IF c.previous = NoReduction THEN 2 ELSE 1
  <2>1. Step(terminals, c) = RunTerminal(terminals, c)
    BY <1>1, <1>4 DEF Step
  <2>2. Top(c.stack) \in ParserStates /\ terminals[c.index] \in Terminals
    BY <1>1, <1>4, TopAndRest, ElementOfSeq DEF Top
  <2>3. /\ cell.type \in {"error", "accept", "shift", "reduce"}
        /\ cell.type = "reduce" => cell.production \in Productions /\ cell.rank \in Nat
    BY <2>2, CellType
  <2>4. lookup \in Nat /\ lookup + 1 \in Nat
    OBVIOUS
  <2> HIDE DEF lookup
  <2>5. CASE cell.type = "error"
    <3>1. RunTerminal(terminals, c) = Charged(c, lookup, Halt(c, "Rejected"))
      BY <2>5 DEF RunTerminal, lookup
    <3> QED
      BY <2>1, <2>4, <3>1, HaltStacks, ChargedStacks DEF Decisions
  <2>6. CASE cell.type = "shift"
    <3> DEFINE next == NextTerminal(c, Append(c.stack, cell.to))
    <3>1. RunTerminal(terminals, c) = Charged(c, lookup + 1, next)
      BY <2>6 DEF RunTerminal, lookup
    <3>2. next \in Configurations /\ Stacked(c, next)
      BY <2>2, <2>6, ShiftStacks
    <3> HIDE DEF next
    <3> QED
      BY <2>1, <2>4, <3>1, <3>2, ChargedStacks
  <2>7. CASE cell.type = "reduce"
    <3>1. CASE Progresses(c.previous, cell.rank)
      <4>1. RunTerminal(terminals, c) = ApplyReduction(c, cell, lookup)
        BY <2>7, <3>1 DEF RunTerminal, lookup
      <4> QED
        BY <2>1, <2>3, <2>4, <2>7, <4>1, ReductionStacks
    <3>2. CASE ~Progresses(c.previous, cell.rank)
      <4>1. RunTerminal(terminals, c) = Charged(c, lookup, Halt(c, "InvalidReductionProgress"))
        BY <2>7, <3>2 DEF RunTerminal, lookup
      <4> QED
        BY <2>1, <2>4, <4>1, HaltStacks, ChargedStacks DEF Failures
    <3> QED
      BY <3>1, <3>2
  <2>8. CASE cell.type = "accept"
    <3>1. RunTerminal(terminals, c)
            = Charged(c, lookup, Halt(c, IF c.index = Len(terminals) THEN "Accepted"
                                         ELSE "AcceptBeforeEnd"))
      BY <2>8 DEF RunTerminal, lookup
    <3> QED
      BY <2>1, <2>4, <3>1, HaltStacks, ChargedStacks DEF Decisions, Failures
  <2> QED
    BY <2>3, <2>5, <2>6, <2>7, <2>8
<1> QED
  BY <1>1, <1>2, <1>3, <1>4

(* A state pushed on part of a path makes a path.                            *)
LEMMA PathGrows ==
    ASSUME NEW start, NEW s \in Seq(ParserStates), IsPath(start, s), NEW k \in 1..Len(s),
           NEW x \in ParserStates, Follows(s[k], x)
    PROVE  IsPath(start, Append(SubSeq(s, 1, k), x))
<1> DEFINE u == SubSeq(s, 1, k)
           v == Append(u, x)
<1>1. Len(s) \in Nat /\ k \in Nat /\ \A i \in 1..k : s[i] \in ParserStates
  BY LenProperties, ElementOfSeq
<1>2. u \in Seq(ParserStates) /\ Len(u) = k /\ \A i \in 1..k : u[i] = s[i]
  BY <1>1, SubSeqProperties
<1> HIDE DEF u
<1>3. /\ v \in Seq(ParserStates) /\ Len(v) = k + 1 /\ v[k + 1] = x
      /\ \A i \in 1..k : v[i] = s[i]
  BY <1>1, <1>2, AppendProperties
<1> HIDE DEF v
<1>4. v # <<>> /\ v[1] = start
  BY <1>1, <1>3, EmptySeq DEF IsPath
<1>5. ASSUME NEW i \in 1..Len(v) - 1 PROVE Follows(v[i], v[i + 1])
  <2>1. i \in 1..k
    BY <1>1, <1>3
  <2>2. CASE i = k
    BY <1>1, <1>3, <2>2
  <2>3. CASE i # k
    <3>1. i \in 1..Len(s) - 1 /\ i + 1 \in 1..k
      BY <1>1, <2>1, <2>3
    <3>2. Follows(s[i], s[i + 1])
      BY <3>1 DEF IsPath
    <3> QED
      BY <1>3, <2>1, <3>1, <3>2
  <2> QED
    BY <2>2, <2>3
<1>6. IsPath(start, v)
  BY <1>4, <1>5 DEF IsPath
<1> QED
  BY <1>6 DEF u, v

(* Every concrete run ends with a decision, on a stack that starts where the *)
(* given one does and follows the shifts and gotos of the table.             *)
THEOREM RunsKeepPaths ==
    ASSUME NEW terminals \in Seq(Terminals), NEW start,
           NEW s \in Seq(ParserStates), IsPath(start, s)
    PROVE  LET run == Run(terminals, BeginConcrete(s)) IN
           /\ run.stack \in Seq(ParserStates) \ {<<>>} /\ IsPath(start, run.stack)
           /\ run.decision \in Decisions \cup Failures
<1> DEFINE Q == {c \in Configurations : IsPath(start, c.stack)}
           run == Run(terminals, BeginConcrete(s))
<1>1. s # <<>>
  BY DEF IsPath
<1>2. BeginConcrete(s) \in Configurations
  BY <1>1, BeginType, Zenon DEF Unbounded
<1>3. BeginConcrete(s).stack = s
  BY DEF BeginConcrete, Begin
<1>4. Closed(terminals, Q)
  <2>1. ASSUME NEW c \in Configurations, IsPath(start, c.stack)
        PROVE  Step(terminals, c) \in Configurations /\ IsPath(start, Step(terminals, c).stack)
    <3>1. Step(terminals, c) \in Configurations /\ Stacked(c, Step(terminals, c))
      BY StepType, StepStacks
    <3>2. c.stack \in Seq(ParserStates)
      BY DEF Configurations
    <3> QED
      BY <2>1, <3>1, <3>2, PathGrows DEF Stacked
  <2> QED
    BY <2>1 DEF Closed
<1>5. BeginConcrete(s) \in Q /\ Q \subseteq Configurations
  BY <1>2, <1>3
<1> HIDE DEF Q
<1>6. run \in Q /\ ~Live(run)
  BY <1>4, <1>5, RunEnds
<1> HIDE DEF run
<1>7. run \in Configurations /\ IsPath(start, run.stack)
  BY <1>6 DEF Q
<1>8. run.stack \in Seq(ParserStates) \ {<<>>} /\ run.decision \in Decisions \cup Failures
  BY <1>6, <1>7 DEF Configurations, Live
<1> QED
  BY <1>7, <1>8 DEF run
-----------------------------------------------------------------------------
(* One run for two.                                                          *)

(* A configuration further on in its terminals.                              *)
Shifted(c, k) == [c EXCEPT !.index = c.index + k]

LEMMA ShiftedType ==
    ASSUME NEW c \in Configurations, NEW k \in Nat
    PROVE  /\ Shifted(c, k) \in Configurations
           /\ Shifted(c, k).stack = c.stack /\ Shifted(c, k).index = c.index + k
           /\ Shifted(c, k).previous = c.previous /\ Shifted(c, k).used = c.used
           /\ Shifted(c, k).underflow = c.underflow /\ Shifted(c, k).decision = c.decision
           /\ Shifted(c, k).maximum = c.maximum
<1>1. c.index + k \in Nat \ {0}
    BY DEF Configurations
<1> QED
    BY <1>1 DEF Shifted, Configurations

(* Stopping, and going on to the next terminal.                              *)
LEMMA HaltShifted ==
    ASSUME NEW c \in Configurations, NEW k \in Nat, NEW decision
    PROVE  Halt(Shifted(c, k), decision) = Shifted(Halt(c, decision), k)
BY DEF Halt, Shifted, Configurations

LEMMA NextTerminalShifted ==
    ASSUME NEW c \in Configurations, NEW k \in Nat, NEW s
    PROVE  NextTerminal(Shifted(c, k), s) = Shifted(NextTerminal(c, s), k)
<1>1. /\ NextTerminal(c, s) = [c EXCEPT !.stack = s, !.index = c.index + 1, !.previous = NoReduction]
      /\ NextTerminal(c, s).index = c.index + 1
    BY DEF NextTerminal, Configurations
<1>2. /\ Shifted(c, k).index = c.index + k
      /\ NextTerminal(Shifted(c, k), s)
           = [c EXCEPT !.stack = s, !.index = (c.index + k) + 1, !.previous = NoReduction]
    BY DEF NextTerminal, Shifted, Configurations
<1>3. Shifted(NextTerminal(c, s), k)
        = [c EXCEPT !.stack = s, !.index = (c.index + 1) + k, !.previous = NoReduction]
    BY <1>1 DEF Shifted, Configurations
<1>4. (c.index + k) + 1 = (c.index + 1) + k
    BY DEF Configurations
<1> QED
    BY <1>2, <1>3, <1>4

LEMMA ReducedShifted ==
    ASSUME NEW c \in Configurations, NEW k \in Nat, NEW kept, NEW cell, NEW destination
    PROVE  Reduced(Shifted(c, k), kept, cell, destination)
             = Shifted(Reduced(c, kept, cell, destination), k)
BY DEF Reduced, Shifted, Configurations

(* Without a limit on its work, an iteration on the end of a list of         *)
(* terminals does what it does on that end alone.                            *)
LEMMA StepShifted ==
    ASSUME NEW t \in Seq(Terminals), NEW u \in Seq(Terminals), NEW k \in Nat,
           Len(t) = Len(u) + k, \A i \in 1..Len(u) : t[i + k] = u[i],
           NEW c \in Configurations, c.maximum = Unbounded
    PROVE  Step(t, Shifted(c, k)) = Shifted(Step(u, c), k)
<1> DEFINE d == Shifted(c, k)
           cell == Action[Top(c.stack)][u[c.index]]
           lookup == IF c.previous = NoReduction THEN 2 ELSE 1
<1>1. /\ d.stack = c.stack /\ d.index = c.index + k /\ d.previous = c.previous
      /\ d.underflow = c.underflow /\ d.maximum = Unbounded
    BY ShiftedType
<1>2. c.index \in Nat \ {0} /\ Len(u) \in Nat /\ Len(t) \in Nat
    BY DEF Configurations
<1>3. \A cost, next : /\ Charged(d, cost, next) = next
                      /\ Charged(c, cost, next) = next
    BY <1>1 DEF Charged
<1>4. /\ \A decision : Halt(d, decision) = Shifted(Halt(c, decision), k)
      /\ \A s : NextTerminal(d, s) = Shifted(NextTerminal(c, s), k)
      /\ \A kept, x, to : Reduced(d, kept, x, to) = Shifted(Reduced(c, kept, x, to), k)
    BY HaltShifted, NextTerminalShifted, ReducedShifted
<1> HIDE DEF d
<1>5. CASE c.index > Len(u)
    <2>1. d.index > Len(t)
        BY <1>1, <1>2, <1>5
    <2>2. Step(t, d) = Halt(d, "Continue") /\ Step(u, c) = Halt(c, "Continue")
        BY <1>1, <1>2, <1>5, <2>1 DEF Step
    <2> QED
        BY <1>4, <2>2 DEF d
<1>6. CASE c.index <= Len(u)
    <2>1. c.index \in 1..Len(u) /\ d.index <= Len(t) /\ ~(d.index > Len(t)) /\ ~(c.index > Len(u))
        BY <1>1, <1>2, <1>6
    <2>2. t[d.index] = u[c.index] /\ (d.index = Len(t) <=> c.index = Len(u))
        <3>1. t[c.index + k] = u[c.index]
            BY <2>1
        <3>2. t[d.index] = u[c.index]
            BY <1>1, <3>1, Zenon
        <3>3. d.index = Len(t) <=> c.index = Len(u)
            <4>1. d.index = c.index + k /\ Len(t) = Len(u) + k
                BY <1>1
            <4>2. \A a, b \in Nat : a + k = b + k <=> a = b
                OBVIOUS
            <4> QED
                BY <1>2, <4>1, <4>2, Zenon
        <3> QED
            BY <3>2, <3>3
    <2>3. CASE u[c.index] \in Ignored
        <3>1. Step(t, d) = NextTerminal(d, c.stack) /\ Step(u, c) = NextTerminal(c, c.stack)
            BY <1>1, <1>3, <2>1, <2>2, <2>3 DEF Step
        <3> QED
            BY <1>4, <3>1 DEF d
    <2>4. CASE u[c.index] \notin Ignored
        <3>1. Step(t, d) = RunTerminal(t, d) /\ Step(u, c) = RunTerminal(u, c)
            BY <2>1, <2>2, <2>4 DEF Step
        <3>2. cell.type \in {"error", "accept", "shift", "reduce"}
            <4>1. Top(c.stack) \in ParserStates /\ u[c.index] \in Terminals
                BY <2>1, TopAndRest DEF Configurations, Top
            <4> QED
                BY <4>1, CellType
        <3>3. /\ cell.type = "error" => RunTerminal(t, d) = Halt(d, "Rejected")
              /\ cell.type = "shift" => RunTerminal(t, d) = NextTerminal(d, Append(c.stack, cell.to))
              /\ cell.type = "accept" =>
                   RunTerminal(t, d) = Halt(d, IF c.index = Len(u) THEN "Accepted" ELSE "AcceptBeforeEnd")
              /\ cell.type = "reduce" => RunTerminal(t, d) =
                   IF Progresses(c.previous, cell.rank) THEN ApplyReduction(d, cell, lookup)
                   ELSE Halt(d, "InvalidReductionProgress")
            <4>1. Action[Top(d.stack)][t[d.index]] = cell
                BY <1>1, <2>2
            <4>2. (IF d.previous = NoReduction THEN 2 ELSE 1) = lookup
                BY <1>1
            <4> HIDE DEF cell, lookup
            <4> QED
                BY <1>1, <1>3, <2>2, <4>1, <4>2 DEF RunTerminal
        <3>4. /\ cell.type = "error" => RunTerminal(u, c) = Halt(c, "Rejected")
              /\ cell.type = "shift" => RunTerminal(u, c) = NextTerminal(c, Append(c.stack, cell.to))
              /\ cell.type = "accept" =>
                   RunTerminal(u, c) = Halt(c, IF c.index = Len(u) THEN "Accepted" ELSE "AcceptBeforeEnd")
              /\ cell.type = "reduce" => RunTerminal(u, c) =
                   IF Progresses(c.previous, cell.rank) THEN ApplyReduction(c, cell, lookup)
                   ELSE Halt(c, "InvalidReductionProgress")
            <4>1. Action[Top(c.stack)][u[c.index]] = cell
                OBVIOUS
            <4>2. (IF c.previous = NoReduction THEN 2 ELSE 1) = lookup
                OBVIOUS
            <4> HIDE DEF cell, lookup
            <4> QED
                BY <1>3, <4>1, <4>2 DEF RunTerminal
        <3> HIDE DEF cell, lookup
        <3>5. ApplyReduction(d, cell, lookup) = Shifted(ApplyReduction(c, cell, lookup), k)
            <4> DEFINE kept == Len(c.stack) - PopLen[cell.production]
                       to == Goto[c.stack[kept]][Lhs[cell.production]]
            <4>1. ApplyReduction(d, cell, lookup)
                    = IF kept <= 0 THEN Halt(d, c.underflow)
                      ELSE IF to = NoGoto THEN Halt(d, "MissingGoto") ELSE Reduced(d, kept, cell, to)
                BY <1>1, <1>3 DEF ApplyReduction
            <4>2. ApplyReduction(c, cell, lookup)
                    = IF kept <= 0 THEN Halt(c, c.underflow)
                      ELSE IF to = NoGoto THEN Halt(c, "MissingGoto") ELSE Reduced(c, kept, cell, to)
                BY <1>3 DEF ApplyReduction
            <4> HIDE DEF kept, to
            <4> QED
                BY <1>4, <4>1, <4>2
        <3> QED
            BY <1>4, <3>1, <3>2, <3>3, <3>4, <3>5 DEF d
    <2> QED
        BY <2>3, <2>4
<1> QED
    BY <1>2, <1>5, <1>6 DEF d

LEMMA RunShifted ==
    ASSUME NEW t \in Seq(Terminals), NEW u \in Seq(Terminals), NEW k \in Nat,
           Len(t) = Len(u) + k, \A i \in 1..Len(u) : t[i + k] = u[i],
           NEW c \in Configurations, c.maximum = Unbounded
    PROVE  Run(t, Shifted(c, k)) = Shifted(Run(u, c), k)
<1> DEFINE B == {x \in Configurations :
                   x.maximum = Unbounded /\ Run(t, Shifted(x, k)) # Shifted(Run(u, x), k)}
<1>1. ASSUME NEW x \in B PROVE Live(x) /\ Step(u, x) \in B
    <2>1. x \in Configurations /\ x.maximum = Unbounded /\ Run(t, Shifted(x, k)) # Shifted(Run(u, x), k)
        OBVIOUS
    <2>2. Shifted(x, k) \in Configurations /\ (Live(Shifted(x, k)) <=> Live(x))
        BY <2>1, ShiftedType DEF Live
    <2>3. Live(x)
        <3> SUFFICES ASSUME ~Live(x) PROVE FALSE
            OBVIOUS
        <3>1. Run(u, x) = x /\ Run(t, Shifted(x, k)) = Shifted(x, k)
            BY <2>1, <2>2, RunUnfolds
        <3> QED
            BY <2>1, <3>1
    <2>4. Step(u, x) \in Configurations /\ Step(u, x).maximum = Unbounded
        <3>1. KeepsRun(x, Step(u, x))
            BY <2>1, StepFollows DEF Configurations
        <3> QED
            BY <2>1, <3>1 DEF KeepsRun
    <2>5. Run(u, x) = Run(u, Step(u, x))
        BY <2>1, <2>3, RunUnfolds
    <2>6. Run(t, Shifted(x, k)) = Run(t, Shifted(Step(u, x), k))
        <3>1. Run(t, Shifted(x, k)) = Run(t, Step(t, Shifted(x, k)))
            BY <2>2, <2>3, RunUnfolds
        <3>2. Step(t, Shifted(x, k)) = Shifted(Step(u, x), k)
            BY <2>1, StepShifted
        <3> QED
            BY <3>1, <3>2
    <2> QED
        BY <2>1, <2>3, <2>4, <2>5, <2>6
<1>2. B \subseteq Configurations
    OBVIOUS
<1>3. c \in B \/ Run(t, Shifted(c, k)) = Shifted(Run(u, c), k)
    OBVIOUS
<1> HIDE DEF B
<1>4. B = {}
    BY <1>1, <1>2, NoEndlessRun
<1> QED
    BY <1>3, <1>4

(* Where a run of a head is while it reads the direct prefix, and where it   *)
(* has read it.                                                              *)
BeforeProbe(h, c) ==
    /\ c \in Configurations /\ Live(c)
    /\ c.maximum = Unbounded /\ c.used = 0 /\ c.underflow = "StackUnderflow"
    /\ c.index <= Len(h)
    /\ c.index = Len(h) => c.previous = NoReduction

(* There, what is left to run is the probe, on the stack that is left.       *)
LEMMA ProbeIsLeft ==
    ASSUME NEW h \in Seq(Terminals) \ {<<>>}, NEW c, BeforeProbe(h, c), c.index = Len(h)
    PROVE  /\ Run(Direct(h), c).decision = "Continue"
           /\ Run(Direct(h), c).stack = c.stack
           /\ Run(h, c).decision = Run(Probe(h), BeginConcrete(c.stack)).decision
<1>1. /\ Direct(h) \in Seq(Terminals) /\ Probe(h) \in Seq(Terminals)
      /\ Len(h) \in Nat \ {0}
      /\ Len(Direct(h)) = Len(h) - 1 /\ Len(Probe(h)) = 1
      /\ Probe(h)[1] = h[Len(h)]
    BY HeadParts
<1>2. c \in Configurations /\ Live(c) /\ c.stack \in Seq(ParserStates) \ {<<>>}
    BY DEF BeforeProbe, Configurations
<1>3. Step(Direct(h), c) = Halt(c, "Continue")
    BY <1>1 DEF Step
<1>4. /\ Halt(c, "Continue") \in Configurations /\ Halt(c, "Continue").decision = "Continue"
      /\ Halt(c, "Continue").stack = c.stack
    BY <1>2 DEF Halt, Configurations, Decisions
<1>5. Run(Direct(h), c) = Halt(c, "Continue")
    <2>1. ~Live(Halt(c, "Continue"))
        BY <1>4 DEF Live
    <2> QED
        BY <1>1, <1>2, <1>3, <1>4, <2>1, RunUnfolds
<1> DEFINE d == BeginConcrete(c.stack)
           k == Len(h) - 1
<1>6. d \in Configurations /\ d.maximum = Unbounded /\ d.index = 1 /\ d.used = 0
      /\ d.underflow = "StackUnderflow" /\ d.previous = NoReduction /\ d.decision = "running"
      /\ d.stack = c.stack
    BY <1>2, BeginType DEF BeginConcrete, Begin, Unbounded
<1>7. c = Shifted(d, k)
    <2>1. c.index = 1 + k
        BY <1>1
    <2>2. Shifted(d, k) = [d EXCEPT !.index = 1 + k]
        BY <1>6 DEF Shifted
    <2> HIDE DEF d, k
    <2> QED
        BY <1>1, <1>2, <1>6, <2>1, <2>2 DEF BeforeProbe, Configurations, Live
<1>8. Len(h) = Len(Probe(h)) + k /\ k \in Nat /\ \A i \in 1..Len(Probe(h)) : h[i + k] = Probe(h)[i]
    BY <1>1
<1> HIDE DEF d, k
<1>9. Run(h, c) = Shifted(Run(Probe(h), d), k)
    BY <1>1, <1>6, <1>7, <1>8, RunShifted
<1>10. Run(Probe(h), d) \in Configurations
    <2>1. Closed(Probe(h), Configurations)
        BY <1>1, StepType DEF Closed
    <2> QED
        BY <1>1, <1>6, <2>1, RunEnds
<1>11. Run(h, c).decision = Run(Probe(h), d).decision
    <2>1. \A x \in Configurations, j \in Nat : Shifted(x, j).decision = x.decision
        BY ShiftedType
    <2>2. Shifted(Run(Probe(h), d), k).decision = Run(Probe(h), d).decision
        BY <1>8, <1>10, <2>1, Zenon
    <2> QED
        BY <1>9, <2>2, Zenon
<1> QED
    BY <1>4, <1>5, <1>11 DEF d

(* Before it, an iteration on the head is one on the direct prefix, but that *)
(* the prefix may end with an accepting cell.                                *)
LEMMA PrefixStep ==
    ASSUME NEW h \in Seq(Terminals) \ {<<>>}, NEW c, BeforeProbe(h, c), c.index # Len(h)
    PROVE  LET n == Step(h, c)
               m == Step(Direct(h), c)
           IN /\ n \in Configurations /\ m \in Configurations
              /\ m.decision # "Continue"
              /\ Live(m) => n = m /\ BeforeProbe(h, m)
              /\ m.decision = "Rejected" => n = m
<1> DEFINE n == Step(h, c)
           m == Step(Direct(h), c)
           cell == Action[Top(c.stack)][h[c.index]]
           lookup == IF c.previous = NoReduction THEN 2 ELSE 1
<1>1. /\ Direct(h) \in Seq(Terminals) /\ Len(h) \in Nat \ {0}
      /\ Len(Direct(h)) = Len(h) - 1
      /\ \A i \in 1..Len(h) - 1 : Direct(h)[i] = h[i]
    BY HeadParts
<1>2. /\ c \in Configurations /\ Live(c) /\ c.maximum = Unbounded /\ c.used = 0
      /\ c.underflow = "StackUnderflow" /\ c.index \in Nat \ {0}
      /\ c.stack \in Seq(ParserStates) \ {<<>>}
    BY DEF BeforeProbe, Configurations
<1>3. c.index \in 1..Len(h) - 1 /\ c.index <= Len(h) /\ c.index <= Len(Direct(h))
    BY <1>1, <1>2 DEF BeforeProbe
<1>4. n \in Configurations /\ m \in Configurations
    BY <1>1, <1>2, StepType
<1>5. Direct(h)[c.index] = h[c.index] /\ h[c.index] \in Terminals /\ c.index # Len(h)
    BY <1>1, <1>3, ElementOfSeq
<1>6. \A cost, next : Charged(c, cost, next) = next
    BY <1>2 DEF Charged
<1>7. KeepsRun(c, m)
    BY <1>1, <1>2, StepFollows
<1>8. CASE h[c.index] \in Ignored
    <2>1. n = NextTerminal(c, c.stack) /\ m = NextTerminal(c, c.stack)
        <3>1. ~(c.index > Len(h)) /\ ~(c.index > Len(Direct(h)))
            BY <1>1, <1>2, <1>3
        <3> QED
            BY <1>3, <1>5, <1>6, <1>8, <3>1 DEF Step
    <2>2. /\ NextTerminal(c, c.stack).index = c.index + 1 /\ NextTerminal(c, c.stack).used = 0
          /\ NextTerminal(c, c.stack).previous = NoReduction
          /\ NextTerminal(c, c.stack).decision = "running"
        BY <1>2 DEF NextTerminal, Configurations, Live
    <2> HIDE DEF n, m
    <2>3. n = m
        BY <2>1
    <2>4. m.index = c.index + 1 /\ m.used = 0 /\ m.previous = NoReduction /\ m.decision = "running"
        BY <2>1, <2>2
    <2>5. m.index <= Len(h)
        BY <1>1, <1>3, <2>4
    <2>6. BeforeProbe(h, m)
        BY <1>2, <1>4, <1>7, <2>4, <2>5 DEF BeforeProbe, KeepsRun, Live
    <2> QED
        BY <1>4, <2>3, <2>4, <2>6 DEF n, m
<1>9. CASE h[c.index] \notin Ignored
    <2>1. n = RunTerminal(h, c) /\ m = RunTerminal(Direct(h), c)
        <3>1. ~(c.index > Len(h)) /\ ~(c.index > Len(Direct(h)))
            BY <1>1, <1>2, <1>3
        <3> QED
            BY <1>3, <1>5, <1>9, <3>1 DEF Step
    <2>2. cell.type \in {"error", "accept", "shift", "reduce"}
        <3>1. Top(c.stack) \in ParserStates
            BY <1>2, TopAndRest DEF Top
        <3> QED
            BY <1>5, <3>1, CellType
    <2>3. /\ cell.type = "error" => n = Halt(c, "Rejected")
          /\ cell.type = "shift" => n = NextTerminal(c, Append(c.stack, cell.to))
          /\ cell.type = "accept" => n = Halt(c, "AcceptBeforeEnd")
          /\ cell.type = "reduce" => n =
               IF Progresses(c.previous, cell.rank) THEN ApplyReduction(c, cell, lookup)
               ELSE Halt(c, "InvalidReductionProgress")
        <3> HIDE DEF n, m
        <3> QED
            BY <1>5, <1>6, <2>1 DEF RunTerminal
    <2>4. /\ cell.type = "error" => m = Halt(c, "Rejected")
          /\ cell.type = "shift" => m = NextTerminal(c, Append(c.stack, cell.to))
          /\ cell.type = "accept" =>
               m = Halt(c, IF c.index = Len(Direct(h)) THEN "Accepted" ELSE "AcceptBeforeEnd")
          /\ cell.type = "reduce" => m =
               IF Progresses(c.previous, cell.rank) THEN ApplyReduction(c, cell, lookup)
               ELSE Halt(c, "InvalidReductionProgress")
        <3>1. Action[Top(c.stack)][Direct(h)[c.index]] = cell
            BY <1>5
        <3> HIDE DEF n, m, cell
        <3> QED
            BY <1>6, <2>1, <3>1 DEF RunTerminal
    <2> HIDE DEF n, m, cell, lookup
    <2>5. \A decision \in Decisions \cup Failures : Halt(c, decision).decision = decision
        BY <1>2 DEF Halt, Configurations
    <2>6. CASE cell.type = "error"
        <3>1. m.decision = "Rejected" /\ n = m
            BY <2>3, <2>4, <2>5, <2>6 DEF Decisions
        <3> QED
            BY <1>4, <3>1 DEF Live, n, m
    <2>7. CASE cell.type = "accept"
        <3>1. m.decision \in {"Accepted", "AcceptBeforeEnd"}
            BY <2>4, <2>5, <2>7 DEF Decisions, Failures
        <3> QED
            BY <1>4, <3>1 DEF Live, n, m
    <2>8. CASE cell.type = "shift"
        <3>1. n = m /\ m = NextTerminal(c, Append(c.stack, cell.to))
            BY <2>3, <2>4, <2>8
        <3>2. \A s : /\ NextTerminal(c, s).index = c.index + 1 /\ NextTerminal(c, s).used = 0
                     /\ NextTerminal(c, s).previous = NoReduction
                     /\ NextTerminal(c, s).decision = "running"
            BY <1>2 DEF NextTerminal, Configurations, Live
        <3>3. /\ m.index = c.index + 1 /\ m.used = 0
              /\ m.previous = NoReduction /\ m.decision = "running"
            BY <3>1, <3>2
        <3>4. BeforeProbe(h, m)
            BY <1>1, <1>2, <1>3, <1>4, <1>7, <3>3 DEF BeforeProbe, KeepsRun, Live, m
        <3> QED
            BY <1>4, <3>1, <3>3, <3>4 DEF n, m
    <2>9. CASE cell.type = "reduce"
        <3>1. n = m
            BY <2>3, <2>4, <2>9
        <3>2. \/ m.decision \in {"InvalidReductionProgress", "StackUnderflow", "MissingGoto"}
              \/ m.decision = "running" /\ m.used = 0 /\ m.index = c.index
            <4>1. \A kept, destination :
                    /\ Reduced(c, kept, cell, destination).decision = "running"
                    /\ Reduced(c, kept, cell, destination).used = 0
                    /\ Reduced(c, kept, cell, destination).index = c.index
                BY <1>2 DEF Reduced, Configurations, Live
            <4> DEFINE kept == Len(c.stack) - PopLen[cell.production]
                       to == Goto[c.stack[kept]][Lhs[cell.production]]
            <4>2. ApplyReduction(c, cell, lookup)
                    = IF kept <= 0 THEN Halt(c, "StackUnderflow")
                      ELSE IF to = NoGoto THEN Halt(c, "MissingGoto") ELSE Reduced(c, kept, cell, to)
                BY <1>2, <1>6 DEF ApplyReduction
            <4> HIDE DEF kept, to
            <4> QED
                BY <2>4, <2>5, <2>9, <4>1, <4>2 DEF Failures
        <3>3. m.decision = "running" => BeforeProbe(h, m)
            BY <1>2, <1>3, <1>4, <1>5, <1>7, <3>2 DEF BeforeProbe, KeepsRun, Live, m
        <3> QED
            BY <1>4, <3>1, <3>2, <3>3 DEF Live, n, m
    <2> QED
        BY <2>2, <2>6, <2>7, <2>8, <2>9
<1> QED
    BY <1>8, <1>9

(* What HeadAllowed asks in two runs is what one run of the head decides.    *)
SplitsAt(h, c) ==
    LET direct == Run(Direct(h), c)
        decision == Run(h, c).decision
    IN /\ direct.decision = "Continue" =>
            decision = Run(Probe(h), BeginConcrete(direct.stack)).decision
       /\ direct.decision = "Rejected" => decision = "Rejected"

LEMMA RunSplits ==
    ASSUME NEW h \in Seq(Terminals) \ {<<>>}, NEW c, BeforeProbe(h, c)
    PROVE  SplitsAt(h, c)
<1> DEFINE B == {x \in Configurations : BeforeProbe(h, x) /\ ~SplitsAt(h, x)}
<1>1. Direct(h) \in Seq(Terminals)
    BY HeadParts
<1>2. ASSUME NEW x \in B PROVE Live(x) /\ Step(Direct(h), x) \in B
    <2> DEFINE n == Step(h, x)
               m == Step(Direct(h), x)
    <2>1. x \in Configurations /\ Live(x) /\ BeforeProbe(h, x) /\ ~SplitsAt(h, x)
        BY DEF BeforeProbe
    <2>2. x.index # Len(h)
        <3> SUFFICES ASSUME x.index = Len(h) PROVE FALSE
            OBVIOUS
        <3>1. SplitsAt(h, x)
            BY <2>1, ProbeIsLeft DEF SplitsAt
        <3> QED
            BY <2>1, <3>1
    <2>3. /\ n \in Configurations /\ m \in Configurations
          /\ m.decision # "Continue"
          /\ Live(m) => n = m /\ BeforeProbe(h, m)
          /\ m.decision = "Rejected" => n = m
        BY <2>1, <2>2, PrefixStep
    <2>4. Run(h, x) = Run(h, n) /\ Run(Direct(h), x) = Run(Direct(h), m)
        BY <1>1, <2>1, RunUnfolds
    <2>5. ~Live(n) => Run(h, n) = n
        BY <2>3, RunUnfolds
    <2>6. ~Live(m) => Run(Direct(h), m) = m
        BY <1>1, <2>3, RunUnfolds
    <2> HIDE DEF n, m
    <2>7. Live(m)
        <3> SUFFICES ASSUME ~Live(m) PROVE FALSE
            OBVIOUS
        <3>1. SplitsAt(h, x)
            BY <2>3, <2>4, <2>5, <2>6 DEF SplitsAt, Live
        <3> QED
            BY <2>1, <3>1
    <2>8. ~SplitsAt(h, m)
        BY <2>1, <2>3, <2>4, <2>7 DEF SplitsAt
    <2> QED
        BY <2>1, <2>3, <2>7, <2>8 DEF m
<1>3. B \subseteq Configurations
    OBVIOUS
<1>4. c \in B \/ SplitsAt(h, c)
    BY DEF BeforeProbe
<1> HIDE DEF B
<1>5. B = {}
    BY <1>1, <1>2, <1>3, NoEndlessRun
<1> QED
    BY <1>4, <1>5

(* A run that reads a list of terminals in two parts, on one stack, decides  *)
(* what one run over the list does, unless the first part fails: so do the   *)
(* prefix and the probe of sequence_head_allowed_with_scratch, and the two   *)
(* runs of evaluate_eos_into.                                                *)
THEOREM TwoRunsAreOne ==
    ASSUME NEW h \in Seq(Terminals) \ {<<>>}, NEW s \in Seq(ParserStates) \ {<<>>}
    PROVE  LET direct == Run(Direct(h), BeginConcrete(s))
               decision == Run(h, BeginConcrete(s)).decision
           IN /\ direct.decision = "Continue" =>
                   decision = Run(Probe(h), BeginConcrete(direct.stack)).decision
              /\ direct.decision = "Rejected" => decision = "Rejected"
<1>1. BeginConcrete(s) \in Configurations
    BY BeginType DEF Unbounded
<1>2. /\ BeginConcrete(s).index = 1 /\ BeginConcrete(s).previous = NoReduction
      /\ BeginConcrete(s).used = 0 /\ BeginConcrete(s).maximum = Unbounded
      /\ BeginConcrete(s).underflow = "StackUnderflow" /\ BeginConcrete(s).decision = "running"
    BY DEF BeginConcrete, Begin
<1>3. Len(h) \in Nat \ {0}
    BY HeadParts
<1>4. BeforeProbe(h, BeginConcrete(s))
    BY <1>1, <1>2, <1>3 DEF BeforeProbe, Live
<1> QED
    BY <1>4, RunSplits DEF SplitsAt

(* What HeadAllowed lets through or denies is what one run of the head on    *)
(* the whole stack does.                                                     *)
LEMMA OneRunAnswers ==
    ASSUME NEW h \in Seq(Terminals) \ {<<>>}, NEW s \in Seq(ParserStates) \ {<<>>},
           HeadAllowed(s, h) # "failed"
    PROVE  /\ HeadAllowed(s, h) \in {"allowed", "denied"}
           /\ HeadAllowed(s, h) = "allowed" <=> Run(h, BeginConcrete(s)).decision \in {"Continue", "Accepted"}
<1> DEFINE direct == Run(Direct(h), BeginConcrete(s))
           last == Run(Probe(h), BeginConcrete(direct.stack)).decision
           decision == Run(h, BeginConcrete(s)).decision
<1>1. /\ direct.decision = "Continue" => decision = last
      /\ direct.decision = "Rejected" => decision = "Rejected"
    BY TwoRunsAreOne
<1>2. HeadAllowed(s, h)
        = CASE direct.decision = "Continue" -> HeadVerdict(last)
            [] direct.decision = "Rejected" -> "denied"
            [] direct.decision \notin {"Continue", "Rejected"} -> "failed"
    BY DEF HeadAllowed
<1> HIDE DEF direct, last, decision
<1>3. /\ direct.decision = "Continue" => HeadAllowed(s, h) = HeadVerdict(last)
      /\ direct.decision = "Rejected" => HeadAllowed(s, h) = "denied"
      /\ direct.decision \in {"Continue", "Rejected"}
    BY <1>2
<1>4. HeadVerdict(last) = CASE last = "Rejected"                 -> "denied"
                            [] last \in {"Continue", "Accepted"} -> "allowed"
                            [] last \notin {"Rejected", "Continue", "Accepted"} -> "failed"
    BY DEF HeadVerdict
<1>5. HeadAllowed(s, h) \in {"allowed", "denied"}
      /\ (HeadAllowed(s, h) = "allowed" <=> decision \in {"Continue", "Accepted"})
    BY <1>1, <1>3, <1>4
<1> QED
    BY <1>5 DEF decision
-----------------------------------------------------------------------------
(* The execution of a token.                                                 *)

(* Every natural is in a set that holds zero and is closed under successor.  *)
LEMMA SetInduction ==
    ASSUME NEW S, 0 \in S, \A n \in Nat : n \in S => n + 1 \in S
    PROVE  Nat \subseteq S
<1> DEFINE missing == {n \in Nat : n \notin S}
<1> SUFFICES ASSUME missing # {} PROVE FALSE
  OBVIOUS
<1>1. PICK k \in missing : \A j \in missing : k <= j
  BY LeastExists
<1>2. k \in Nat /\ k # 0 /\ k - 1 \in Nat /\ k = (k - 1) + 1
  BY <1>1
<1>3. k - 1 \in S
  BY <1>1, <1>2
<1> QED
  BY <1>1, <1>2, <1>3

Ats == {Rejection} \cup [state : Sources, emitted : Seq(LexerTerminals)]

LEMMA StepsInLexer ==
    ASSUME NEW s \in Sources, NEW byte \in Bytes
    PROVE  /\ ByteStep(s, byte) \in Ats
           /\ ByteStep(s, byte) # Rejection => ByteStep(s, byte).state \in Sources
           /\ ByteStep(s, byte).emitted \in Seq(LexerTerminals)
<1>1. ASSUME NEW e \in Seq(LexerTerminals)
      PROVE  /\ BeginLexeme(byte, e) \in Ats /\ BeginLexeme(byte, e).emitted \in Seq(LexerTerminals)
             /\ BeginLexeme(byte, e) # Rejection => BeginLexeme(byte, e).state \in Sources
  <2>1. Delta[DfaStart][byte] \in DfaStates \cup {NoState} /\ <<>> \in Seq(LexerTerminals)
    BY LexerAssumption
  <2> QED
    BY <2>1 DEF BeginLexeme, Rejection, At, Ats, Sources
<1>2. <<>> \in Seq(LexerTerminals)
  OBVIOUS
<1>3. CASE s = LogicalStart
  <2>1. ByteStep(s, byte) = BeginLexeme(byte, <<>>)
    BY <1>3, LexerAssumption DEF ByteStep
  <2> QED
    BY <1>1, <1>2, <2>1
<1>4. CASE s \in DfaStates /\ Delta[s][byte] # NoState
  <2>1. ByteStep(s, byte) = At(Delta[s][byte], <<>>)
    BY <1>4, LexerAssumption DEF ByteStep
  <2>2. Delta[s][byte] \in DfaStates
    BY <1>4, LexerAssumption
  <2> QED
    BY <1>2, <2>1, <2>2 DEF At, Ats, Sources
<1>5. CASE s \in DfaStates /\ Delta[s][byte] = NoState
  <2>1. ByteStep(s, byte) = IF Label[s] = NoTerminal THEN Rejection ELSE BeginLexeme(byte, <<Label[s]>>)
    BY <1>5, LexerAssumption DEF ByteStep
  <2>2. CASE Label[s] = NoTerminal
    BY <1>2, <2>1, <2>2 DEF Rejection, At, Ats
  <2>3. CASE Label[s] # NoTerminal
    <3>1. Label[s] \in LexerTerminals
      BY <1>5, <2>3, LexerAssumption
    <3>2. <<Label[s]>> \in Seq(LexerTerminals)
      BY <3>1
    <3> QED
      BY <1>1, <2>1, <2>3, <3>2
  <2> QED
    BY <2>2, <2>3
<1> QED
  BY <1>3, <1>4, <1>5 DEF Sources

LEMMA BytesInLexer ==
    ASSUME NEW at \in Ats, NEW byte \in Bytes
    PROVE  ExecuteByte(at, byte) \in Ats
<1> DEFINE step == ByteStep(at.state, byte)
<1>1. CASE at = Rejection \/ step = Rejection
  BY <1>1 DEF ExecuteByte, Ats
<1>2. CASE at # Rejection /\ step # Rejection
  <2>1. at.state \in Sources /\ at.emitted \in Seq(LexerTerminals)
    BY <1>2 DEF Ats
  <2>2. step.state \in Sources /\ step.emitted \in Seq(LexerTerminals)
    BY <1>2, <2>1, StepsInLexer
  <2>3. ExecuteByte(at, byte) = At(step.state, at.emitted \o step.emitted)
    BY <1>2 DEF ExecuteByte
  <2> HIDE DEF step
  <2>4. at.emitted \o step.emitted \in Seq(LexerTerminals)
    BY <2>1, <2>2, ConcatProperties
  <2>5. At(step.state, at.emitted \o step.emitted) \in [state : Sources, emitted : Seq(LexerTerminals)]
    BY <2>2, <2>4 DEF At
  <2> QED
    BY <2>3, <2>5, Zenon DEF Ats
<1> QED
  BY <1>1, <1>2

(* The bytes one by one.                                                     *)
Executes(after, source, bytes) ==
    /\ after[0] = At(source, <<>>)
    /\ \A n \in 1..Len(bytes) : after[n] = ExecuteByte(after[n - 1], bytes[n])
    /\ \A n \in 0..Len(bytes) : after[n] \in Ats
    /\ ExecuteBytes(source, bytes) = after[Len(bytes)]

(* The recursive function of ExecuteBytes exists, and stays in the lexer.    *)
LEMMA BytesUnfold ==
    ASSUME NEW source \in Sources, NEW bytes \in Seq(Bytes)
    PROVE  \E after : Executes(after, source, bytes)
<1> DEFINE length == Len(bytes)
           begin == At(source, <<>>)
           next(at, n) == ExecuteByte(at, bytes[n])
           Runs(f, n) == f = [k \in 0..n |-> IF k = 0 THEN begin ELSE next(f[k - 1], k)]
           S == {n \in Nat : \E f : Runs(f, n)}
           after[n \in 0..length] == IF n = 0 THEN begin ELSE next(after[n - 1], n)
<1>1. length \in Nat /\ begin \in Ats
  BY LenProperties DEF At, Ats
<1>2. ASSUME NEW at \in Ats, NEW n \in 1..length PROVE next(at, n) \in Ats
  <2>1. bytes[n] \in Bytes
    BY <1>2, ElementOfSeq
  <2> QED
    BY <2>1, BytesInLexer
<1>3. ExecuteBytes(source, bytes) = after[length]
  BY DEF ExecuteBytes
<1> HIDE DEF begin, next, length
<1>4. Nat \subseteq S
  <2>1. Runs([k \in 0..0 |-> begin], 0)
    OBVIOUS
  <2>2. ASSUME NEW n \in Nat, NEW f, Runs(f, n) PROVE \E g : Runs(g, n + 1)
    <3> DEFINE g == [k \in 0..n + 1 |-> IF k = n + 1 THEN next(f[n], n + 1) ELSE f[k]]
    <3>1. ASSUME NEW k \in 0..n + 1 PROVE g[k] = IF k = 0 THEN begin ELSE next(g[k - 1], k)
      <4>1. CASE k = 0
        <5>1. g[k] = f[k] /\ k \in 0..n
          BY <2>2, <4>1
        <5> QED
          BY <2>2, <4>1, <5>1
      <4>2. CASE k = n + 1
        <5>1. g[k] = next(f[n], n + 1) /\ g[k - 1] = f[n]
          BY <2>2, <4>2
        <5> QED
          BY <2>2, <4>2, <5>1
      <4>3. CASE k \in 1..n
        <5>1. g[k] = f[k] /\ g[k - 1] = f[k - 1] /\ k \in 0..n /\ k # 0
          BY <2>2, <4>3
        <5>2. f[k] = next(f[k - 1], k)
          BY <2>2, <5>1
        <5> QED
          BY <5>1, <5>2
      <4> QED
        BY <2>2, <4>1, <4>2, <4>3
    <3>2. DOMAIN g = 0..n + 1 /\ g = [k \in 0..n + 1 |-> g[k]]
      OBVIOUS
    <3> HIDE DEF g
    <3>3. Runs(g, n + 1)
      BY <3>1, <3>2
    <3> QED
      BY <3>3
  <2>3. 0 \in S
    BY <2>1
  <2>4. \A n \in Nat : n \in S => n + 1 \in S
    BY <2>2
  <2> HIDE DEF S
  <2> QED
    BY <2>3, <2>4, SetInduction
<1>5. \E f : f = [n \in 0..length |-> IF n = 0 THEN begin ELSE next(f[n - 1], n)]
  BY <1>1, <1>4
<1>6. after = [n \in 0..length |-> IF n = 0 THEN begin ELSE next(after[n - 1], n)]
  BY <1>5
<1> HIDE DEF after
<1> DEFINE T == {n \in Nat : n <= length => after[n] \in Ats}
<1>7. 0 \in T
  BY <1>1, <1>6
<1>8. ASSUME NEW n \in Nat, n \in T PROVE n + 1 \in T
  <2> SUFFICES ASSUME n + 1 <= length PROVE after[n + 1] \in Ats
    OBVIOUS
  <2>1. after[n] \in Ats /\ n + 1 \in 1..length
    BY <1>1, <1>8
  <2>2. after[n + 1] = next(after[n], n + 1)
    BY <1>1, <1>6, <2>1
  <2> QED
    BY <1>2, <2>1, <2>2
<1> HIDE DEF T
<1>9. Nat \subseteq T
  BY <1>7, <1>8, SetInduction
<1>10. after[0] = begin /\ \A n \in 1..length : after[n] = next(after[n - 1], n)
  BY <1>1, <1>6
<1>11. \A n \in 0..length : after[n] \in Ats
  BY <1>1, <1>9 DEF T
<1>12. Executes(after, source, bytes)
  BY <1>3, <1>10, <1>11 DEF Executes, begin, next, length
<1> QED
  BY <1>12

LEMMA BytesExecuted ==
    ASSUME NEW source \in Sources, NEW bytes \in Seq(Bytes)
    PROVE  ExecuteBytes(source, bytes) \in Ats
<1>1. PICK after : Executes(after, source, bytes)
  BY BytesUnfold
<1>2. Len(bytes) \in Nat
  BY LenProperties
<1> QED
  BY <1>1, <1>2 DEF Executes

LEMMA NoBytes ==
    ASSUME NEW source \in Sources
    PROVE  <<>> \in Seq(Bytes) /\ ExecuteBytes(source, <<>>) = At(source, <<>>)
<1>1. <<>> \in Seq(Bytes) /\ Len(<<>>) = 0
  OBVIOUS
<1>2. PICK after : Executes(after, source, <<>>)
  BY <1>1, BytesUnfold
<1> QED
  BY <1>1, <1>2 DEF Executes

LEMMA OneByteMore ==
    ASSUME NEW source \in Sources, NEW bytes \in Seq(Bytes), NEW b \in Bytes
    PROVE  /\ Append(bytes, b) \in Seq(Bytes)
           /\ ExecuteBytes(source, Append(bytes, b)) = ExecuteByte(ExecuteBytes(source, bytes), b)
<1> DEFINE more == Append(bytes, b)
           length == Len(bytes)
<1>1. /\ more \in Seq(Bytes) /\ length \in Nat /\ Len(more) = length + 1
      /\ \A n \in 1..length : more[n] = bytes[n]
      /\ more[length + 1] = b
  BY AppendProperties, LenProperties
<1>2. PICK f : Executes(f, source, bytes)
  BY BytesUnfold
<1>3. PICK g : Executes(g, source, more)
  BY <1>1, BytesUnfold
<1> HIDE DEF more
<1> DEFINE T == {n \in Nat : n <= length => f[n] = g[n]}
<1>4. 0 \in T
  BY <1>2, <1>3 DEF Executes
<1>5. ASSUME NEW n \in Nat, n \in T PROVE n + 1 \in T
  <2> SUFFICES ASSUME n + 1 <= length PROVE f[n + 1] = g[n + 1]
    OBVIOUS
  <2>1. f[n] = g[n] /\ n + 1 \in 1..length /\ n + 1 \in 1..length + 1 /\ (n + 1) - 1 = n
    BY <1>1, <1>5
  <2>2. f[n + 1] = ExecuteByte(f[n], bytes[n + 1])
    BY <1>2, <2>1 DEF Executes
  <2>3. g[n + 1] = ExecuteByte(g[n], more[n + 1])
    BY <1>1, <1>3, <2>1 DEF Executes
  <2> QED
    BY <1>1, <2>1, <2>2, <2>3
<1> HIDE DEF T
<1>6. Nat \subseteq T
  BY <1>4, <1>5, SetInduction
<1>7. f[length] = g[length]
  BY <1>1, <1>6 DEF T
<1>8. g[length + 1] = ExecuteByte(g[length], b)
  <2>1. length + 1 \in 1..Len(more) /\ (length + 1) - 1 = length
    BY <1>1
  <2> QED
    BY <1>1, <1>3, <2>1 DEF Executes
<1> QED
  BY <1>1, <1>2, <1>3, <1>7, <1>8 DEF Executes, more

LEMMA ExecutionType ==
    ASSUME NEW source \in Sources, NEW token \in Tokens
    PROVE  Execute(source, token) \in Executions
<1>1. CASE token \in EosTokens
  <2>1. Label[source] # NoTerminal /\ source # LogicalStart => <<Label[source]>> \in Seq(LexerTerminals)
    <3>1. Label[source] # NoTerminal /\ source # LogicalStart => Label[source] \in LexerTerminals
      BY LexerAssumption DEF Sources
    <3> QED
      BY <3>1
  <2> QED
    BY <1>1, <2>1 DEF Execute, Executions
<1>2. CASE token \notin EosTokens
  <2> DEFINE at == ExecuteBytes(source, TokenBytes[token])
  <2>1. TokenBytes[token] \in Seq(Bytes)
    BY <1>2, LexerAssumption
  <2>2. at \in Ats
    BY <2>1, BytesExecuted
  <2>3. Execute(source, token) = Continued(at)
    BY <1>2 DEF Execute
  <2> HIDE DEF at
  <2> QED
    BY <2>2, <2>3 DEF Continued, Ats, Executions
<1> QED
  BY <1>1, <1>2

(* A list and one terminal more.                                             *)
LEMMA HeadOf ==
    ASSUME NEW e \in Seq(Terminals), NEW t \in Terminals
    PROVE  /\ Append(e, t) \in Seq(Terminals) \ {<<>>}
           /\ Direct(Append(e, t)) = e /\ Probe(Append(e, t)) = <<t>>
<1> DEFINE h == Append(e, t)
<1>1. /\ h \in Seq(Terminals) /\ Len(h) = Len(e) + 1 /\ Len(e) \in Nat
      /\ \A i \in 1..Len(e) : h[i] = e[i]
      /\ h[Len(e) + 1] = t
    BY AppendProperties, LenProperties
<1> HIDE DEF h
<1>2. h # <<>>
    BY <1>1, EmptySeq
<1>3. /\ Direct(h) \in Seq(Terminals) /\ Len(Direct(h)) = Len(h) - 1
      /\ \A i \in 1..Len(h) - 1 : Direct(h)[i] = h[i]
    BY <1>1, <1>2, HeadParts
<1>4. Len(Direct(h)) = Len(e) /\ \A i \in 1..Len(e) : Direct(h)[i] = e[i]
    BY <1>1, <1>3
<1>5. Direct(h) = e
    BY <1>3, <1>4, SeqEqual
<1>6. Probe(h) = <<t>>
    BY <1>1 DEF Probe
<1> QED
    BY <1>1, <1>2, <1>5, <1>6 DEF h

(* The heads of a token are what it emits and one terminal more.             *)
LEMMA HeadsType ==
    ASSUME NEW execution \in Executions, execution.kind = "Continue"
    PROVE  /\ execution.emitted \in Seq(Terminals) /\ execution.state \in Sources
           /\ \A h \in Heads(execution) :
                h \in Seq(Terminals) \ {<<>>} /\ Direct(h) = execution.emitted
<1>1. execution.emitted \in Seq(LexerTerminals) /\ execution.state \in Sources
  BY DEF Executions
<1>2. LexerTerminals \subseteq Terminals
  BY PreparedAssumption
<1>3. execution.emitted \in Seq(Terminals)
  BY <1>1, <1>2
<1>4. \A s \in Sources : Singletons[s] \subseteq LexerTerminals
  BY DEF Singletons, Emits
<1>5. \A t \in LexerTerminals : /\ Append(execution.emitted, t) \in Seq(Terminals) \ {<<>>}
                               /\ Direct(Append(execution.emitted, t)) = execution.emitted
  BY <1>2, <1>3, HeadOf
<1> QED
  BY <1>1, <1>3, <1>4, <1>5 DEF Heads
-----------------------------------------------------------------------------
(* A mask is what may be advanced with.                                      *)

(* Preparation has classified every state and head: it has not failed.       *)
Classified ==
    \A state \in ParserStates, h \in SequenceHeads :
       Run(h, BeginSymbolic(state, Unbounded)).decision \in Decisions

(* What sequence_allowed_with_scratch answers is what the whole stack says,  *)
(* whether it comes from the table or not.                                   *)
THEOREM TableIsTheStack ==
    ASSUME Classified, NEW s \in Seq(ParserStates) \ {<<>>},
           NEW h \in Seq(Terminals) \ {<<>>}, h \in SequenceHeads
    PROVE  /\ SequenceVerdict(s, h) = HeadAllowed(s, h)
           /\ SequenceVerdict(s, h) \in {"allowed", "denied", "failed"}
<1> DEFINE decision == Run(h, BeginSymbolic(Top(s), Unbounded)).decision
<1>1. Top(s) \in ParserStates
  BY TopAndRest DEF Top
<1>2. /\ decision = "Rejected" => HeadAllowed(s, h) = "denied"
      /\ decision \in {"Continue", "Accepted"} => HeadAllowed(s, h) = "allowed"
  BY ClassIsTheAnswer
<1>3. decision \in Decisions
  BY <1>1 DEF Classified
<1>4. ClassTable[Top(s)][h] = Classify(decision)
  BY <1>1 DEF ClassTable
<1> HIDE DEF decision
<1>5. SequenceVerdict(s, h) = HeadAllowed(s, h)
  BY <1>2, <1>3, <1>4 DEF SequenceVerdict, ClassVerdict, Classify, Decisions
<1>6. HeadAllowed(s, h) \in {"allowed", "denied", "failed"}
  <2>1. \A d : HeadVerdict(d) \in {"allowed", "denied", "failed"}
    BY DEF HeadVerdict
  <2> QED
    BY <2>1 DEF HeadAllowed
<1> QED
  BY <1>5, <1>6

(* The buckets of a source invert the heads of its tokens.                   *)
LEMMA BucketsInvert ==
    ASSUME NEW source \in Sources, NEW token \in Tokens
    PROVE  /\ HeadsOf(source, token) \subseteq DOMAIN Buckets[source]
           /\ DOMAIN Buckets[source] \subseteq SequenceHeads
           /\ \A h \in DOMAIN Buckets[source] :
                token \in Buckets[source][h] <=> h \in HeadsOf(source, token)
BY DEF Buckets, SequenceHeads

LEMMA OrdinaryMasked ==
    ASSUME NEW status, status.lexer \in Sources, NEW token \in Tokens
    PROVE  token \in OrdinaryMask(status) <=>
             \E h \in HeadsOf(status.lexer, token) : SequenceVerdict(status.stack, h) = "allowed"
<1> DEFINE allowed(h) == SequenceVerdict(status.stack, h) = "allowed"
           buckets == Buckets[status.lexer]
<1>1. /\ HeadsOf(status.lexer, token) \subseteq DOMAIN buckets
      /\ \A h \in DOMAIN buckets : token \in buckets[h] <=> h \in HeadsOf(status.lexer, token)
  BY BucketsInvert
<1>2. OrdinaryMask(status) = UNION {buckets[h] : h \in {h \in DOMAIN buckets : allowed(h)}}
  BY DEF OrdinaryMask
<1> HIDE DEF allowed, buckets
<1>3. token \in OrdinaryMask(status) <=> \E h \in HeadsOf(status.lexer, token) : allowed(h)
  BY <1>1, <1>2
<1> QED
  BY <1>3 DEF allowed

(* A head that is allowed has a prefix that runs through.                    *)
LEMMA PrefixRuns ==
    ASSUME NEW s, NEW h, HeadAllowed(s, h) = "allowed"
    PROVE  Run(Direct(h), BeginConcrete(s)).decision = "Continue"
BY DEF HeadAllowed

(* The end of input answers what its last run decides, or refuses before.    *)
LEMMA EosCases ==
    ASSUME NEW s, NEW emitted
    PROVE  \/ EvaluateEos(s, emitted) = Refused("ConstraintViolation")
           \/ EvaluateEos(s, emitted) = Refused("CorruptPreparedData")
           \/ \E d : EvaluateEos(s, emitted) = AtEnd(d)
<1> DEFINE read == Run(emitted, BeginConcrete(s))
           last == AtEnd(Run(<<Eof>>, BeginConcrete(read.stack)).decision)
<1>1. EvaluateEos(s, emitted)
        = CASE read.decision = "Continue" -> last
            [] read.decision = "Rejected" -> Refused("ConstraintViolation")
            [] read.decision \notin {"Rejected", "Continue"} -> Refused("CorruptPreparedData")
  BY DEF EvaluateEos
<1>2. \E d : last = AtEnd(d)
  OBVIOUS
<1> HIDE DEF read, last
<1> QED
  BY <1>1, <1>2

(* The two ways of the matcher agree: fill_mask_with_scratch, which goes     *)
(* through the inverse buckets, grants the tokens that evaluate_token_into   *)
(* lets through, and the others break the constraint.  In particular the run *)
(* that commits a token never finds the tables corrupt.                      *)
THEOREM MasksAreAdvances ==
    ASSUME Classified, NEW status \in Statuses, status.phase = "Running", status.stack # <<>>,
           ~MaskFails(status), NEW token \in Tokens
    PROVE  /\ token \in MaskOf(status) <=> NextStatus(status, token).error = "none"
           /\ token \notin MaskOf(status) => NextStatus(status, token).error = "ConstraintViolation"
<1> DEFINE execution == TokenTable[status.lexer][token]
           evaluated == EvaluateToken(status, token)
           verdict(h) == SequenceVerdict(status.stack, h)
<1>1. status.lexer \in Sources /\ status.stack \in Seq(ParserStates) \ {<<>>}
  BY DEF Statuses
<1>2. execution \in Executions
  <2>1. execution = Execute(status.lexer, token)
    BY <1>1 DEF TokenTable
  <2> QED
    BY <1>1, <2>1, ExecutionType
<1>3. NextStatus(status, token) = evaluated
  BY DEF NextStatus
<1>4. evaluated = EvaluateExecution(status, execution)
  BY DEF EvaluateToken
<1>5. HeadsOf(status.lexer, token) = Heads(execution)
  BY DEF HeadsOf
<1>6. token \in OrdinaryMask(status) <=> \E h \in Heads(execution) : verdict(h) = "allowed"
  BY <1>1, <1>5, OrdinaryMasked
<1>7. \A error : token \in EosWith(status, error) <=>
                   execution.kind = "Finished" /\ evaluated.error = error
  BY DEF EosWith
<1>8. token \notin EosWith(status, "CorruptPreparedData")
  BY DEF MaskFails
<1>9. \A h \in Heads(execution) : h \in SequenceHeads /\ verdict(h) # "failed"
  <2>1. Heads(execution) \subseteq DOMAIN Buckets[status.lexer]
        /\ DOMAIN Buckets[status.lexer] \subseteq SequenceHeads
    BY <1>1, <1>5, BucketsInvert
  <2> QED
    BY <2>1 DEF MaskFails
<1>10. token \in MaskOf(status) <=> token \in OrdinaryMask(status) \/ token \in EosWith(status, "none")
  BY DEF MaskOf
<1>11. CASE execution.kind = "None"
  <2>1. Heads(execution) = {}
    BY <1>11 DEF Heads
  <2>2. evaluated.error = "ConstraintViolation"
    BY <1>4, <1>11 DEF EvaluateExecution, Refused
  <2> QED
    BY <1>3, <1>6, <1>7, <1>10, <1>11, <2>1, <2>2
<1>12. CASE execution.kind = "Finished"
  <2>1. Heads(execution) = {}
    BY <1>12 DEF Heads
  <2>2. evaluated.error \in {"none", "ConstraintViolation", "CorruptPreparedData"}
    <3>1. evaluated = EvaluateEos(status.stack, execution.emitted)
      BY <1>4, <1>12 DEF EvaluateExecution
    <3>2. \A d : AtEnd(d).error \in {"none", "ConstraintViolation", "CorruptPreparedData"}
      BY DEF AtEnd, Granted, Refused
    <3> QED
      BY <3>1, <3>2, EosCases DEF Refused
  <2> QED
    BY <1>3, <1>6, <1>7, <1>8, <1>10, <1>12, <2>1, <2>2
<1>13. CASE execution.kind = "Continue"
  <2> DEFINE run == Run(execution.emitted, BeginConcrete(status.stack))
             verdicts == {verdict(h) : h \in Heads(execution)}
             outcome == LetThrough(execution.state, run)
  <2>1. \A h \in Heads(execution) : h \in Seq(Terminals) \ {<<>>} /\ Direct(h) = execution.emitted
    BY <1>2, <1>13, HeadsType
  <2>2. \A h \in Heads(execution) : /\ verdict(h) = HeadAllowed(status.stack, h)
                                    /\ verdict(h) \in {"allowed", "denied"}
    BY <1>1, <1>9, <2>1, TableIsTheStack
  <2>3. evaluated = Judged(verdicts, outcome)
    BY <1>4, <1>13 DEF EvaluateExecution, EvaluateOrdinary
  <2>4. "failed" \notin verdicts /\ verdicts \subseteq {"allowed", "denied"}
    BY <2>2
  <2>5. "allowed" \in verdicts => outcome.error = "none"
    <3> SUFFICES ASSUME NEW h \in Heads(execution), verdict(h) = "allowed"
                 PROVE  outcome.error = "none"
      OBVIOUS
    <3>1. run.decision = "Continue"
      BY <2>1, <2>2, PrefixRuns
    <3> QED
      BY <3>1 DEF LetThrough, Granted
  <2>6. "allowed" \in verdicts <=> token \in OrdinaryMask(status)
    BY <1>6
  <2> HIDE DEF run, verdicts, outcome
  <2>7. /\ "allowed" \in verdicts => Judged(verdicts, outcome) = outcome
        /\ "allowed" \notin verdicts => Judged(verdicts, outcome).error = "ConstraintViolation"
    BY <2>4 DEF Judged, Refused
  <2> QED
    BY <1>3, <1>7, <1>10, <1>13, <2>3, <2>5, <2>6, <2>7
<1> QED
  BY <1>2, <1>11, <1>12, <1>13 DEF Executions

(* An advance that is granted leaves a status of the matcher: a row that     *)
(* runs keeps a path of the table under it.                                  *)
THEOREM AdvancesKeepPaths ==
    ASSUME NEW status \in Statuses, NEW token,
           status.phase = "Running" => IsPath(StartState, status.stack),
           NextStatus(status, token).error = "none"
    PROVE  LET next == NextStatus(status, token).status IN
           /\ next \in Statuses
           /\ next.phase = "Running" => IsPath(StartState, next.stack)
           /\ next.phase = "Accepted" => next.stack = <<>>
<1> DEFINE next == NextStatus(status, token)
           execution == TokenTable[status.lexer][token]
           kept(granted) ==
             /\ granted.status \in Statuses
             /\ granted.status.phase = "Running" => IsPath(StartState, granted.status.stack)
             /\ granted.status.phase = "Accepted" => granted.status.stack = <<>>
<1>1. status.lexer \in Sources /\ status.stack \in Seq(ParserStates)
      /\ status.phase \in {"Running", "Accepted"}
  BY DEF Statuses
<1>2. /\ status.phase = "Running" /\ token \in Tokens
      /\ next = EvaluateExecution(status, execution)
  BY <1>1 DEF NextStatus, EvaluateToken, Refused
<1>3. execution \in Executions
  <2>1. execution = Execute(status.lexer, token)
    BY <1>1, <1>2 DEF TokenTable
  <2> QED
    BY <1>1, <1>2, <2>1, ExecutionType
<1>4. kept(Granted(Accepted))
  BY DEF Granted, Accepted, Statuses, Sources
<1>5. CASE execution.kind = "None"
  BY <1>2, <1>5 DEF EvaluateExecution, Refused
<1>6. CASE execution.kind = "Finished"
  <2>1. next = EvaluateEos(status.stack, execution.emitted)
    BY <1>2, <1>6 DEF EvaluateExecution
  <2>2. \A d : AtEnd(d).error = "none" => AtEnd(d) = Granted(Accepted)
    BY DEF AtEnd, Refused
  <2>3. next = Granted(Accepted)
    BY <1>2, <2>1, <2>2, EosCases DEF Refused
  <2> QED
    BY <1>4, <2>3
<1>7. CASE execution.kind = "Continue"
  <2> DEFINE run == Run(execution.emitted, BeginConcrete(status.stack))
             outcome == LetThrough(execution.state, run)
             verdicts == {SequenceVerdict(status.stack, h) : h \in Heads(execution)}
  <2>1. execution.emitted \in Seq(Terminals) /\ execution.state \in Sources
    BY <1>3, <1>7, HeadsType
  <2>2. run.stack \in Seq(ParserStates) /\ IsPath(StartState, run.stack)
    BY <1>1, <1>2, <2>1, RunsKeepPaths
  <2>3. next = Judged(verdicts, outcome)
    BY <1>2, <1>7 DEF EvaluateExecution, EvaluateOrdinary
  <2> HIDE DEF run, verdicts
  <2>4. outcome.error = "none" => outcome = Granted(RunningAt(execution.state, run.stack))
    BY DEF LetThrough, Refused
  <2>5. kept(Granted(RunningAt(execution.state, run.stack)))
    <3>1. RunningAt(execution.state, run.stack) \in Statuses
      BY <2>1, <2>2 DEF RunningAt, Statuses
    <3> QED
      BY <2>2, <3>1 DEF Granted, RunningAt
  <2> HIDE DEF outcome
  <2>6. next = outcome
    <3>1. \/ Judged(verdicts, outcome) = outcome
          \/ Judged(verdicts, outcome) = Refused("CorruptPreparedData")
          \/ Judged(verdicts, outcome) = Refused("ConstraintViolation")
      BY DEF Judged
    <3> QED
      BY <2>3, <3>1 DEF Refused
  <2> QED
    BY <2>4, <2>5, <2>6
<1> QED
  BY <1>3, <1>5, <1>6, <1>7 DEF Executions
-----------------------------------------------------------------------------
(* A run with a budget, and the same run without one.                        *)
Free(c) == [c EXCEPT !.used = 0, !.maximum = Unbounded]

LEMMA FreeType ==
    ASSUME NEW c \in Configurations
    PROVE  /\ Free(c) \in Configurations
           /\ Free(c).stack = c.stack /\ Free(c).index = c.index /\ Free(c).previous = c.previous
           /\ Free(c).underflow = c.underflow /\ Free(c).decision = c.decision
           /\ Free(c).maximum = Unbounded
  BY DEF Free, Configurations

(* The budget ends the run, or what is charged for is done without it too.   *)
SameFree(c, n, m) == n.decision = "WorkLimitExceeded" \/ m = Free(n)

LEMMA ChargedFree ==
    ASSUME NEW c \in Configurations, NEW cost \in Nat, NEW next \in Configurations
    PROVE  SameFree(c, Charged(c, cost, next), Charged(Free(c), cost, Free(next)))
<1>1. Charged(Free(c), cost, Free(next)) = Free(next)
  BY FreeType DEF Charged
<1>2. CASE c.maximum = Unbounded
  BY <1>1, <1>2 DEF Charged, SameFree
<1>3. CASE c.maximum # Unbounded /\ c.used + cost > c.maximum
  BY <1>3 DEF Charged, SameFree, Configurations
<1>4. CASE c.maximum # Unbounded /\ ~(c.used + cost > c.maximum)
  <2> DEFINE n == [next EXCEPT !.used = c.used + cost]
  <2>1. Charged(c, cost, next) = n
    BY <1>4 DEF Charged
  <2>2. Free(n) = Free(next)
    BY DEF Free, Configurations
  <2> QED
    BY <1>1, <2>1, <2>2 DEF SameFree
<1> QED
  BY <1>2, <1>3, <1>4

LEMMA HaltFree ==
    ASSUME NEW c \in Configurations, NEW decision \in Decisions \cup Failures
    PROVE  Halt(c, decision) \in Configurations /\ Free(Halt(c, decision)) = Halt(Free(c), decision)
<1>1. Halt(c, decision) \in Configurations
  BY HaltMoves
<1>2. Free(Halt(c, decision)) = Halt(Free(c), decision)
  BY DEF Free, Halt, Configurations
<1> QED
  BY <1>1, <1>2

LEMMA NextTerminalFree ==
    ASSUME NEW c \in Configurations, NEW s \in Seq(ParserStates) \ {<<>>}
    PROVE  NextTerminal(c, s) \in Configurations /\ Free(NextTerminal(c, s)) = NextTerminal(Free(c), s)
<1>1. NextTerminal(c, s) \in Configurations
  BY NextTerminalFollows DEF KeepsRun
<1>2. Free(NextTerminal(c, s)) = NextTerminal(Free(c), s)
  BY DEF Free, NextTerminal, Configurations
<1> QED
  BY <1>1, <1>2

LEMMA ReductionFree ==
    ASSUME NEW c \in Configurations, NEW lookup \in Nat,
           NEW cell, cell.production \in Productions, cell.rank \in Nat
    PROVE  SameFree(c, ApplyReduction(c, cell, lookup), ApplyReduction(Free(c), cell, lookup))
<1> DEFINE kept == Len(c.stack) - PopLen[cell.production]
           destination == Goto[c.stack[kept]][Lhs[cell.production]]
<1>1. /\ c.stack \in Seq(ParserStates) \ {<<>>} /\ Len(c.stack) \in Nat
      /\ PopLen[cell.production] \in Nat /\ Lhs[cell.production] \in Nonterminals
  BY LalrAssumption, LenProperties DEF Configurations
<1>2. Free(c).stack = c.stack /\ Free(c).underflow = c.underflow
  BY FreeType
<1>3. CASE kept <= 0
  <2>1. c.underflow \in Decisions \cup Failures /\ lookup + 1 \in Nat
    BY DEF Configurations, Decisions, Failures
  <2>2. /\ ApplyReduction(c, cell, lookup) = Charged(c, lookup + 1, Halt(c, c.underflow))
        /\ ApplyReduction(Free(c), cell, lookup)
             = Charged(Free(c), lookup + 1, Halt(Free(c), c.underflow))
    BY <1>2, <1>3 DEF ApplyReduction
  <2> QED
    BY <2>1, <2>2, HaltFree, ChargedFree
<1>4. CASE kept > 0 /\ destination = NoGoto
  <2>1. /\ ApplyReduction(c, cell, lookup) = Charged(c, lookup + 2, Halt(c, "MissingGoto"))
        /\ ApplyReduction(Free(c), cell, lookup)
             = Charged(Free(c), lookup + 2, Halt(Free(c), "MissingGoto"))
    BY <1>1, <1>2, <1>4 DEF ApplyReduction
  <2>2. "MissingGoto" \in Decisions \cup Failures /\ lookup + 2 \in Nat
    BY DEF Failures
  <2> QED
    BY <2>1, <2>2, HaltFree, ChargedFree
<1>5. CASE kept > 0 /\ destination # NoGoto
  <2> DEFINE n == Reduced(c, kept, cell, destination)
             m == Reduced(Free(c), kept, cell, destination)
             cost == lookup + 3
  <2>1. kept \in 1..Len(c.stack) /\ c.stack[kept] \in ParserStates
    BY <1>1, <1>5, ElementOfSeq
  <2>2. destination \in ParserStates
    BY <1>1, <1>5, <2>1, LalrAssumption
  <2>3. SubSeq(c.stack, 1, kept) \in Seq(ParserStates)
    BY <1>1, <2>1, PopOver, EmptySeq
  <2>4. Append(SubSeq(c.stack, 1, kept), destination) \in Seq(ParserStates) \ {<<>>}
    BY <2>2, <2>3, Pushed
  <2>5. [rank |-> cell.rank, pop_len |-> PopLen[cell.production]]
          \in [rank : Int, pop_len : Nat]
    BY <1>1
  <2>6. n \in Configurations
    BY <2>4, <2>5 DEF Reduced, Configurations
  <2>7. Free(n) = m
    BY <1>2 DEF Free, Reduced, Configurations
  <2>8. /\ ApplyReduction(c, cell, lookup) = Charged(c, cost, n)
        /\ ApplyReduction(Free(c), cell, lookup) = Charged(Free(c), cost, m)
    BY <1>1, <1>2, <1>5 DEF ApplyReduction
  <2>9. cost \in Nat
    OBVIOUS
  <2> HIDE DEF n, m, kept, destination, cost
  <2> QED
    BY <2>6, <2>7, <2>8, <2>9, ChargedFree
<1> QED
  BY <1>1, <1>3, <1>4, <1>5

LEMMA StepFree ==
    ASSUME NEW terminals \in Seq(Terminals), NEW c \in Configurations
    PROVE  SameFree(c, Step(terminals, c), Step(terminals, Free(c)))
<1>1. /\ c.index \in Nat \ {0} /\ Len(terminals) \in Nat
      /\ c.stack \in Seq(ParserStates) \ {<<>>}
  BY LenProperties DEF Configurations
<1>2. /\ Free(c).stack = c.stack /\ Free(c).index = c.index /\ Free(c).previous = c.previous
      /\ Free(c) \in Configurations
  BY FreeType
<1>3. CASE c.index > Len(terminals)
  <2>1. Step(terminals, c) = Halt(c, "Continue") /\ Step(terminals, Free(c)) = Halt(Free(c), "Continue")
    BY <1>1, <1>2, <1>3 DEF Step
  <2> QED
    BY <2>1, HaltFree DEF Decisions, SameFree
<1>4. CASE c.index <= Len(terminals) /\ terminals[c.index] \in Ignored
  <2>1. /\ Step(terminals, c) = Charged(c, 1, NextTerminal(c, c.stack))
        /\ Step(terminals, Free(c)) = Charged(Free(c), 1, NextTerminal(Free(c), c.stack))
    BY <1>1, <1>2, <1>4 DEF Step
  <2> QED
    BY <1>1, <2>1, NextTerminalFree, ChargedFree
<1>5. CASE c.index <= Len(terminals) /\ terminals[c.index] \notin Ignored
  <2> DEFINE cell == Action[Top(c.stack)][terminals[c.index]]
             lookup == IF c.previous = NoReduction THEN 2 ELSE 1
  <2>1. Step(terminals, c) = RunTerminal(terminals, c)
        /\ Step(terminals, Free(c)) = RunTerminal(terminals, Free(c))
    BY <1>1, <1>2, <1>5 DEF Step
  <2>2. Top(c.stack) \in ParserStates /\ terminals[c.index] \in Terminals
    BY <1>1, <1>5, TopAndRest, ElementOfSeq DEF Top
  <2>3. /\ cell.type \in {"error", "accept", "shift", "reduce"}
        /\ cell.type = "shift" => cell.to \in ParserStates
        /\ cell.type = "reduce" => cell.production \in Productions /\ cell.rank \in Nat
    BY <2>2, CellType
  <2>4. lookup \in Nat /\ lookup + 1 \in Nat
    OBVIOUS
  <2> HIDE DEF lookup
  <2>5. CASE cell.type = "error"
    <3>1. /\ RunTerminal(terminals, c) = Charged(c, lookup, Halt(c, "Rejected"))
          /\ RunTerminal(terminals, Free(c)) = Charged(Free(c), lookup, Halt(Free(c), "Rejected"))
      BY <1>2, <2>5 DEF RunTerminal, lookup
    <3> QED
      BY <2>1, <2>4, <3>1, HaltFree, ChargedFree DEF Decisions
  <2>6. CASE cell.type = "shift"
    <3> DEFINE pushed == Append(c.stack, cell.to)
    <3>1. /\ RunTerminal(terminals, c) = Charged(c, lookup + 1, NextTerminal(c, pushed))
          /\ RunTerminal(terminals, Free(c)) = Charged(Free(c), lookup + 1, NextTerminal(Free(c), pushed))
      BY <1>2, <2>6 DEF RunTerminal, lookup
    <3>2. pushed \in Seq(ParserStates) \ {<<>>}
      BY <1>1, <2>3, <2>6, Pushed
    <3> HIDE DEF pushed
    <3> QED
      BY <2>1, <2>4, <3>1, <3>2, NextTerminalFree, ChargedFree
  <2>7. CASE cell.type = "reduce"
    <3>1. CASE Progresses(c.previous, cell.rank)
      <4>1. /\ RunTerminal(terminals, c) = ApplyReduction(c, cell, lookup)
            /\ RunTerminal(terminals, Free(c)) = ApplyReduction(Free(c), cell, lookup)
        BY <1>2, <2>7, <3>1 DEF RunTerminal, lookup
      <4> QED
        BY <2>1, <2>3, <2>4, <2>7, <4>1, ReductionFree
    <3>2. CASE ~Progresses(c.previous, cell.rank)
      <4>1. /\ RunTerminal(terminals, c) = Charged(c, lookup, Halt(c, "InvalidReductionProgress"))
            /\ RunTerminal(terminals, Free(c))
                 = Charged(Free(c), lookup, Halt(Free(c), "InvalidReductionProgress"))
        BY <1>2, <2>7, <3>2 DEF RunTerminal, lookup
      <4> QED
        BY <2>1, <2>4, <4>1, HaltFree, ChargedFree DEF Failures
    <3> QED
      BY <3>1, <3>2
  <2>8. CASE cell.type = "accept"
    <3> DEFINE decision == IF c.index = Len(terminals) THEN "Accepted" ELSE "AcceptBeforeEnd"
    <3>1. /\ RunTerminal(terminals, c) = Charged(c, lookup, Halt(c, decision))
          /\ RunTerminal(terminals, Free(c)) = Charged(Free(c), lookup, Halt(Free(c), decision))
      BY <1>2, <2>8 DEF RunTerminal, lookup
    <3>2. decision \in Decisions \cup Failures
      BY DEF Decisions, Failures
    <3> HIDE DEF decision
    <3> QED
      BY <2>1, <2>4, <3>1, <3>2, HaltFree, ChargedFree
  <2> QED
    BY <2>3, <2>5, <2>6, <2>7, <2>8
<1> QED
  BY <1>1, <1>3, <1>4, <1>5

(* A budget only ever ends a run: one that comes to a decision within its    *)
(* budget decides what it would without any (run_initialized and RunWork).   *)
THEOREM BudgetsDecideNothing ==
    ASSUME NEW terminals \in Seq(Terminals), NEW c \in Configurations,
           Run(terminals, c).decision \in Decisions
    PROVE  Run(terminals, Free(c)).decision = Run(terminals, c).decision
<1> DEFINE Apart(x) == /\ Run(terminals, x).decision \in Decisions
                       /\ Run(terminals, Free(x)).decision # Run(terminals, x).decision
           B == {x \in Configurations : Apart(x)}
<1>1. ASSUME NEW x \in B PROVE Live(x) /\ Step(terminals, x) \in B
  <2> DEFINE n == Step(terminals, x)
             m == Step(terminals, Free(x))
  <2>1. x \in Configurations /\ Free(x) \in Configurations /\ Free(x).decision = x.decision /\ Apart(x)
    BY FreeType
  <2>2. Live(x) /\ Live(Free(x))
    <3> SUFFICES ASSUME ~Live(x) PROVE FALSE
      BY <2>1 DEF Live
    <3>1. Run(terminals, x) = x /\ Run(terminals, Free(x)) = Free(x)
      BY <2>1, RunUnfolds DEF Live
    <3> QED
      BY <2>1, <3>1
  <2>3. Run(terminals, x) = Run(terminals, n) /\ Run(terminals, Free(x)) = Run(terminals, m)
    BY <2>1, <2>2, RunUnfolds
  <2>4. n \in Configurations /\ SameFree(x, n, m)
    BY <2>1, StepType, StepFree
  <2> HIDE DEF n, m
  <2>5. n.decision # "WorkLimitExceeded"
    <3> SUFFICES ASSUME n.decision = "WorkLimitExceeded" PROVE FALSE
      OBVIOUS
    <3>1. Run(terminals, n) = n
      BY <2>4, RunUnfolds DEF Live
    <3> QED
      BY <2>1, <2>3, <3>1 DEF Decisions
  <2>6. m = Free(n)
    BY <2>4, <2>5 DEF SameFree
  <2> QED
    BY <2>1, <2>2, <2>3, <2>4, <2>6 DEF n
<1>2. B \subseteq Configurations
  OBVIOUS
<1>3. c \in B \/ Run(terminals, Free(c)).decision = Run(terminals, c).decision
  OBVIOUS
<1> HIDE DEF B
<1>4. B = {}
  BY <1>1, <1>2, NoEndlessRun
<1> QED
  BY <1>3, <1>4
=============================================================================
