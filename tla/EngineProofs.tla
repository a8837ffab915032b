---------------------------- MODULE EngineProofs ----------------------------
(* Why the matcher may trust the tables, and what it then keeps. An          *)
(* iteration of the symbolic run and one of the concrete run, on stacks of   *)
(* which one is the upper part of the other, do the same thing unless the    *)
(* iteration pops the symbolic base (StepAligned), so that a decision stored *)
(* for a state holds on every stack (TableIsExact). If the ranks of the      *)
(* table fall along the edges that lr.rs draws, neither is ever stopped by   *)
(* check_reduction_progress (StepProgressing); if the table also is one that *)
(* an automaton of items can have, neither meets any other inconsistency     *)
(* (StepFits), and all that a grammar must have been to be prepared follows  *)
(* (AutomatonIsClassified, AutomatonNeverCorrupt).                           *)
(*                                                                           *)
(* What the tables say of a row is what single runs of the lexer and of the  *)
(* parser on its whole stack say (TablesAreTheReference): the singletons are *)
(* what some continuation makes the lexer emit first (SingletonsAreFirsts),  *)
(* and a token that some head lets through is one that some terminal can     *)
(* follow.                                                                   *)
(*                                                                           *)
(* The matcher implements its contract whatever the grammar, the number of   *)
(* rows, the calls and the stacks that a failed call may leave               *)
(* (MatcherIsAtomic): nothing is used there of a row's outcome or mask but   *)
(* that there is one. Its rows then stay what one outcome makes of them      *)
(* (MatcherIsTyped, RowsKeepPaths), so that on them the mask and the advance *)
(* agree (MasksGrant), and with the reference (MasksAreTheReference), and    *)
(* the contract is that of the reference (MatcherIsExact).                   *)
EXTENDS EngineChecks, Classification, Lowering, PreparedProofs
-----------------------------------------------------------------------------
(* The specification.                                                        *)

(* A decided symbolic run and the concrete one agree.                        *)
Decided ==
    /\ sym.decision = "Rejected" =>
         con.decision = "Rejected" /\ verdict \in {"pending", "denied"}
    /\ sym.decision \in {"Continue", "Accepted"} =>
         /\ part = "probe" /\ con.decision = sym.decision
         /\ verdict \in {"pending", "allowed"}
    /\ Running(con) => verdict = "pending"
    /\ sym.underflow = "Dependent" /\ con.maximum = Unbounded

(* The inductive invariant.                                                  *)
IInv == ClassificationTypeOK /\ Aligned /\ Decided

(* The initial states satisfy the invariant.                                 *)
LEMMA InitIInv == ClassificationInit => IInv
<1> SUFFICES ASSUME ClassificationInit PROVE IInv
    OBVIOUS
<1>1. /\ head \in Seq(Terminals) \ {<<>>} /\ stack \in Seq(ParserStates) \ {<<>>}
      /\ part = "direct" /\ verdict = "pending"
    BY ClassificationAssumption DEF ClassificationInit
<1>2. PICK limit \in Limits : sym = BeginSymbolic(Top(stack), limit)
    BY DEF ClassificationInit
<1>3. con = BeginConcrete(stack)
    BY DEF ClassificationInit
<1>4. /\ Top(stack) \in ParserStates /\ Below \in Seq(ParserStates)
      /\ stack = Below \o <<Top(stack)>> /\ Len(stack) \in Nat
    BY <1>1, TopAndRest DEF Top, Below
<1>5. sym \in Configurations /\ sym.stack = <<Top(stack)>> /\ sym.stack # <<>>
      /\ sym.index = 1 /\ sym.previous = NoReduction /\ sym.decision = "running"
      /\ sym.underflow = "Dependent"
    <2>1. limit \in Nat \cup {Unbounded}
        BY ClassificationAssumption
    <2>2. <<Top(stack)>> \in Seq(ParserStates) /\ Len(<<Top(stack)>>) \in Nat
        BY <1>4
    <2> QED
        BY <1>2, <2>1, <2>2 DEF BeginSymbolic, Begin, Configurations, NoReduction
<1>6. con \in Configurations /\ con.stack = stack /\ con.index = 1
      /\ con.previous = NoReduction /\ con.decision = "running" /\ con.maximum = Unbounded
    BY <1>1, <1>3, <1>4 DEF BeginConcrete, Begin, Configurations, NoReduction, Unbounded
<1>7. ClassificationTypeOK
    BY <1>1, <1>5, <1>6 DEF ClassificationTypeOK
<1>8. Aligned
    <2>1. Len(Direct(head)) \in Nat
        BY <1>1, HeadParts
    <2> QED
        BY <1>1, <1>4, <1>5, <1>6, <2>1 DEF Aligned, ConTerminals, PrefixDone, Running
<1>9. Decided
    BY <1>1, <1>5, <1>6 DEF Decided, Running
<1> QED
    BY <1>7, <1>8, <1>9 DEF IInv

(* Every action keeps the type.                                              *)
LEMMA NextTypeOK == ClassificationTypeOK /\ ClassificationNext => ClassificationTypeOK'
<1> SUFFICES ASSUME ClassificationTypeOK, ClassificationNext PROVE ClassificationTypeOK'
    OBVIOUS
<1> USE DEF ClassificationTypeOK
<1>1. /\ Direct(head) \in Seq(Terminals) /\ Probe(head) \in Seq(Terminals)
      /\ ConTerminals \in Seq(Terminals)
    BY HeadParts DEF ConTerminals
<1>2. CASE StartProbe
    <2>1. con.stack \in Seq(ParserStates) \ {<<>>}
        BY DEF Configurations
    <2>2. BeginConcrete(con.stack) \in Configurations
        BY <2>1 DEF BeginConcrete, Begin, Configurations, NoReduction, Unbounded
    <2>3. BeginConcrete(con.stack).stack = con.stack
        BY DEF BeginConcrete, Begin
    <2> QED
        BY <1>2, <2>1, <2>2, <2>3 DEF StartProbe
<1>3. CASE StepBoth
    <2>1. Step(head, sym) \in Configurations /\ Step(head, sym).stack # <<>>
        BY StepFollows DEF KeepsRun
    <2>2. Step(ConTerminals, con) \in Configurations /\ Step(ConTerminals, con).stack # <<>>
        BY <1>1, StepFollows DEF KeepsRun
    <2> QED
        BY <1>3, <2>1, <2>2 DEF StepBoth
<1>4. CASE StepConcrete
    <2>1. Step(ConTerminals, con) \in Configurations /\ Step(ConTerminals, con).stack # <<>>
        BY <1>1, StepFollows DEF KeepsRun
    <2> QED
        BY <1>4, <2>1 DEF StepConcrete
<1>5. CASE Answer
    BY <1>5 DEF Answer, HeadVerdict
<1> QED
    BY <1>2, <1>3, <1>4, <1>5 DEF ClassificationNext

(* A step of both runs keeps them aligned until the symbolic run decides,    *)
(* and then they decide alike.                                               *)
LEMMA StepBothIInv == IInv /\ StepBoth => Aligned' /\ Decided'
<1> SUFFICES ASSUME IInv, StepBoth PROVE Aligned' /\ Decided'
    OBVIOUS
<1> DEFINE shift == IF part = "direct" THEN 0 ELSE Len(head) - 1
<1>1. /\ ClassificationTypeOK /\ Aligned /\ Decided
      /\ sym.decision = "running" /\ con.decision = "running" /\ ~PrefixDone
      /\ sym' = Step(head, sym) /\ con' = Step(ConTerminals, con)
      /\ UNCHANGED <<head, stack, part, verdict>>
    BY DEF IInv, StepBoth, Running
<1>2. /\ head \in Seq(Terminals) \ {<<>>} /\ ConTerminals \in Seq(Terminals)
      /\ Len(head) \in Nat \ {0} /\ Len(ConTerminals) \in Nat
      /\ part \in {"direct", "probe"}
      /\ sym \in Configurations /\ con \in Configurations
      /\ sym.index \in Nat \ {0} /\ con.index \in Nat \ {0}
    <2>1. /\ head \in Seq(Terminals) \ {<<>>} /\ part \in {"direct", "probe"}
          /\ sym \in Configurations /\ con \in Configurations
        BY <1>1 DEF ClassificationTypeOK
    <2>2. sym.index \in Nat \ {0} /\ con.index \in Nat \ {0}
        BY <2>1 DEF Configurations
    <2>3. Len(head) \in Nat \ {0} /\ ConTerminals \in Seq(Terminals)
        BY <2>1, HeadParts DEF ConTerminals
    <2>4. Len(ConTerminals) \in Nat
        BY <2>3, LenProperties
    <2> QED
        BY <2>1, <2>2, <2>3, <2>4
<1>3. /\ Below \in Seq(ParserStates)
      /\ con.stack = Below \o sym.stack /\ con.previous = sym.previous
      /\ sym.index = con.index + shift
      /\ con.index <= Len(ConTerminals) + 1
      /\ sym.underflow = "Dependent" /\ con.maximum = Unbounded /\ verdict = "pending"
    BY <1>1, TopAndRest DEF ClassificationTypeOK, Aligned, Decided, Running, Below
<1>4. AlignedOver(Below, sym, con)
    BY <1>1, <1>2, <1>3 DEF AlignedOver, ClassificationTypeOK
<1>5. sym'.underflow = sym.underflow /\ con'.maximum = con.maximum
    BY <1>1, <1>2, StepFollows DEF ClassificationTypeOK, KeepsRun
<1>6. CASE con.index > Len(ConTerminals)
    <2>1. part = "probe"
        BY <1>1, <1>2, <1>6 DEF PrefixDone, ConTerminals
    <2>2. Len(ConTerminals) = 1
        BY <1>2, <2>1, HeadParts DEF ConTerminals
    <2>3. con.index = 2
        BY <1>2, <1>3, <1>6, <2>2
    <2>4. sym.index > Len(head)
        BY <1>2, <1>3, <2>1, <2>3
    <2>5. sym'.decision = "Continue" /\ con'.decision = "Continue"
        BY <1>1, <1>2, <1>6, <2>4 DEF Step, Halt, Configurations
    <2> QED
        BY <1>1, <1>3, <1>5, <2>1, <2>5 DEF Aligned, Decided, Running
<1>7. CASE con.index <= Len(ConTerminals)
    <2>1. /\ sym.index <= Len(head) /\ head[sym.index] = ConTerminals[con.index]
          /\ part = "direct" => sym.index < Len(head)
          /\ part = "probe" => con.index = Len(ConTerminals)
        <3>1. CASE part = "direct"
            <4>1. /\ ConTerminals = Direct(head) /\ Len(ConTerminals) = Len(head) - 1
                  /\ \A k \in 1..Len(head) - 1 : ConTerminals[k] = head[k]
                BY <1>2, <3>1, HeadParts DEF ConTerminals
            <4>2. sym.index = con.index /\ con.index \in 1..Len(head) - 1
                BY <1>2, <1>3, <1>7, <3>1, <4>1
            <4> QED
                BY <1>2, <3>1, <4>1, <4>2
        <3>2. CASE part = "probe"
            <4>1. Len(ConTerminals) = 1 /\ ConTerminals[1] = head[Len(head)]
                BY <1>2, <3>2, HeadParts DEF ConTerminals
            <4>2. con.index = 1 /\ sym.index = Len(head)
                BY <1>2, <1>3, <1>7, <3>2, <4>1
            <4> QED
                BY <1>2, <3>2, <4>1, <4>2
        <3> QED
            BY <1>2, <3>1, <3>2
    <2>2. SameStep(Below, sym, con, sym', con', Len(head), Len(ConTerminals))
        BY <1>1, <1>2, <1>3, <1>4, <1>7, <2>1, StepAligned
    <2>3. sym'.index \in Nat /\ con'.index \in Nat
        BY <1>1, <1>2, StepFollows DEF ClassificationTypeOK, Configurations, KeepsRun
    <2>4. Aligned'
        <3> SUFFICES ASSUME sym'.decision = "running"
                     PROVE  /\ con'.decision = "running"
                            /\ con'.stack = Below \o sym'.stack
                            /\ con'.previous = sym'.previous
                            /\ sym'.index = con'.index + shift
                            /\ con'.index <= Len(ConTerminals) + 1
                            /\ PrefixDone' => con'.previous = NoReduction
            BY <1>1 DEF Aligned, Running, Below, ConTerminals
        <3>1. /\ con'.decision = "running" /\ con'.stack = Below \o sym'.stack
              /\ con'.previous = sym'.previous
              /\ sym'.index - sym.index = con'.index - con.index
              /\ \/ con'.index = con.index
                 \/ con'.index = con.index + 1 /\ con'.previous = NoReduction
            BY <2>2 DEF SameStep
        <3>2. sym'.index = con'.index + shift /\ con'.index <= Len(ConTerminals) + 1
            <4>1. /\ sym.index \in Nat /\ con.index \in Nat /\ shift \in Nat /\ Len(ConTerminals) \in Nat
                  /\ sym.index = con.index + shift
                BY <1>2, <1>3
            <4> HIDE DEF shift
            <4>2. con'.index = con.index \/ con'.index = con.index + 1
                BY <3>1
            <4>3. sym'.index - sym.index = con'.index - con.index
                BY <3>1
            <4> QED
                BY <1>7, <2>3, <4>1, <4>2, <4>3
        <3>3. PrefixDone' => con'.previous = NoReduction
            BY <1>1, <1>2, <3>1 DEF PrefixDone
        <3> QED
            BY <3>1, <3>2, <3>3
    <2>5. Decided'
        <3>1. sym'.decision = "Rejected" => con'.decision = "Rejected"
            BY <2>2 DEF SameStep
        <3>2. sym'.decision = "Accepted" => part = "probe" /\ con'.decision = "Accepted"
            BY <1>2, <2>1, <2>2 DEF SameStep
        <3>3. sym'.decision # "Continue"
            BY <2>2 DEF SameStep
        <3> QED
            BY <1>1, <1>3, <1>5, <3>1, <3>2, <3>3 DEF Decided, Running
    <2> QED
        BY <2>4, <2>5
<1> QED
    BY <1>2, <1>6, <1>7

(* The actions of the concrete run alone, and stuttering, keep the rest.     *)
LEMMA OthersIInv ==
    IInv /\ (StartProbe \/ StepConcrete \/ Answer \/ UNCHANGED runVars) => Aligned' /\ Decided'
<1> SUFFICES ASSUME IInv, StartProbe \/ StepConcrete \/ Answer \/ UNCHANGED runVars
             PROVE  Aligned' /\ Decided'
    OBVIOUS
<1>1. ClassificationTypeOK /\ Aligned /\ Decided
    BY DEF IInv
<1>2. /\ head \in Seq(Terminals) \ {<<>>} /\ Len(head) \in Nat \ {0}
      /\ Len(Direct(head)) = Len(head) - 1 /\ Len(Probe(head)) = 1
      /\ con \in Configurations /\ con.index \in Nat \ {0} /\ part \in {"direct", "probe"}
    BY <1>1, HeadParts DEF ClassificationTypeOK, Configurations
<1>3. CASE StartProbe
    <2>1. /\ con.decision = "running" /\ part = "direct" /\ con.index > Len(head) - 1
          /\ con' = BeginConcrete(con.stack) /\ part' = "probe"
          /\ UNCHANGED <<head, stack, sym, verdict>>
        BY <1>2, <1>3 DEF StartProbe, Running, PrefixDone
    <2>2. /\ con'.stack = con.stack /\ con'.index = 1 /\ con'.previous = NoReduction
          /\ con'.decision = "running" /\ con'.maximum = Unbounded
        BY <2>1 DEF BeginConcrete, Begin
    <2>3. Aligned'
        <3> SUFFICES ASSUME sym.decision = "running"
                     PROVE  /\ con'.stack = Below \o sym.stack
                            /\ con'.previous = sym.previous
                            /\ sym.index = con'.index + (Len(head) - 1)
                            /\ con'.index <= Len(Probe(head)) + 1
            BY <2>1, <2>2 DEF Aligned, Running, Below, ConTerminals, PrefixDone
        <3>1. /\ con.stack = Below \o sym.stack /\ con.previous = sym.previous
              /\ sym.index = con.index + 0
              /\ con.index <= Len(Direct(head)) + 1
              /\ con.previous = NoReduction
            BY <1>1, <1>3, <2>1 DEF Aligned, Running, StartProbe, ConTerminals
        <3> QED
            BY <1>2, <2>1, <2>2, <3>1
    <2>4. Decided'
        BY <1>1, <2>1, <2>2 DEF Decided, Running
    <2> QED
        BY <2>3, <2>4
<1>4. CASE StepConcrete
    <2>1. /\ sym.decision # "running" /\ con.decision = "running"
          /\ con' = Step(ConTerminals, con) /\ UNCHANGED <<head, stack, sym, part, verdict>>
        BY <1>4 DEF StepConcrete, Running
    <2>2. con'.maximum = con.maximum
        <3>1. ConTerminals \in Seq(Terminals)
            BY <1>2, HeadParts DEF ConTerminals
        <3> QED
            BY <1>1, <2>1, <3>1, StepFollows DEF ClassificationTypeOK, KeepsRun
    <2>3. sym.decision \notin {"Rejected", "Continue", "Accepted"}
        BY <1>1, <2>1 DEF Decided
    <2> QED
        BY <1>1, <2>1, <2>2, <2>3 DEF Aligned, Decided, Running
<1>5. CASE Answer
    <2>1. /\ con.decision # "running" /\ UNCHANGED <<head, stack, sym, con, part>>
          /\ verdict' = IF part = "direct" /\ con.decision # "Rejected" THEN "failed"
                        ELSE HeadVerdict(con.decision)
        BY <1>5 DEF Answer, Running
    <2>2. sym.decision # "running"
        BY <1>1, <2>1 DEF Aligned, Running
    <2>3. con.decision = "Rejected" => verdict' = "denied"
        BY <2>1 DEF HeadVerdict
    <2>4. part = "probe" /\ con.decision \in {"Continue", "Accepted"} => verdict' = "allowed"
        BY <2>1 DEF HeadVerdict
    <2> QED
        BY <1>1, <2>1, <2>2, <2>3, <2>4 DEF Aligned, Decided, Running
<1>6. CASE UNCHANGED runVars
    BY <1>1, <1>6 DEF runVars, Aligned, Decided, Running, Below, ConTerminals, PrefixDone
<1> QED
    BY <1>3, <1>4, <1>5, <1>6

(* The invariant is inductive.                                               *)
LEMMA NextIInv == IInv /\ [ClassificationNext]_runVars => IInv'
<1> SUFFICES ASSUME IInv, [ClassificationNext]_runVars PROVE IInv'
    OBVIOUS
<1>1. ClassificationTypeOK'
    <2>1. CASE ClassificationNext
        BY <2>1, NextTypeOK DEF IInv
    <2>2. CASE UNCHANGED runVars
        BY <2>2 DEF IInv, ClassificationTypeOK, runVars
    <2> QED
        BY <2>1, <2>2
<1>2. Aligned' /\ Decided'
    BY StepBothIInv, OthersIInv DEF ClassificationNext
<1> QED
    BY <1>1, <1>2 DEF IInv

(* The invariant implies that the table is exact.                            *)
LEMMA IInvExact == IInv => ExactClassification
<1> SUFFICES ASSUME IInv, verdict # "pending", sym.decision \in Decisions
             PROVE  CASE Classify(sym.decision) = "AlwaysReadable" -> verdict = "allowed"
                      [] Classify(sym.decision) = "Rejected"       -> verdict = "denied"
                      [] Classify(sym.decision) = "Dependent"      -> TRUE
    BY DEF ExactClassification
<1>1. CASE sym.decision = "Rejected"
    BY <1>1 DEF IInv, Decided, Classify
<1>2. CASE sym.decision \in {"Continue", "Accepted"}
    BY <1>2 DEF IInv, Decided, Classify
<1>3. CASE sym.decision = "Dependent"
    BY <1>3 DEF Classify
<1> QED
    BY <1>1, <1>2, <1>3 DEF Decisions

(* Every variable of every behaviour has its type: no run empties its stack, *)
(* whatever the table (lalr.rs, stack_top never fails).                      *)
THEOREM TypeCorrect == ClassificationSpec => []ClassificationTypeOK
<1>1. ClassificationInit => ClassificationTypeOK
    BY InitIInv DEF IInv
<1>2. ClassificationTypeOK /\ [ClassificationNext]_runVars => ClassificationTypeOK'
    BY NextTypeOK DEF ClassificationTypeOK, runVars
<1> QED
    BY <1>1, <1>2, PTL DEF ClassificationSpec

(* The symbolic and the concrete run stay the same run until one pops the    *)
(* symbolic base, for every table.                                           *)
THEOREM AlignedRuns == ClassificationSpec => []Aligned
<1>1. IInv => Aligned
    BY DEF IInv
<1> QED
    BY <1>1, InitIInv, NextIInv, PTL DEF ClassificationSpec

(* A classification other than "Dependent" holds on every stack with the     *)
(* classified state on top, for every table, head, stack and work limit.     *)
THEOREM TableIsExact == ClassificationSpec => []ExactClassification
<1> QED
    BY InitIInv, NextIInv, IInvExact, PTL DEF ClassificationSpec
-----------------------------------------------------------------------------
(* The ranks.  While a run goes on, its last reduction on this terminal was  *)
(* that of a cell from which the state now on top is a destination (Earned), *)
(* so the next one is among that cell's successors.                          *)

(* The last reduction of a run that goes on leads to where the run is.       *)
Earned(terminals, c) ==
    c.decision = "running" /\ c.previous # NoReduction =>
      \E cell \in Cells :
        /\ cell[2] = terminals[c.index]
        /\ c.previous = [rank |-> StoredRank(cell), pop_len |-> PopLen[ProductionAt(cell)]]
        /\ Top(c.stack) \in Destinations(cell)

Progressing(terminals, c) ==
    Earned(terminals, c) /\ c.decision # "InvalidReductionProgress"

-----------------------------------------------------------------------------
(* Charging, stopping and going on to the next terminal keep it.             *)
LEMMA ChargedProgressing ==
    ASSUME NEW terminals, NEW c \in Configurations, NEW cost \in Nat,
           NEW next \in Configurations, Progressing(terminals, next)
    PROVE  Progressing(terminals, Charged(c, cost, next))
<1> DEFINE n == Charged(c, cost, next)
<1>1. \/ n.decision = "WorkLimitExceeded"
      \/ /\ n.decision = next.decision /\ n.stack = next.stack
         /\ n.previous = next.previous /\ n.index = next.index
    BY ChargedCases
<1> HIDE DEF n
<1>2. Progressing(terminals, n)
    BY <1>1 DEF Progressing, Earned
<1> QED
    BY <1>2 DEF n

LEMMA HaltProgressing ==
    ASSUME NEW terminals, NEW c \in Configurations, c.stack # <<>>,
           NEW decision \in (Decisions \cup Failures) \ {"InvalidReductionProgress"}
    PROVE  Halt(c, decision) \in Configurations /\ Progressing(terminals, Halt(c, decision))
<1>1. Halt(c, decision) \in Configurations
    BY HaltFollows DEF KeepsRun
<1>2. Halt(c, decision).decision = decision /\ decision # "running"
    BY DEF Halt, Configurations, Decisions, Failures
<1> QED
    BY <1>1, <1>2 DEF Progressing, Earned

LEMMA NextTerminalProgressing ==
    ASSUME NEW terminals, NEW c \in Configurations, c.decision = "running",
           NEW s \in Seq(ParserStates), s # <<>>
    PROVE  NextTerminal(c, s) \in Configurations /\ Progressing(terminals, NextTerminal(c, s))
<1>1. NextTerminal(c, s) \in Configurations
    BY NextTerminalFollows DEF KeepsRun
<1>2. NextTerminal(c, s).previous = NoReduction /\ NextTerminal(c, s).decision = "running"
    BY DEF NextTerminal, Configurations
<1> QED
    BY <1>1, <1>2 DEF Progressing, Earned

(* A reduction goes to a destination of its cell.                            *)
LEMMA ReductionProgressing ==
    ASSUME NEW terminals \in Seq(Terminals), NEW c \in Configurations, c.stack # <<>>,
           c.decision = "running", NEW lookup \in Nat, NEW cell \in Cells,
           cell = <<Top(c.stack), terminals[c.index]>>
    PROVE  Progressing(terminals, ApplyReduction(c, Action[cell[1]][cell[2]], lookup))
<1> DEFINE entry == Action[cell[1]][cell[2]]
           kept == Len(c.stack) - PopLen[entry.production]
           destination == Goto[c.stack[kept]][Lhs[entry.production]]
<1>1. /\ cell[1] \in ParserStates /\ cell[2] \in Terminals
      /\ cell[1] = Top(c.stack) /\ cell[2] = terminals[c.index]
      /\ entry.production \in Productions /\ entry.rank \in Nat
      /\ entry.production = ProductionAt(cell) /\ entry.rank = StoredRank(cell)
    BY CellType DEF Cells, ProductionAt, StoredRank
<1>2. /\ c.stack \in Seq(ParserStates) \ {<<>>} /\ Len(c.stack) \in Nat
      /\ PopLen[entry.production] \in Nat /\ Lhs[entry.production] \in Nonterminals
    BY <1>1, LalrAssumption, LenProperties DEF Configurations
<1> HIDE DEF entry
<1>3. CASE kept <= 0
    <2>1. /\ c.underflow \in (Decisions \cup Failures) \ {"InvalidReductionProgress"}
          /\ lookup + 1 \in Nat
        BY DEF Configurations, Decisions, Failures
    <2>2. ApplyReduction(c, entry, lookup) = Charged(c, lookup + 1, Halt(c, c.underflow))
        BY <1>3 DEF ApplyReduction
    <2> QED
        BY <2>1, <2>2, HaltProgressing, ChargedProgressing DEF entry
<1>4. CASE kept > 0 /\ destination = NoGoto
    <2>1. ApplyReduction(c, entry, lookup) = Charged(c, lookup + 2, Halt(c, "MissingGoto"))
        BY <1>2, <1>4 DEF ApplyReduction
    <2>2. /\ "MissingGoto" \in (Decisions \cup Failures) \ {"InvalidReductionProgress"}
          /\ lookup + 2 \in Nat
        BY DEF Failures
    <2> QED
        BY <2>1, <2>2, HaltProgressing, ChargedProgressing DEF entry
<1>5. CASE kept > 0 /\ destination # NoGoto
    <2> DEFINE n == Reduced(c, kept, entry, destination)
    <2>1. kept \in 1..Len(c.stack) /\ c.stack[kept] \in ParserStates
        BY <1>2, <1>5, ElementOfSeq
    <2>2. destination \in ParserStates
        BY <1>2, <1>5, <2>1, LalrAssumption
    <2>3. SubSeq(c.stack, 1, kept) \in Seq(ParserStates)
        BY <1>2, <2>1, PopOver, EmptySeq
    <2>4. /\ Append(SubSeq(c.stack, 1, kept), destination) \in Seq(ParserStates) \ {<<>>}
          /\ Top(Append(SubSeq(c.stack, 1, kept), destination)) = destination
        BY <2>2, <2>3, Pushed
    <2>5. [rank |-> entry.rank, pop_len |-> PopLen[entry.production]]
            \in [rank : Int, pop_len : Nat]
        BY <1>1, <1>2
    <2>6. /\ n \in Configurations
          /\ n.stack = Append(SubSeq(c.stack, 1, kept), destination)
          /\ n.previous = [rank |-> entry.rank, pop_len |-> PopLen[entry.production]]
          /\ n.index = c.index /\ n.decision = c.decision
        BY <2>4, <2>5 DEF Reduced, Configurations
    <2>7. destination \in Destinations(cell)
        <3>1. PopLen[entry.production] = 0 => c.stack[kept] = cell[1]
            BY <1>1, <1>2 DEF Top
        <3>2. c.stack[kept] \in Bases(cell)
            BY <1>1, <2>1, <3>1 DEF Bases
        <3> QED
            BY <1>1, <1>5, <3>2 DEF Destinations
    <2>8. Progressing(terminals, n)
        BY <1>1, <2>4, <2>6, <2>7 DEF Progressing, Earned
    <2> DEFINE cost == lookup + 3
    <2>9. ApplyReduction(c, entry, lookup) = Charged(c, cost, n)
        BY <1>2, <1>5 DEF ApplyReduction
    <2>10. n \in Configurations
        BY <2>6
    <2> HIDE DEF n, kept, destination
    <2>11. cost \in Nat
        OBVIOUS
    <2> HIDE DEF cost
    <2>12. Progressing(terminals, Charged(c, cost, n))
        BY <2>8, <2>10, <2>11, ChargedProgressing
    <2>13. Progressing(terminals, ApplyReduction(c, entry, lookup))
        BY <2>9, <2>12
    <2> QED
        BY <2>13 DEF entry
<1> QED
    BY <1>2, <1>3, <1>4, <1>5

(* With justified ranks an iteration is never refused by the ranks.          *)
LEMMA StepProgressing ==
    ASSUME RanksJustified,
           NEW terminals \in Seq(Terminals), NEW c \in Configurations, c.stack # <<>>,
           c.decision = "running", Progressing(terminals, c)
    PROVE  Progressing(terminals, Step(terminals, c))
<1>1. /\ c.index \in Nat \ {0} /\ Len(terminals) \in Nat
      /\ c.stack \in Seq(ParserStates) \ {<<>>}
    BY LenProperties DEF Configurations
<1>2. CASE c.index > Len(terminals)
    <2>1. Step(terminals, c) = Halt(c, "Continue")
        BY <1>1, <1>2 DEF Step
    <2> QED
        BY <2>1, HaltProgressing DEF Decisions
<1>3. CASE c.index <= Len(terminals) /\ terminals[c.index] \in Ignored
    <2>1. Step(terminals, c) = Charged(c, 1, NextTerminal(c, c.stack))
        BY <1>1, <1>3 DEF Step
    <2> QED
        BY <1>1, <2>1, NextTerminalProgressing, ChargedProgressing
<1>4. CASE c.index <= Len(terminals) /\ terminals[c.index] \notin Ignored
    <2> DEFINE at == <<Top(c.stack), terminals[c.index]>>
               cell == Action[Top(c.stack)][terminals[c.index]]
               lookup == IF c.previous = NoReduction THEN 2 ELSE 1
    <2>1. Step(terminals, c) = RunTerminal(terminals, c)
        BY <1>1, <1>4 DEF Step
    <2>2. Top(c.stack) \in ParserStates /\ terminals[c.index] \in Terminals
        BY <1>1, <1>4, TopAndRest, ElementOfSeq DEF Top
    <2>3. /\ cell.type \in {"error", "accept", "shift", "reduce"}
          /\ cell.type = "shift" => cell.to \in ParserStates
          /\ cell.type = "reduce" => cell.production \in Productions /\ cell.rank \in Nat
        BY <2>2, CellType
    <2>4. lookup \in Nat /\ lookup + 1 \in Nat
        OBVIOUS
    <2> HIDE DEF lookup
    <2>5. CASE cell.type = "error"
        <3>1. RunTerminal(terminals, c) = Charged(c, lookup, Halt(c, "Rejected"))
            BY <2>5 DEF RunTerminal, lookup
        <3> QED
            BY <2>1, <2>4, <3>1, HaltProgressing, ChargedProgressing DEF Decisions
    <2>6. CASE cell.type = "shift"
        <3>1. RunTerminal(terminals, c)
                = Charged(c, lookup + 1, NextTerminal(c, Append(c.stack, cell.to)))
            BY <2>6 DEF RunTerminal, lookup
        <3>2. Append(c.stack, cell.to) \in Seq(ParserStates) /\ Append(c.stack, cell.to) # <<>>
            BY <1>1, <2>3, <2>6, AppendProperties
        <3> QED
            BY <2>1, <2>4, <3>1, <3>2, NextTerminalProgressing, ChargedProgressing
    <2>7. CASE cell.type = "reduce"
        <3>1. RunTerminal(terminals, c)
                = IF Progresses(c.previous, cell.rank) THEN ApplyReduction(c, cell, lookup)
                  ELSE Charged(c, lookup, Halt(c, "InvalidReductionProgress"))
            BY <2>7 DEF RunTerminal, lookup
        <3>2. at \in Cells /\ StoredRank(at) = cell.rank
            BY <2>2, <2>7 DEF Cells, StoredRank
        <3>3. Progresses(c.previous, cell.rank)
            <4>1. CASE c.previous = NoReduction
                BY <4>1 DEF Progresses
            <4>2. CASE c.previous # NoReduction
                <5>1. PICK last \in Cells :
                         /\ last[2] = terminals[c.index]
                         /\ c.previous = [rank |-> StoredRank(last),
                                          pop_len |-> PopLen[ProductionAt(last)]]
                         /\ Top(c.stack) \in Destinations(last)
                    BY <4>2 DEF Progressing, Earned
                <5>2. at \in Successors(last)
                    BY <3>2, <5>1 DEF Successors
                <5>3. \/ StoredRank(at) < StoredRank(last)
                      \/ StoredRank(at) = StoredRank(last) /\ ~Strict(last)
                    BY <5>1, <5>2 DEF RanksJustified
                <5>4. PopLen[ProductionAt(last)] \in Nat
                    BY LalrAssumption, CellType DEF Cells, ProductionAt
                <5>5. /\ c.previous.rank = StoredRank(last)
                      /\ c.previous.pop_len = PopLen[ProductionAt(last)]
                    BY <5>1
                <5>6. StoredRank(last) \in Nat /\ cell.rank \in Nat
                    BY <2>3, <2>7, CellType DEF Cells, StoredRank
                <5> QED
                    BY <3>2, <5>3, <5>4, <5>5, <5>6 DEF Progresses, Strict
            <4> QED
                BY <4>1, <4>2
        <3>4. Progressing(terminals, ApplyReduction(c, cell, lookup))
            BY <2>4, <3>2, ReductionProgressing
        <3> QED
            BY <2>1, <3>1, <3>3, <3>4
    <2>8. CASE cell.type = "accept"
        <3>1. RunTerminal(terminals, c)
                = Charged(c, lookup, Halt(c, IF c.index = Len(terminals) THEN "Accepted"
                                             ELSE "AcceptBeforeEnd"))
            BY <2>8 DEF RunTerminal, lookup
        <3> QED
            BY <2>1, <2>4, <3>1, HaltProgressing, ChargedProgressing DEF Decisions, Failures
    <2> QED
        BY <2>3, <2>5, <2>6, <2>7, <2>8
<1> QED
    BY <1>1, <1>2, <1>3, <1>4
-----------------------------------------------------------------------------
(* Both runs of Classification progress.                                     *)
BothProgress == ClassificationTypeOK /\ Progressing(head, sym) /\ Progressing(ConTerminals, con)

(* New runs have made no reduction yet.                                      *)
LEMMA BeginProgressing ==
    ASSUME NEW terminals, NEW s, NEW underflow, NEW maximum
    PROVE  Progressing(terminals, Begin(s, underflow, maximum))
BY DEF Begin, Progressing, Earned

LEMMA InitProgress == ClassificationInit => BothProgress
<1> SUFFICES ASSUME ClassificationInit PROVE BothProgress
    OBVIOUS
<1>1. ClassificationTypeOK
    BY InitIInv DEF IInv
<1>2. Progressing(head, sym) /\ Progressing(ConTerminals, con)
    BY BeginProgressing DEF ClassificationInit, BeginSymbolic, BeginConcrete
<1> QED
    BY <1>1, <1>2 DEF BothProgress

LEMMA NextProgress ==
    ASSUME RanksJustified PROVE BothProgress /\ [ClassificationNext]_runVars => BothProgress'
<1> SUFFICES ASSUME BothProgress, [ClassificationNext]_runVars PROVE BothProgress'
    OBVIOUS
<1>1. /\ ClassificationTypeOK /\ Progressing(head, sym) /\ Progressing(ConTerminals, con)
      /\ head \in Seq(Terminals) /\ ConTerminals \in Seq(Terminals)
      /\ sym \in Configurations /\ con \in Configurations
      /\ sym.stack # <<>> /\ con.stack # <<>>
    BY HeadParts DEF BothProgress, ClassificationTypeOK, ConTerminals
<1>2. ClassificationTypeOK'
    BY <1>1, NextTypeOK DEF ClassificationTypeOK, runVars
<1>3. CASE StartProbe
    <2>1. Progressing(ConTerminals', con')
        BY <1>3, BeginProgressing DEF StartProbe, BeginConcrete
    <2> QED
        BY <1>1, <1>2, <1>3, <2>1 DEF StartProbe, BothProgress
<1>4. CASE StepBoth
    <2>1. Progressing(head, sym')
        BY <1>1, <1>4, StepProgressing DEF StepBoth, Running
    <2>2. Progressing(ConTerminals, con')
        BY <1>1, <1>4, StepProgressing DEF StepBoth, Running
    <2> QED
        BY <1>2, <1>4, <2>1, <2>2 DEF StepBoth, BothProgress, ConTerminals
<1>5. CASE StepConcrete
    <2>1. Progressing(ConTerminals, con')
        BY <1>1, <1>5, StepProgressing DEF StepConcrete, Running
    <2> QED
        BY <1>1, <1>2, <1>5, <2>1 DEF StepConcrete, BothProgress, ConTerminals
<1>6. CASE Answer
    BY <1>1, <1>2, <1>6 DEF Answer, BothProgress, ConTerminals
<1>7. CASE UNCHANGED runVars
    BY <1>1, <1>2, <1>7 DEF runVars, BothProgress, ConTerminals
<1> QED
    BY <1>3, <1>4, <1>5, <1>6, <1>7 DEF ClassificationNext

(* If the ranks of the table fall along its edges (lr.rs, progress_ranks),   *)
(* neither the run that classifies a head nor the one that checks it on a    *)
(* stack is stopped for want of progress (lalr.rs, check_reduction_progress),*)
(* whatever the head, the stack and the limit: preparation does not abort    *)
(* for it and no mask fails.                                                 *)
THEOREM RanksSuffice ==
    ASSUME RanksJustified
    PROVE  ClassificationSpec => [](/\ sym.decision # "InvalidReductionProgress"
                      /\ con.decision # "InvalidReductionProgress")
<1>1. BothProgress => /\ sym.decision # "InvalidReductionProgress"
                      /\ con.decision # "InvalidReductionProgress"
    BY DEF BothProgress, Progressing
<1> QED
    BY <1>1, InitProgress, NextProgress, PTL DEF ClassificationSpec
-----------------------------------------------------------------------------
(* What a source may reach without emitting: itself, and what its moves do.  *)
LEMMA ReachableClosed ==
    ASSUME NEW source \in Sources
    PROVE  /\ source \in Reachable(source) /\ Reachable(source) \subseteq Sources
           /\ \A d \in Reachable(source) : Moves(d) \subseteq Reachable(source)
<1>1. source \in Reachable(source) /\ Reachable(source) \subseteq Sources
  BY DEF Reachable
<1>2. ASSUME NEW d \in Reachable(source), NEW m \in Moves(d) PROVE m \in Reachable(source)
  <2>1. d \in Sources /\ m \in Sources
    <3>1. d \in Sources
      BY <1>1
    <3>2. PICK b \in Bytes : ByteStep(d, b) # Rejection /\ m = ByteStep(d, b).state
      BY <1>2 DEF Moves
    <3> QED
      BY <3>1, <3>2, StepsInLexer
  <2>2. ASSUME NEW Q \in SUBSET Sources, source \in Q, \A s \in Q : Moves(s) \subseteq Q
        PROVE  m \in Q
    <3>1. d \in Q
      BY <2>2 DEF Reachable
    <3> QED
      BY <2>2, <3>1
  <2> QED
    BY <2>1, <2>2 DEF Reachable
<1> QED
  BY <1>1, <1>2

(* A byte emits one terminal at most.                                        *)
LEMMA OneTerminalAtMost ==
    ASSUME NEW s \in Sources, NEW b \in Bytes, ByteStep(s, b).emitted # <<>>
    PROVE  /\ ByteStep(s, b).emitted = <<ByteStep(s, b).emitted[1]>>
           /\ ByteStep(s, b).emitted[1] \in LexerTerminals
<1>1. \A e : BeginLexeme(b, e).emitted \in {<<>>, e}
  BY DEF BeginLexeme, Rejection, At
<1>2. CASE s = LogicalStart
  <2>1. ByteStep(s, b) = BeginLexeme(b, <<>>)
    BY <1>2, LexerAssumption DEF ByteStep
  <2> QED
    BY <1>1, <2>1
<1>3. CASE s \in DfaStates /\ Delta[s][b] # NoState
  <2>1. ByteStep(s, b) = At(Delta[s][b], <<>>)
    BY <1>3, LexerAssumption DEF ByteStep
  <2> QED
    BY <2>1 DEF At
<1>4. CASE s \in DfaStates /\ Delta[s][b] = NoState
  <2>1. ByteStep(s, b) = IF Label[s] = NoTerminal THEN Rejection ELSE BeginLexeme(b, <<Label[s]>>)
    BY <1>4, LexerAssumption DEF ByteStep
  <2>2. Label[s] # NoTerminal /\ ByteStep(s, b).emitted = <<Label[s]>>
    BY <1>1, <2>1 DEF Rejection, At
  <2>3. Label[s] \in LexerTerminals
    BY <1>4, <2>2, LexerAssumption
  <2> QED
    BY <2>2, <2>3
<1> QED
  BY <1>2, <1>3, <1>4 DEF Sources

(* The first terminal that comes out of a source, along any bytes, is among  *)
(* its singletons.                                                           *)
Firsts(source, at) ==
    \/ at = Rejection
    \/ at.emitted = <<>> /\ at.state \in Reachable(source)
    \/ at.emitted # <<>> /\ at.emitted[1] \in Singletons[source]

LEMMA FirstsKept ==
    ASSUME NEW source \in Sources, NEW at \in Ats, Firsts(source, at), NEW b \in Bytes
    PROVE  Firsts(source, ExecuteByte(at, b))
<1> DEFINE step == ByteStep(at.state, b)
<1>1. CASE at = Rejection \/ step = Rejection
  BY <1>1 DEF ExecuteByte, Firsts
<1>2. CASE at # Rejection /\ step # Rejection
  <2>1. at.state \in Sources /\ at.emitted \in Seq(LexerTerminals)
    BY <1>2 DEF Ats
  <2>2. step.state \in Sources /\ step.emitted \in Seq(LexerTerminals)
    BY <1>2, <2>1, StepsInLexer
  <2> DEFINE next == ExecuteByte(at, b)
             joined == at.emitted \o step.emitted
  <2>3. next = At(step.state, joined)
    BY <1>2 DEF ExecuteByte
  <2> HIDE DEF next, step
  <2>4. next.state = step.state /\ next.emitted = joined
    BY <2>3 DEF At
  <2>5. CASE at.emitted # <<>>
    <3>1. Len(at.emitted) \in Nat \ {0} /\ 1 \in 1..Len(at.emitted)
      BY <2>1, <2>5, EmptySeq, LenProperties
    <3>2. joined[1] = at.emitted[1] /\ Len(joined) = Len(at.emitted) + Len(step.emitted)
      <4>1. \A e, f \in Seq(LexerTerminals) :
              Len(e \o f) = Len(e) + Len(f) /\ \A i \in 1..Len(e) : (e \o f)[i] = e[i]
        BY ConcatProperties, LenProperties
      <4> QED
        BY <2>1, <2>2, <3>1, <4>1, Zenon
    <3>3. joined # <<>>
      <4>1. Len(step.emitted) \in Nat /\ Len(<<>>) = 0
        BY <2>2, LenProperties
      <4> QED
        BY <3>1, <3>2, <4>1
    <3>4. at.emitted[1] \in Singletons[source]
      BY <1>2, <2>5 DEF Firsts
    <3> HIDE DEF joined
    <3> QED
      BY <2>4, <3>2, <3>3, <3>4 DEF Firsts, next
  <2>6. CASE at.emitted = <<>>
    <3>1. at.state \in Reachable(source)
      BY <1>2, <2>6 DEF Firsts
    <3>2. joined = step.emitted
      BY <2>2, <2>6
    <3>3. step.emitted = <<>> => step.state \in Reachable(source)
      <4>1. step.emitted = <<>> => step.state \in Moves(at.state)
        BY <1>2 DEF Moves, step
      <4> QED
        BY <3>1, <4>1, ReachableClosed
    <3>4. step.emitted # <<>> => step.emitted[1] \in Singletons[source]
      <4> SUFFICES ASSUME step.emitted # <<>> PROVE step.emitted[1] \in Singletons[source]
        OBVIOUS
      <4>1. step.emitted = <<step.emitted[1]>> /\ step.emitted[1] \in LexerTerminals
        BY <2>1, OneTerminalAtMost DEF step
      <4>2. step.emitted[1] \in Emits(at.state)
        BY <4>1 DEF Emits, step
      <4> QED
        BY <3>1, <4>2 DEF Singletons
    <3> HIDE DEF joined
    <3> QED
      BY <2>4, <3>2, <3>3, <3>4 DEF Firsts, next
  <2> QED
    BY <2>5, <2>6
<1> QED
  BY <1>1, <1>2

LEMMA BytesGiveFirsts ==
    ASSUME NEW source \in Sources, NEW bytes \in Seq(Bytes)
    PROVE  Firsts(source, ExecuteBytes(source, bytes))
<1> DEFINE length == Len(bytes)
<1>1. length \in Nat /\ \A n \in 1..length : bytes[n] \in Bytes
    BY LenProperties, ElementOfSeq
<1>2. PICK after : Executes(after, source, bytes)
    BY BytesUnfold
<1> DEFINE T == {n \in Nat : n <= length => Firsts(source, after[n])}
<1>3. 0 \in T
    <2>1. after[0].emitted = <<>> /\ after[0].state = source
        BY <1>2 DEF Executes, At
    <2> QED
        BY <2>1, ReachableClosed DEF Firsts
<1>4. ASSUME NEW n \in Nat, n \in T PROVE n + 1 \in T
    <2> SUFFICES ASSUME n + 1 <= length PROVE Firsts(source, after[n + 1])
        OBVIOUS
    <2>1. /\ Firsts(source, after[n]) /\ n \in 0..length /\ n + 1 \in 1..length
          /\ (n + 1) - 1 = n /\ bytes[n + 1] \in Bytes
        BY <1>1, <1>4
    <2>2. after[n] \in Ats /\ after[n + 1] = ExecuteByte(after[n], bytes[n + 1])
        BY <1>2, <2>1 DEF Executes
    <2> QED
        BY <2>1, <2>2, FirstsKept
<1> HIDE DEF T
<1>5. Nat \subseteq T
    BY <1>3, <1>4, SetInduction
<1>6. Firsts(source, after[length])
    BY <1>1, <1>5 DEF T
<1> QED
    BY <1>2, <1>6 DEF Executes

(* So is what the lexeme is, if the bytes end in it.                         *)
LEMMA FirstIsASingleton ==
    ASSUME NEW source \in Sources, NEW bytes \in Seq(Bytes)
    PROVE  FirstEmitted(source, bytes) \subseteq Singletons[source]
<1> DEFINE end == ExecuteBytes(source, bytes)
<1>1. Firsts(source, end)
    BY BytesGiveFirsts
<1>2. FirstEmitted(source, bytes)
        = CASE end = Rejection -> {}
            [] end.emitted # <<>> -> {end.emitted[1]}
            [] end # Rejection /\ end.emitted = <<>> ->
                 IF end.state = LogicalStart THEN {} ELSE {Label[end.state]} \ {NoTerminal}
    BY DEF FirstEmitted
<1> HIDE DEF end
<1>3. CASE end = Rejection
    <2>1. FirstEmitted(source, bytes) = {}
        BY <1>2, <1>3 DEF Rejection, At
    <2> QED
        BY <2>1
<1>4. CASE end # Rejection /\ end.emitted # <<>>
    BY <1>1, <1>2, <1>4 DEF Firsts
<1>5. CASE end # Rejection /\ end.emitted = <<>>
    <2>1. end.state \in Reachable(source) /\ end.state \in Sources
        BY <1>1, <1>5, ReachableClosed DEF Firsts
    <2>2. FirstEmitted(source, bytes)
            = IF end.state = LogicalStart THEN {} ELSE {Label[end.state]} \ {NoTerminal}
        BY <1>2, <1>5
    <2>3. end.state # LogicalStart /\ Label[end.state] # NoTerminal =>
            Label[end.state] \in Emits(end.state)
        BY <2>1, LexerAssumption DEF Emits, Sources
    <2>4. Singletons[source] = UNION {Emits(d) : d \in Reachable(source)}
        BY DEF Singletons
    <2> QED
        BY <2>1, <2>2, <2>3, <2>4
<1> QED
    BY <1>3, <1>4, <1>5

(* What a source reaches without emitting, some bytes reach.                 *)
LEMMA BytesReach ==
    ASSUME NEW source \in Sources, NEW d \in Reachable(source)
    PROVE  \E bytes \in Seq(Bytes) : ExecuteBytes(source, bytes) = At(d, <<>>)
<1> DEFINE Q == {s \in Sources : \E bytes \in Seq(Bytes) : ExecuteBytes(source, bytes) = At(s, <<>>)}
<1>1. source \in Q
    BY NoBytes
<1>2. ASSUME NEW s \in Q, NEW m \in Moves(s) PROVE m \in Q
    <2>1. PICK bytes \in Seq(Bytes) : ExecuteBytes(source, bytes) = At(s, <<>>)
        OBVIOUS
    <2>2. PICK b \in Bytes : /\ ByteStep(s, b) # Rejection /\ ByteStep(s, b).emitted = <<>>
                             /\ m = ByteStep(s, b).state
        BY <1>2 DEF Moves
    <2>3. s \in Sources /\ m \in Sources
        BY <2>2, StepsInLexer
    <2>4. ExecuteByte(At(s, <<>>), b) = At(m, <<>>)
        <3>1. At(s, <<>>).state = s /\ At(s, <<>>).emitted = <<>> /\ At(s, <<>>) # Rejection
            BY <2>3, LexerAssumption DEF At, Rejection, Sources
        <3>2. ExecuteByte(At(s, <<>>), b) = At(m, <<>> \o <<>>)
            BY <2>2, <3>1, Zenon DEF ExecuteByte
        <3>3. <<>> \o <<>> = <<>>
            OBVIOUS
        <3> QED
            BY <3>2, <3>3
    <2>5. /\ Append(bytes, b) \in Seq(Bytes)
          /\ ExecuteBytes(source, Append(bytes, b)) = At(m, <<>>)
        BY <2>1, <2>4, OneByteMore
    <2> QED
        BY <2>3, <2>5
<1>3. Q \in SUBSET Sources
    OBVIOUS
<1> HIDE DEF Q
<1>4. d \in Q
    BY <1>1, <1>2, <1>3 DEF Reachable
<1> QED
    BY <1>4 DEF Q

(* Every singleton of a source comes first out of it, along some bytes.      *)
LEMMA SingletonIsAFirst ==
    ASSUME NEW source \in Sources, NEW t \in Singletons[source]
    PROVE  \E bytes \in Seq(Bytes) : t \in FirstEmitted(source, bytes)
<1>1. PICK d \in Reachable(source) : t \in Emits(d)
    BY DEF Singletons
<1>2. d \in Sources
    BY ReachableClosed
<1>3. PICK bytes \in Seq(Bytes) : ExecuteBytes(source, bytes) = At(d, <<>>)
    BY BytesReach
<1>4. At(d, <<>>).state = d /\ At(d, <<>>).emitted = <<>> /\ At(d, <<>>) # Rejection
    BY <1>2, LexerAssumption DEF At, Rejection, Sources
<1>5. CASE d # LogicalStart /\ Label[d] = t
    <2>1. t # NoTerminal
        BY <1>1, LexerAssumption DEF Emits
    <2>2. FirstEmitted(source, bytes) = {Label[d]} \ {NoTerminal}
        BY <1>3, <1>4, <1>5 DEF FirstEmitted
    <2> QED
        BY <1>5, <2>1, <2>2
<1>6. ASSUME NEW b \in Bytes, ByteStep(d, b).emitted = <<t>>
      PROVE  t \in FirstEmitted(source, Append(bytes, b))
    <2> DEFINE step == ByteStep(d, b)
    <2>1. step # Rejection
        <3>1. Rejection.emitted = <<>> /\ <<t>> # <<>>
            BY DEF Rejection, At
        <3> QED
            BY <1>6, <3>1
    <2>2. ExecuteByte(At(d, <<>>), b) = At(step.state, <<>> \o <<t>>)
        BY <1>4, <1>6, <2>1 DEF ExecuteByte
    <2>3. <<>> \o <<t>> = <<t>>
        OBVIOUS
    <2>4. ExecuteBytes(source, Append(bytes, b)) = At(step.state, <<t>>)
        BY <1>3, <2>2, <2>3, OneByteMore
    <2> HIDE DEF step
    <2>5. At(step.state, <<t>>).emitted = <<t>> /\ At(step.state, <<t>>) # Rejection
          /\ <<t>> # <<>> /\ <<t>>[1] = t
        BY DEF At, Rejection
    <2> QED
        BY <2>4, <2>5 DEF FirstEmitted
<1> QED
    BY <1>1, <1>3, <1>5, <1>6, OneByteMore DEF Emits

(* The terminals that preparation propagates along the moves of the lexer    *)
(* (sequence.rs, build_singletons) are those that some continuation makes it *)
(* emit first, if the continuations are enough to tell.                      *)
THEOREM SingletonsAreFirsts ==
    ASSUME EnoughContinuations(Seq(Bytes)) PROVE Singletons = FirstTerminals
<1>1. ASSUME NEW source \in Sources PROVE Singletons[source] = FirstTerminals[source]
    <2>1. FirstTerminals[source] = UNION {FirstEmitted(source, s) : s \in Continuations}
        BY DEF FirstTerminals
    <2>2. FirstTerminals[source] \subseteq Singletons[source]
        BY <2>1, ReferenceAssumption, FirstIsASingleton
    <2>3. Singletons[source] \subseteq FirstTerminals[source]
        BY SingletonIsAFirst DEF EnoughContinuations
    <2> QED
        BY <2>2, <2>3
<1>2. Singletons = [s \in Sources |-> Singletons[s]]
    BY DEF Singletons
<1>3. FirstTerminals = [s \in Sources |-> FirstTerminals[s]]
    BY DEF FirstTerminals
<1> QED
    BY <1>1, <1>2, <1>3
-----------------------------------------------------------------------------
(* A token that goes on: the heads are tried in two runs each, the reference *)
(* reads what the token emits and a terminal that may follow in one.         *)
LEMMA OrdinaryIsReference ==
    ASSUME Classified, EnoughContinuations(Seq(Bytes)),
           NEW status, status.stack \in Seq(ParserStates) \ {<<>>},
           NEW execution \in Executions, execution.kind = "Continue",
           \A h \in Heads(execution) : h \in SequenceHeads /\ SequenceVerdict(status.stack, h) # "failed"
    PROVE  EvaluateOrdinary(status, execution)
             = IF Viable(status, execution) THEN Granted(After(status, execution))
               ELSE Refused("ConstraintViolation")
<1> DEFINE run == Run(execution.emitted, BeginConcrete(status.stack))
           verdicts == {SequenceVerdict(status.stack, h) : h \in Heads(execution)}
           outcome == LetThrough(execution.state, run)
<1>1. /\ execution.emitted \in Seq(Terminals) /\ execution.state \in Sources
      /\ \A h \in Heads(execution) : h \in Seq(Terminals) \ {<<>>} /\ Direct(h) = execution.emitted
    BY HeadsType
<1>2. Heads(execution) = {Append(execution.emitted, t) : t \in FirstTerminals[execution.state]}
    BY SingletonsAreFirsts DEF Heads
<1>3. ASSUME NEW h \in Heads(execution)
      PROVE  /\ SequenceVerdict(status.stack, h) \in {"allowed", "denied"}
             /\ SequenceVerdict(status.stack, h) = "allowed" <=> CanRead(status.stack, h)
             /\ SequenceVerdict(status.stack, h) = "allowed" => run.decision = "Continue"
    <2>1. h \in Seq(Terminals) \ {<<>>} /\ Direct(h) = execution.emitted /\ h \in SequenceHeads
        BY <1>1
    <2>2. SequenceVerdict(status.stack, h) = HeadAllowed(status.stack, h)
        BY <2>1, TableIsTheStack
    <2>3. HeadAllowed(status.stack, h) # "failed"
        BY <2>2
    <2>4. /\ HeadAllowed(status.stack, h) \in {"allowed", "denied"}
          /\ HeadAllowed(status.stack, h) = "allowed" <=> CanRead(status.stack, h)
        BY <2>1, <2>3, OneRunAnswers DEF CanRead, Decision
    <2>5. HeadAllowed(status.stack, h) = "allowed" => run.decision = "Continue"
        BY <2>1, PrefixRuns
    <2> QED
        BY <2>2, <2>4, <2>5
<1>4. Viable(status, execution) <=> \E h \in Heads(execution) : CanRead(status.stack, h)
    BY <1>2 DEF Viable
<1>5. EvaluateOrdinary(status, execution) = Judged(verdicts, outcome)
    BY DEF EvaluateOrdinary
<1>6. /\ "failed" \notin verdicts
      /\ "allowed" \in verdicts <=> Viable(status, execution)
      /\ "allowed" \in verdicts => run.decision = "Continue"
    BY <1>3, <1>4
<1>7. run.decision = "Continue" => outcome = Granted(After(status, execution))
    BY DEF LetThrough, After
<1> HIDE DEF run, verdicts, outcome
<1> QED
    BY <1>5, <1>6, <1>7 DEF Judged

(* An end of sequence: the end of input is read in a run of its own.         *)
LEMMA EosIsReference ==
    ASSUME NEW status, status.stack \in Seq(ParserStates) \ {<<>>},
           NEW execution \in Executions, execution.kind = "Finished",
           EvaluateEos(status.stack, execution.emitted).error # "CorruptPreparedData"
    PROVE  EvaluateEos(status.stack, execution.emitted)
             = IF Viable(status, execution) THEN Granted(After(status, execution))
               ELSE Refused("ConstraintViolation")
<1> DEFINE e == execution.emitted
           read == Run(e, BeginConcrete(status.stack))
           last == Run(<<Eof>>, BeginConcrete(read.stack)).decision
           decision == Run(Append(e, Eof), BeginConcrete(status.stack)).decision
<1>1. e \in Seq(Terminals) /\ Eof \in Terminals
    <2>1. e \in Seq(LexerTerminals)
        BY DEF Executions
    <2>2. LexerTerminals \subseteq Terminals /\ Eof \in Terminals
        BY PreparedAssumption
    <2> QED
        BY <2>1, <2>2
<1>2. /\ read.decision = "Continue" => decision = last
      /\ read.decision = "Rejected" => decision = "Rejected"
    <2>1. /\ Append(e, Eof) \in Seq(Terminals) \ {<<>>}
          /\ Direct(Append(e, Eof)) = e /\ Probe(Append(e, Eof)) = <<Eof>>
        BY <1>1, HeadOf
    <2> QED
        BY <2>1, TwoRunsAreOne
<1>3. EvaluateEos(status.stack, e)
        = CASE read.decision = "Continue" -> AtEnd(last)
            [] read.decision = "Rejected" -> Refused("ConstraintViolation")
            [] read.decision \notin {"Rejected", "Continue"} -> Refused("CorruptPreparedData")
    BY DEF EvaluateEos
<1>4. Viable(status, execution) <=> decision = "Accepted"
    BY DEF Viable, Decision
<1>5. Granted(After(status, execution)) = Granted(Accepted)
    BY DEF After
<1> HIDE DEF e, read, last, decision
<1>6. read.decision \in {"Rejected", "Continue"}
    BY <1>3 DEF Refused, e
<1>7. CASE read.decision = "Rejected"
    BY <1>2, <1>3, <1>4, <1>7 DEF e
<1>8. CASE read.decision = "Continue"
    <2>1. EvaluateEos(status.stack, e) = AtEnd(last) /\ decision = last
        BY <1>2, <1>3, <1>8
    <2>2. last \in {"Accepted", "Rejected", "Continue"}
        BY <2>1 DEF AtEnd, Refused, e
    <2>3. AtEnd(last) = IF last = "Accepted" THEN Granted(Accepted) ELSE Refused("ConstraintViolation")
        BY <2>2 DEF AtEnd
    <2> QED
        BY <1>4, <1>5, <2>1, <2>3 DEF e
<1> QED
    BY <1>6, <1>7, <1>8

(* On a row whose tables are not found corrupt, what a token does            *)
(* (next_status_into) is what the reference semantics makes of it, and the   *)
(* mask (fill_mask_with_scratch) is what it allows.                          *)
THEOREM TablesAreTheReference ==
    ASSUME Classified, EnoughContinuations(Seq(Bytes)),
           NEW status \in Statuses, status.phase = "Running", status.stack # <<>>,
           ~MaskFails(status)
    PROVE  /\ MaskOf(status) = ReferenceMask(status)
           /\ \A t \in Tokens : NextStatus(status, t) = ReferenceOutcome(status, t)
<1>1. status.lexer \in Sources /\ status.stack \in Seq(ParserStates) \ {<<>>}
    BY DEF Statuses
<1>2. ASSUME NEW t \in Tokens
      PROVE  LET execution == Execute(status.lexer, t)
                 granted == Granted(After(status, execution))
             IN /\ NextStatus(status, t) = IF Viable(status, execution) THEN granted
                                           ELSE Refused("ConstraintViolation")
                /\ t \in MaskOf(status) <=> Viable(status, execution)
    <2> DEFINE execution == Execute(status.lexer, t)
               granted == Granted(After(status, execution))
               evaluated == EvaluateExecution(status, execution)
    <2>1. TokenTable[status.lexer][t] = execution
        BY <1>1 DEF TokenTable
    <2>2. execution \in Executions
        BY <1>1, ExecutionType
    <2>3. NextStatus(status, t) = evaluated
        BY <2>1 DEF NextStatus, EvaluateToken
    <2>4. /\ t \in MaskOf(status) <=> NextStatus(status, t).error = "none"
          /\ t \notin MaskOf(status) => NextStatus(status, t).error = "ConstraintViolation"
        BY MasksAreAdvances
    <2> HIDE DEF execution
    <2>5. evaluated = IF Viable(status, execution) THEN granted ELSE Refused("ConstraintViolation")
        <3>1. CASE execution.kind = "None"
            <4>1. evaluated = Refused("ConstraintViolation") /\ ~Viable(status, execution)
                BY <3>1 DEF EvaluateExecution, Viable
            <4> QED
                BY <4>1
        <3>2. CASE execution.kind = "Continue"
            <4>1. evaluated = EvaluateOrdinary(status, execution)
                BY <3>2 DEF EvaluateExecution
            <4>2. HeadsOf(status.lexer, t) = Heads(execution)
                BY <2>1 DEF HeadsOf
            <4>3. /\ Heads(execution) \subseteq DOMAIN Buckets[status.lexer]
                  /\ DOMAIN Buckets[status.lexer] \subseteq SequenceHeads
                BY <1>1, <4>2, BucketsInvert
            <4>4. \A h \in Heads(execution) :
                    h \in SequenceHeads /\ SequenceVerdict(status.stack, h) # "failed"
                BY <4>3 DEF MaskFails
            <4> QED
                BY <1>1, <2>2, <3>2, <4>1, <4>4, OrdinaryIsReference
        <3>3. CASE execution.kind = "Finished"
            <4>1. evaluated = EvaluateEos(status.stack, execution.emitted)
                BY <3>3 DEF EvaluateExecution
            <4>2. evaluated.error # "CorruptPreparedData"
                BY <2>3, <2>4
            <4> QED
                BY <1>1, <2>2, <3>3, <4>1, <4>2, EosIsReference
        <3> QED
            BY <2>2, <3>1, <3>2, <3>3 DEF Executions
    <2>6. granted.error = "none" /\ Refused("ConstraintViolation").error = "ConstraintViolation"
        BY DEF Granted, Refused
    <2> HIDE DEF granted, evaluated
    <2>7. t \in MaskOf(status) <=> Viable(status, execution)
        BY <2>3, <2>4, <2>5, <2>6
    <2> QED
        BY <2>3, <2>5, <2>7 DEF granted, execution
<1>3. MaskOf(status) \subseteq Tokens
    <2>1. \A h \in DOMAIN Buckets[status.lexer] : Buckets[status.lexer][h] \subseteq Tokens
        BY <1>1 DEF Buckets
    <2> QED
        BY <2>1 DEF MaskOf, OrdinaryMask, EosWith
<1>4. MaskOf(status) = ReferenceMask(status)
    BY <1>2, <1>3 DEF ReferenceMask
<1>5. ASSUME NEW t \in Tokens PROVE NextStatus(status, t) = ReferenceOutcome(status, t)
    <2>1. status # Accepted /\ t # NoToken
        BY EngineAssumption DEF Accepted
    <2>2. ReferenceOutcome(status, t)
            = IF t \in ReferenceMask(status) THEN Granted(After(status, Execute(status.lexer, t)))
              ELSE Refused("ConstraintViolation")
        BY <2>1 DEF ReferenceOutcome
    <2>3. t \in ReferenceMask(status) <=> Viable(status, Execute(status.lexer, t))
        BY DEF ReferenceMask
    <2> QED
        BY <1>2, <2>2, <2>3
<1> QED
    BY <1>4, <1>5
-----------------------------------------------------------------------------
(* The table of an automaton of items: no inconsistency is met.              *)

Paths == {s \in Seq(ParserStates) : IsPath(StartState, s)}

(* A table of an automaton of items, as far as a run can tell.               *)
AutomatonTable ==
    RanksJustified /\ AcceptsAt(Eof) /\ HandlesFit(Paths) /\ StatesReached(Paths)

EndsLast(terminals) == \A i \in 1..Len(terminals) - 1 : terminals[i] # Eof

(* A run on what its start state leads to, or on the upper part of that.     *)
Fits(below, terminals, c) ==
    /\ c \in Configurations /\ c.stack # <<>>
    /\ IsPath(StartState, below \o c.stack)
    /\ below = <<>> \/ c.underflow = "Dependent"
    /\ Progressing(terminals, c)

(* What it may come to while there are terminals left, and in the end.       *)
Settled(terminals, c) ==
    \/ c.decision \in {"running", "Rejected"}
    \/ c.decision = "Accepted" /\ terminals # <<>> /\ terminals[Len(terminals)] = Eof
    \/ c.decision = "Dependent" /\ c.underflow = "Dependent"
    \/ c.decision = "WorkLimitExceeded" /\ c.maximum # Unbounded

Expected(terminals, c) == Settled(terminals, c) \/ c.decision = "Continue"

(* A state that is pushed on a part of the upper part extends the path.      *)
LEMMA PathGrowsOver ==
    ASSUME NEW b \in Seq(ParserStates), NEW s \in Seq(ParserStates) \ {<<>>},
           IsPath(StartState, b \o s), NEW k \in 1..Len(s), NEW x \in ParserStates,
           Follows(s[k], x)
    PROVE  IsPath(StartState, b \o Append(SubSeq(s, 1, k), x))
<1> DEFINE p == b \o s
           j == Len(b) + k
           u == SubSeq(s, 1, k)
           v == Append(u, x)
<1>1. /\ Len(b) \in Nat /\ Len(s) \in Nat /\ k \in Nat /\ j \in 1..Len(b) + Len(s)
      /\ \A i \in 1..k : s[i] \in ParserStates
    BY LenProperties, ElementOfSeq
<1>2. /\ p \in Seq(ParserStates) /\ Len(p) = Len(b) + Len(s)
      /\ \A i \in 1..Len(b) + Len(s) : p[i] = IF i <= Len(b) THEN b[i] ELSE s[i - Len(b)]
    BY ConcatProperties
<1>3. p[j] = s[k]
    BY <1>1, <1>2
<1>4. /\ u \in Seq(ParserStates) /\ Len(u) = k /\ \A i \in 1..k : u[i] = s[i]
    BY <1>1, SubSeqProperties
<1> HIDE DEF u
<1>5. /\ v \in Seq(ParserStates) /\ Len(v) = k + 1 /\ v[k + 1] = x
      /\ \A i \in 1..k : v[i] = s[i]
    BY <1>1, <1>4, AppendProperties
<1> HIDE DEF v
<1>6. /\ b \o v \in Seq(ParserStates) /\ Len(b \o v) = Len(b) + (k + 1)
      /\ \A i \in 1..Len(b) + (k + 1) : (b \o v)[i] = IF i <= Len(b) THEN b[i] ELSE v[i - Len(b)]
    <2>1. /\ b \o v \in Seq(ParserStates) /\ Len(b \o v) = Len(b) + Len(v)
          /\ \A i \in 1..Len(b) + Len(v) : (b \o v)[i] = IF i <= Len(b) THEN b[i] ELSE v[i - Len(b)]
        BY <1>5, ConcatProperties
    <2> QED
        BY <1>5, <2>1
<1> DEFINE q == SubSeq(p, 1, j)
           w == Append(q, x)
<1>7. /\ q \in Seq(ParserStates) /\ Len(q) = j /\ \A i \in 1..j : q[i] = p[i]
    BY <1>1, <1>2, SubSeqProperties
<1> HIDE DEF q
<1>8. /\ w \in Seq(ParserStates) /\ Len(w) = j + 1 /\ w[j + 1] = x
      /\ \A i \in 1..j : w[i] = q[i]
    BY <1>1, <1>7, AppendProperties
<1> HIDE DEF w, p
<1>9. \A i \in 1..j + 1 : w[i] = (b \o v)[i]
    <2> SUFFICES ASSUME NEW i \in 1..j + 1 PROVE w[i] = (b \o v)[i]
        OBVIOUS
    <2>1. CASE i <= Len(b)
        <3>1. i \in 1..j /\ i \in 1..Len(b) + Len(s) /\ i \in 1..Len(b) + (k + 1)
            BY <1>1, <2>1
        <3> QED
            BY <1>2, <1>6, <1>7, <1>8, <2>1, <3>1
    <2>2. CASE i > Len(b) /\ i <= j
        <3>1. i \in 1..j /\ i \in 1..Len(b) + Len(s) /\ i \in 1..Len(b) + (k + 1)
              /\ i - Len(b) \in 1..k /\ ~(i <= Len(b))
            BY <1>1, <2>2
        <3>2. w[i] = s[i - Len(b)]
            BY <1>2, <1>7, <1>8, <3>1
        <3>3. (b \o v)[i] = s[i - Len(b)]
            BY <1>5, <1>6, <3>1
        <3> QED
            BY <3>2, <3>3
    <2>3. CASE i = j + 1
        <3>1. i \in 1..Len(b) + (k + 1) /\ ~(i <= Len(b)) /\ i - Len(b) = k + 1
            BY <1>1, <2>3
        <3> QED
            BY <1>5, <1>6, <1>8, <2>3, <3>1
    <2>4. i <= Len(b) \/ (i > Len(b) /\ i <= j) \/ i = j + 1
        BY <1>1
    <2> QED
        BY <2>1, <2>2, <2>3, <2>4
<1>10. w = b \o v
    <2>1. Len(w) = Len(b \o v)
        BY <1>1, <1>6, <1>8
    <2> QED
        BY <1>6, <1>8, <1>9, <2>1, SeqEqual
<1>11. IsPath(StartState, w)
    BY <1>1, <1>2, <1>3, PathGrows DEF w, q, p
<1> QED
    BY <1>10, <1>11 DEF v, u

LEMMA HandleFits ==
    ASSUME AutomatonTable, NEW p \in Paths, NEW t \in Terminals \ Ignored,
           NEW cell, cell = Action[Top(p)][t], cell.type = "reduce"
    PROVE  /\ Len(p) - PopLen[cell.production] > 0
           /\ Goto[p[Len(p) - PopLen[cell.production]]][Lhs[cell.production]] # NoGoto
BY DEF AutomatonTable, HandlesFit

LEMMA StepFits ==
    ASSUME AutomatonTable, NEW terminals \in Seq(Terminals), EndsLast(terminals),
           NEW b \in Seq(ParserStates), NEW c, Fits(b, terminals, c), Live(c)
    PROVE  /\ Fits(b, terminals, Step(terminals, c))
           /\ IF c.index > Len(terminals) THEN Step(terminals, c).decision = "Continue"
              ELSE Settled(terminals, Step(terminals, c))
<1> DEFINE n == Step(terminals, c)
           cell == Action[Top(c.stack)][terminals[c.index]]
           lookup == IF c.previous = NoReduction THEN 2 ELSE 1
<1>1. /\ c \in Configurations /\ c.decision = "running" /\ c.index \in Nat \ {0}
      /\ c.stack \in Seq(ParserStates) \ {<<>>} /\ Len(c.stack) \in Nat
      /\ Len(b) \in Nat /\ Len(terminals) \in Nat
    BY LenProperties DEF Fits, Live, Configurations
<1>2. KeepsRun(c, n)
    BY <1>1, StepFollows
<1>3. IsPath(StartState, b \o n.stack)
    <2>1. Stacked(c, n)
        BY <1>1, StepStacks
    <2> HIDE DEF n
    <2>2. CASE n.stack = c.stack
        BY <2>2 DEF Fits
    <2>3. ASSUME NEW k \in 1..Len(c.stack), NEW x \in ParserStates,
                 Follows(c.stack[k], x), n.stack = Append(SubSeq(c.stack, 1, k), x)
          PROVE  IsPath(StartState, b \o n.stack)
        BY <1>1, <2>3, PathGrowsOver DEF Fits
    <2> QED
        BY <2>1, <2>2, <2>3 DEF Stacked
<1>4. Progressing(terminals, n)
    BY <1>1, StepProgressing DEF Fits, AutomatonTable
<1>5. Fits(b, terminals, n)
    <2> HIDE DEF n
    <2> QED
        BY <1>2, <1>3, <1>4 DEF Fits, KeepsRun
<1>6. ASSUME NEW cost \in Nat, NEW next \in Configurations, n = Charged(c, cost, next),
             Settled(terminals, next), next.underflow = c.underflow, next.maximum = c.maximum
      PROVE  Settled(terminals, n)
    <2>1. \/ n.decision = "WorkLimitExceeded" /\ n.maximum # Unbounded
          \/ n.decision = next.decision
        BY <1>1, <1>2, <1>6, ChargedCases DEF KeepsRun
    <2>2. n.underflow = next.underflow /\ n.maximum = c.maximum
        BY <1>2, <1>6 DEF KeepsRun
    <2> HIDE DEF n
    <2> QED
        BY <1>6, <2>1, <2>2 DEF Settled
<1>7. \A decision \in Decisions \cup Failures :
        /\ Halt(c, decision) \in Configurations /\ Halt(c, decision).decision = decision
        /\ Halt(c, decision).underflow = c.underflow /\ Halt(c, decision).maximum = c.maximum
    BY <1>1 DEF Halt, Configurations
<1>8. \A s \in Seq(ParserStates) \ {<<>>} :
        /\ NextTerminal(c, s) \in Configurations /\ NextTerminal(c, s).decision = "running"
        /\ NextTerminal(c, s).underflow = c.underflow /\ NextTerminal(c, s).maximum = c.maximum
    <2>1. NoReduction \in [rank : Int, pop_len : Nat] /\ c.index + 1 \in Nat \ {0}
        BY <1>1 DEF NoReduction
    <2> QED
        BY <1>1, <2>1 DEF NextTerminal, Configurations
<1>9. CASE c.index > Len(terminals)
    <2>1. n = Halt(c, "Continue")
        BY <1>1, <1>9 DEF Step
    <2>2. n.decision = "Continue"
        BY <1>7, <2>1 DEF Decisions
    <2> QED
        BY <1>5, <1>9, <2>2
<1>10. CASE c.index <= Len(terminals) /\ terminals[c.index] \in Ignored
    <2>1. n = Charged(c, 1, NextTerminal(c, c.stack))
        BY <1>1, <1>10 DEF Step
    <2>2. Settled(terminals, NextTerminal(c, c.stack))
        BY <1>1, <1>8 DEF Settled
    <2> HIDE DEF n
    <2>3. Settled(terminals, n)
        BY <1>1, <1>6, <1>8, <2>1, <2>2
    <2> QED
        BY <1>1, <1>5, <1>10, <2>3 DEF n
<1>11. ASSUME c.index <= Len(terminals), terminals[c.index] \notin Ignored
       PROVE  Settled(terminals, n)
    <2>1. n = RunTerminal(terminals, c)
        BY <1>1, <1>11 DEF Step
    <2>2. /\ Top(c.stack) \in ParserStates /\ terminals[c.index] \in Terminals \ Ignored
          /\ c.index \in 1..Len(terminals)
        BY <1>1, <1>11, TopAndRest, ElementOfSeq DEF Top
    <2>3. /\ cell.type \in {"error", "accept", "shift", "reduce"}
          /\ cell.type = "shift" => cell.to \in ParserStates
          /\ cell.type = "reduce" => cell.production \in Productions /\ cell.rank \in Nat
        BY <2>2, CellType
    <2>4. lookup \in Nat /\ \A cost \in {1, 2, 3} : lookup + cost \in Nat
        OBVIOUS
    <2>5. /\ cell.type = "error" => n = Charged(c, lookup, Halt(c, "Rejected"))
          /\ cell.type = "shift" =>
               n = Charged(c, lookup + 1, NextTerminal(c, Append(c.stack, cell.to)))
          /\ cell.type = "accept" =>
               n = Charged(c, lookup, Halt(c, IF c.index = Len(terminals) THEN "Accepted"
                                              ELSE "AcceptBeforeEnd"))
          /\ cell.type = "reduce" => n =
               IF Progresses(c.previous, cell.rank) THEN ApplyReduction(c, cell, lookup)
               ELSE Charged(c, lookup, Halt(c, "InvalidReductionProgress"))
        <3> HIDE DEF n
        <3> QED
            BY <2>1 DEF RunTerminal
    <2> HIDE DEF n, cell, lookup
    <2>6. CASE cell.type = "error"
        <3>1. Settled(terminals, Halt(c, "Rejected"))
            BY <1>7 DEF Settled, Decisions
        <3> QED
            BY <1>6, <1>7, <2>4, <2>5, <2>6, <3>1 DEF Decisions, n
    <2>7. CASE cell.type = "shift"
        <3>1. Append(c.stack, cell.to) \in Seq(ParserStates) \ {<<>>}
            BY <1>1, <2>3, <2>7, Pushed
        <3>2. Settled(terminals, NextTerminal(c, Append(c.stack, cell.to)))
            BY <1>8, <3>1 DEF Settled
        <3>3. Settled(terminals, n)
            BY <1>6, <1>8, <2>4, <2>5, <2>7, <3>1, <3>2
        <3> QED
            BY <3>3 DEF n
    <2>8. CASE cell.type = "accept"
        <3>1. terminals[c.index] = Eof
            BY <2>2, <2>8 DEF AutomatonTable, AcceptsAt, cell
        <3>2. c.index = Len(terminals)
            BY <1>1, <2>2, <3>1 DEF EndsLast
        <3>3. terminals # <<>> /\ terminals[Len(terminals)] = Eof
            BY <1>1, <2>2, <3>1, <3>2
        <3>4. n = Charged(c, lookup, Halt(c, "Accepted"))
            BY <2>5, <2>8, <3>2
        <3>5. Settled(terminals, Halt(c, "Accepted"))
            BY <1>7, <3>3 DEF Settled, Decisions
        <3>6. Settled(terminals, n)
            BY <1>6, <1>7, <2>4, <3>4, <3>5 DEF Decisions
        <3> QED
            BY <3>6 DEF n
    <2>9. CASE cell.type = "reduce"
        <3> DEFINE kept == Len(c.stack) - PopLen[cell.production]
                   to == Goto[c.stack[kept]][Lhs[cell.production]]
        <3>1. n.decision # "InvalidReductionProgress"
            BY <1>4 DEF Progressing, n
        <3>2. PopLen[cell.production] \in Nat /\ Lhs[cell.production] \in Nonterminals
            BY <2>3, <2>9, LalrAssumption
        <3>3. CASE ~Progresses(c.previous, cell.rank)
            <4>1. n = Charged(c, lookup, Halt(c, "InvalidReductionProgress"))
                BY <2>5, <2>9, <3>3
            <4>2. n.decision \in {"WorkLimitExceeded", "InvalidReductionProgress"}
                BY <1>1, <1>7, <2>4, <4>1, ChargedCases DEF Failures
            <4>3. n.decision = "WorkLimitExceeded" /\ n.maximum # Unbounded
                <5>1. c.maximum = Unbounded => n = Halt(c, "InvalidReductionProgress")
                    BY <4>1 DEF Charged
                <5>2. n.maximum = c.maximum
                    BY <1>2 DEF KeepsRun, n
                <5> QED
                    BY <1>7, <3>1, <4>2, <5>1, <5>2 DEF Failures
            <4> QED
                BY <4>3 DEF Settled, n
        <3>4. CASE Progresses(c.previous, cell.rank)
            <4>1. n = ApplyReduction(c, cell, lookup)
                BY <2>5, <2>9, <3>4
            <4>2. CASE kept <= 0
                <5>1. n = Charged(c, lookup + 1, Halt(c, c.underflow))
                    BY <4>1, <4>2 DEF ApplyReduction
                <5>2. c.underflow = "Dependent"
                    <6> SUFFICES ASSUME c.underflow # "Dependent" PROVE FALSE
                        OBVIOUS
                    <6>1. b \o c.stack = c.stack
                        BY <1>1, ConcatEmptySeq DEF Fits
                    <6>2. c.stack \in Paths
                        BY <1>1, <6>1 DEF Fits, Paths
                    <6>3. kept > 0
                        BY <2>2, <2>9, <6>2, HandleFits DEF cell
                    <6> QED
                        BY <1>1, <3>2, <4>2, <6>3
                <5>3. Settled(terminals, Halt(c, "Dependent"))
                    BY <1>7, <5>2 DEF Settled, Decisions
                <5>4. Settled(terminals, n)
                    BY <1>6, <1>7, <2>4, <5>1, <5>2, <5>3 DEF Decisions
                <5> QED
                    BY <5>4 DEF n
            <4>3. CASE kept > 0
                <5>1. kept \in 1..Len(c.stack)
                    BY <1>1, <3>2, <4>3
                <5> DEFINE p == b \o c.stack
                           below == Len(p) - PopLen[cell.production]
                <5>2. /\ p \in Seq(ParserStates) /\ Len(p) = Len(b) + Len(c.stack)
                      /\ p[Len(p)] = Top(c.stack) /\ p[below] = c.stack[kept]
                    <6>1. /\ p \in Seq(ParserStates) /\ Len(p) = Len(b) + Len(c.stack)
                          /\ \A i \in 1..Len(b) + Len(c.stack) :
                               p[i] = IF i <= Len(b) THEN b[i] ELSE c.stack[i - Len(b)]
                        BY <1>1, ConcatProperties
                    <6>2. /\ Len(p) \in 1..Len(b) + Len(c.stack) /\ ~(Len(p) <= Len(b))
                          /\ Len(p) - Len(b) = Len(c.stack)
                        BY <1>1, <5>1, <6>1
                    <6>3. /\ below \in 1..Len(b) + Len(c.stack) /\ ~(below <= Len(b))
                          /\ below - Len(b) = kept
                        BY <1>1, <3>2, <5>1, <6>1
                    <6> HIDE DEF p, below, kept
                    <6> QED
                        BY <6>1, <6>2, <6>3 DEF Top
                <5>3. p \in Paths
                    BY <5>2 DEF Fits, Paths
                <5>4. to # NoGoto
                    <6>1. Action[Top(p)][terminals[c.index]] = cell
                        BY <5>2 DEF Top, cell
                    <6> HIDE DEF p
                    <6>2. Goto[p[below]][Lhs[cell.production]] # NoGoto
                        BY <2>2, <2>9, <5>3, <6>1, HandleFits
                    <6> HIDE DEF below, kept
                    <6> QED
                        BY <5>2, <6>2
                <5>5. n = Charged(c, lookup + 3, Reduced(c, kept, cell, to))
                    <6>1. ApplyReduction(c, cell, lookup)
                            = IF kept <= 0 THEN Charged(c, lookup + 1, Halt(c, c.underflow))
                              ELSE IF to = NoGoto THEN Charged(c, lookup + 2, Halt(c, "MissingGoto"))
                                   ELSE Charged(c, lookup + 3, Reduced(c, kept, cell, to))
                        BY DEF ApplyReduction
                    <6>2. ~(kept <= 0)
                        BY <1>1, <5>1
                    <6> HIDE DEF kept, to
                    <6> QED
                        BY <4>1, <5>4, <6>1, <6>2
                <5>6. /\ Reduced(c, kept, cell, to) \in Configurations
                      /\ Reduced(c, kept, cell, to).decision = "running"
                      /\ Reduced(c, kept, cell, to).underflow = c.underflow
                      /\ Reduced(c, kept, cell, to).maximum = c.maximum
                    <6>1. to \in ParserStates
                        <7>1. c.stack[kept] \in ParserStates
                            BY <1>1, <5>1, ElementOfSeq
                        <7> QED
                            BY <3>2, <5>4, <7>1, LalrAssumption
                    <6>2. SubSeq(c.stack, 1, kept) \in Seq(ParserStates)
                        BY <1>1, <5>1, PopOver, EmptySeq
                    <6> HIDE DEF kept, to
                    <6>3. Append(SubSeq(c.stack, 1, kept), to) \in Seq(ParserStates) \ {<<>>}
                        BY <6>1, <6>2, Pushed
                    <6>4. [rank |-> cell.rank, pop_len |-> PopLen[cell.production]]
                            \in [rank : Int, pop_len : Nat]
                        BY <2>3, <2>9, <3>2
                    <6> QED
                        BY <1>1, <6>3, <6>4 DEF Reduced, Configurations
                <5> HIDE DEF kept, to
                <5>7. Settled(terminals, Reduced(c, kept, cell, to))
                    BY <5>6 DEF Settled
                <5>8. Settled(terminals, n)
                    BY <1>6, <2>4, <5>5, <5>6, <5>7
                <5> QED
                    BY <5>8 DEF n
            <4> QED
                BY <1>1, <3>2, <4>2, <4>3
        <3> QED
            BY <3>3, <3>4
    <2> QED
        BY <2>3, <2>6, <2>7, <2>8, <2>9
<1> QED
    BY <1>1, <1>5, <1>9, <1>10, <1>11

(* A whole run comes to what is expected.                                    *)
LEMMA RunFits ==
    ASSUME AutomatonTable, NEW terminals \in Seq(Terminals), EndsLast(terminals),
           NEW b \in Seq(ParserStates), NEW c, Fits(b, terminals, c), Live(c)
    PROVE  LET run == Run(terminals, c) IN
           /\ Expected(terminals, run) /\ ~Live(run)
           /\ run.underflow = c.underflow /\ run.maximum = c.maximum
<1> DEFINE Q == {x \in Configurations :
                   /\ Fits(b, terminals, x) /\ Expected(terminals, x)
                   /\ x.underflow = c.underflow /\ x.maximum = c.maximum}
<1>1. ASSUME NEW x \in Q, Live(x) PROVE Step(terminals, x) \in Q
    <2>1. x \in Configurations /\ x.stack # <<>> /\ Fits(b, terminals, x)
          /\ x.underflow = c.underflow /\ x.maximum = c.maximum
        BY DEF Fits
    <2>2. KeepsRun(x, Step(terminals, x))
        BY <2>1, StepFollows
    <2>3. Fits(b, terminals, Step(terminals, x)) /\ Expected(terminals, Step(terminals, x))
        BY <1>1, <2>1, StepFits DEF Expected
    <2> QED
        BY <2>1, <2>2, <2>3 DEF KeepsRun
<1>2. Q \subseteq Configurations /\ Closed(terminals, Q)
    BY <1>1 DEF Closed
<1>3. c \in Q
    BY DEF Fits, Expected, Settled, Live
<1> HIDE DEF Q
<1>4. Run(terminals, c) \in Q /\ ~Live(Run(terminals, c))
    BY <1>2, <1>3, RunEnds
<1> QED
    BY <1>4 DEF Q

(* The runs of an engine, from a stack of the table, begin so.               *)
LEMMA BeginFits ==
    ASSUME NEW s \in Paths, NEW m \in Nat \cup {Unbounded}, NEW terminals
    PROVE  /\ s \in Seq(ParserStates) \ {<<>>}
           /\ Fits(<<>>, terminals, BeginConcrete(s)) /\ Live(BeginConcrete(s))
           /\ SubSeq(s, 1, Len(s) - 1) \in Seq(ParserStates)
           /\ Fits(SubSeq(s, 1, Len(s) - 1), terminals, BeginSymbolic(Top(s), m))
           /\ Live(BeginSymbolic(Top(s), m))
<1> DEFINE b == SubSeq(s, 1, Len(s) - 1)
<1>1. s \in Seq(ParserStates) \ {<<>>} /\ IsPath(StartState, s)
    BY DEF Paths, IsPath
<1>2. BeginConcrete(s) \in Configurations /\ BeginSymbolic(Top(s), m) \in Configurations
    BY <1>1, BeginType
<1>3. b \in Seq(ParserStates) /\ s = b \o <<Top(s)>>
    BY <1>1, TopAndRest DEF Top
<1>4. /\ BeginConcrete(s).stack = s /\ Live(BeginConcrete(s))
      /\ BeginSymbolic(Top(s), m).stack = <<Top(s)>> /\ Live(BeginSymbolic(Top(s), m))
      /\ BeginSymbolic(Top(s), m).underflow = "Dependent"
    BY DEF BeginConcrete, BeginSymbolic, Begin, Live
<1>5. /\ Progressing(terminals, BeginConcrete(s))
      /\ Progressing(terminals, BeginSymbolic(Top(s), m))
    BY BeginProgressing DEF BeginConcrete, BeginSymbolic
<1>6. <<>> \o s = s
    BY <1>1, ConcatEmptySeq
<1> HIDE DEF b
<1>7. Fits(<<>>, terminals, BeginConcrete(s))
    BY <1>1, <1>2, <1>4, <1>5, <1>6 DEF Fits
<1>8. Fits(b, terminals, BeginSymbolic(Top(s), m))
    <2>1. <<Top(s)>> # <<>>
        OBVIOUS
    <2> QED
        BY <1>1, <1>2, <1>3, <1>4, <1>5, <2>1 DEF Fits
<1> QED
    BY <1>1, <1>3, <1>4, <1>7, <1>8 DEF b

(* No head ends the input: the lexer does not emit Eof.                      *)
LEMMA HeadsGoOn ==
    ASSUME NEW h \in SequenceHeads
    PROVE  h \in Seq(Terminals) \ {<<>>} /\ \A i \in 1..Len(h) : h[i] # Eof
<1>1. PICK source \in Sources : h \in DOMAIN Buckets[source]
    BY DEF SequenceHeads
<1>2. PICK token \in Tokens : h \in HeadsOf(source, token)
    BY <1>1 DEF Buckets
<1> DEFINE execution == Execute(source, token)
<1>3. h \in Heads(execution)
    BY <1>2 DEF HeadsOf, TokenTable
<1>4. execution \in Executions
    BY ExecutionType
<1> HIDE DEF execution
<1>5. /\ execution.kind = "Continue" /\ execution.emitted \in Seq(LexerTerminals)
      /\ execution.state \in Sources
    BY <1>3, <1>4 DEF Heads, Executions
<1>6. PICK t \in Singletons[execution.state] : h = Append(execution.emitted, t)
    BY <1>3, <1>5 DEF Heads
<1>7. t \in LexerTerminals
    BY <1>5, <1>6 DEF Singletons, Emits
<1>8. h \in Seq(LexerTerminals)
    BY <1>5, <1>6, <1>7, AppendProperties
<1>9. h \in Seq(Terminals) \ {<<>>}
    BY <1>3, <1>4, <1>5, HeadsType
<1>10. \A i \in 1..Len(h) : h[i] \in LexerTerminals
    BY <1>8, ElementOfSeq
<1> QED
    BY <1>9, <1>10, PreparedAssumption

(* A list without Eof, on a stack of the table, is read or rejected.         *)
LEMMA ReadsOrRejects ==
    ASSUME AutomatonTable, NEW s \in Paths, NEW terminals \in Seq(Terminals),
           \A i \in 1..Len(terminals) : terminals[i] # Eof
    PROVE  LET run == Run(terminals, BeginConcrete(s))
           IN run.decision \in {"Rejected", "Continue"} /\ run.stack \in Paths
<1> DEFINE c == BeginConcrete(s)
           run == Run(terminals, c)
<1>1. Len(terminals) \in Nat
    BY LenProperties
<1>2. EndsLast(terminals)
    BY <1>1 DEF EndsLast
<1>3. Fits(<<>>, terminals, c) /\ Live(c) /\ <<>> \in Seq(ParserStates)
    BY BeginFits
<1>4. c.underflow = "StackUnderflow" /\ c.maximum = Unbounded
    BY DEF BeginConcrete, Begin
<1>5. run.stack \in Paths
    BY RunsKeepPaths DEF Paths
<1> HIDE DEF c
<1>6. /\ Expected(terminals, run) /\ ~Live(run)
      /\ run.underflow = "StackUnderflow" /\ run.maximum = Unbounded
    BY <1>2, <1>3, <1>4, RunFits
<1>7. terminals # <<>> => terminals[Len(terminals)] # Eof
    <2>1. terminals # <<>> => Len(terminals) \in 1..Len(terminals)
        BY <1>1, EmptySeq
    <2> QED
        BY <2>1
<1> HIDE DEF run
<1>8. run.decision \in {"Rejected", "Continue"}
    BY <1>6, <1>7 DEF Expected, Settled, Live
<1> QED
    BY <1>5, <1>8 DEF run, c

(* On the table of an automaton no decision makes prepare_parser give up:    *)
(* every state and head is classified (classify_decision).                   *)
THEOREM AutomatonIsClassified == ASSUME AutomatonTable PROVE Classified
<1> SUFFICES ASSUME NEW state \in ParserStates, NEW h \in SequenceHeads
             PROVE  Run(h, BeginSymbolic(state, Unbounded)).decision \in Decisions
    BY DEF Classified
<1>1. h \in Seq(Terminals) /\ Len(h) \in Nat /\ \A i \in 1..Len(h) : h[i] # Eof
    BY HeadsGoOn, LenProperties
<1>2. EndsLast(h)
    BY <1>1 DEF EndsLast
<1>3. PICK s \in Paths : Top(s) = state
    BY DEF AutomatonTable, StatesReached
<1> DEFINE b == SubSeq(s, 1, Len(s) - 1)
           c == BeginSymbolic(state, Unbounded)
<1>4. b \in Seq(ParserStates) /\ Fits(b, h, c) /\ Live(c)
    BY <1>3, BeginFits
<1>5. c.maximum = Unbounded
    BY DEF BeginSymbolic, Begin
<1> HIDE DEF b, c
<1>6. LET run == Run(h, c) IN Expected(h, run) /\ ~Live(run) /\ run.maximum = Unbounded
    BY <1>1, <1>2, <1>4, <1>5, RunFits
<1>7. Run(h, c).decision \in Decisions
    BY <1>6 DEF Expected, Settled, Live, Decisions
<1> QED
    BY <1>7 DEF c

(* And no mask fails: fill_bucket_at and fill_eos_token find no head and no  *)
(* end of sequence corrupt, on any stack of the table.                       *)
THEOREM AutomatonNeverCorrupt ==
    ASSUME AutomatonTable, NEW status \in Statuses, status.phase = "Running",
           IsPath(StartState, status.stack)
    PROVE  ~MaskFails(status)
<1>1. Classified
    BY AutomatonIsClassified
<1> DEFINE s == status.stack
<1>2. status.lexer \in Sources /\ s \in Paths /\ s \in Seq(ParserStates) \ {<<>>}
    BY DEF Statuses, Paths, IsPath
<1> HIDE DEF s
<1>3. ASSUME NEW h \in DOMAIN Buckets[status.lexer] PROVE SequenceVerdict(s, h) # "failed"
    <2>1. h \in SequenceHeads
        BY <1>2 DEF SequenceHeads
    <2>2. h \in Seq(Terminals) \ {<<>>} /\ \A i \in 1..Len(h) : h[i] # Eof
        BY <2>1, HeadsGoOn
    <2>3. /\ Direct(h) \in Seq(Terminals) /\ Probe(h) \in Seq(Terminals)
          /\ Len(h) \in Nat \ {0}
          /\ Len(Direct(h)) = Len(h) - 1 /\ Len(Probe(h)) = 1
          /\ \A i \in 1..Len(h) - 1 : Direct(h)[i] = h[i]
          /\ Probe(h)[1] = h[Len(h)]
        BY <2>2, HeadParts
    <2>4. \A i \in 1..Len(Direct(h)) : Direct(h)[i] # Eof
        BY <2>2, <2>3
    <2>5. \A i \in 1..Len(Probe(h)) : Probe(h)[i] # Eof
        BY <2>2, <2>3
    <2> DEFINE direct == Run(Direct(h), BeginConcrete(s))
    <2>6. direct.decision \in {"Rejected", "Continue"} /\ direct.stack \in Paths
        BY <1>2, <2>3, <2>4, ReadsOrRejects
    <2> DEFINE last == Run(Probe(h), BeginConcrete(direct.stack)).decision
    <2> HIDE DEF direct
    <2>7. last \in {"Rejected", "Continue"}
        BY <2>3, <2>5, <2>6, ReadsOrRejects
    <2>8. HeadAllowed(s, h) = IF direct.decision = "Continue" THEN HeadVerdict(last) ELSE "denied"
        BY <2>6 DEF HeadAllowed, direct
    <2> HIDE DEF last
    <2>9. HeadAllowed(s, h) # "failed"
        BY <2>7, <2>8 DEF HeadVerdict
    <2> QED
        BY <1>1, <1>2, <2>1, <2>2, <2>9, TableIsTheStack
<1>4. ASSUME NEW token \in Tokens, TokenTable[status.lexer][token].kind = "Finished"
      PROVE  EvaluateToken(status, token).error # "CorruptPreparedData"
    <2> DEFINE execution == Execute(status.lexer, token)
               e == execution.emitted
    <2>1. TokenTable[status.lexer][token] = execution /\ execution \in Executions
        BY <1>2, ExecutionType DEF TokenTable
    <2> HIDE DEF execution
    <2>2. e \in Seq(Terminals) /\ \A i \in 1..Len(e) : e[i] # Eof
        <3>1. e \in Seq(LexerTerminals)
            BY <1>4, <2>1 DEF Executions
        <3>2. \A i \in 1..Len(e) : e[i] \in LexerTerminals
            BY <3>1, ElementOfSeq
        <3>3. LexerTerminals \subseteq Terminals \ {Eof}
            BY PreparedAssumption
        <3> HIDE DEF e
        <3> QED
            BY <3>1, <3>2, <3>3
    <2> DEFINE read == Run(e, BeginConcrete(s))
               end == Run(<<Eof>>, BeginConcrete(read.stack))
    <2>3. EvaluateToken(status, token) = EvaluateEos(s, e)
        BY <1>4, <2>1 DEF EvaluateToken, EvaluateExecution, s
    <2> HIDE DEF e
    <2>4. read.decision \in {"Rejected", "Continue"} /\ read.stack \in Paths
        BY <1>2, <2>2, ReadsOrRejects
    <2>5. EvaluateEos(s, e) = IF read.decision = "Continue" THEN AtEnd(end.decision)
                              ELSE Refused("ConstraintViolation")
        BY <2>4 DEF EvaluateEos
    <2> HIDE DEF read
    <2>6. end.decision \in {"Rejected", "Continue", "Accepted"}
        <3> DEFINE c == BeginConcrete(read.stack)
        <3>1. <<Eof>> \in Seq(Terminals) /\ EndsLast(<<Eof>>)
            BY PreparedAssumption DEF EndsLast
        <3>2. Fits(<<>>, <<Eof>>, c) /\ Live(c) /\ <<>> \in Seq(ParserStates)
            BY <2>4, BeginFits
        <3>3. c.underflow = "StackUnderflow" /\ c.maximum = Unbounded
            BY DEF BeginConcrete, Begin
        <3> HIDE DEF c
        <3>4. LET run == Run(<<Eof>>, c)
              IN /\ Expected(<<Eof>>, run) /\ ~Live(run)
                 /\ run.underflow = "StackUnderflow" /\ run.maximum = Unbounded
            BY <3>1, <3>2, <3>3, RunFits
        <3>5. Run(<<Eof>>, c).decision \in {"Rejected", "Continue", "Accepted"}
            BY <3>4 DEF Expected, Settled, Live
        <3> QED
            BY <3>5 DEF c
    <2> HIDE DEF end
    <2> QED
        BY <2>3, <2>5, <2>6 DEF AtEnd, Granted, Refused
<1> QED
    BY <1>3, <1>4 DEF MaskFails, EosWith, s

(* What is kept while the two runs of Classification are on.                 *)
BothFit ==
    /\ ClassificationTypeOK /\ EndsLast(head)
    /\ Fits(Below, head, sym) /\ Expected(head, sym) /\ sym.underflow = "Dependent"
    /\ Fits(<<>>, ConTerminals, con) /\ Expected(ConTerminals, con)
    /\ con.underflow = "StackUnderflow" /\ con.maximum = Unbounded
    /\ part = "direct" => con.decision \in {"running", "Rejected"}
    /\ verdict # "failed"

LEMMA InitFits ==
    ASSUME \A h \in HeadsTried : EndsLast(h), Stacks \subseteq Paths
    PROVE  ClassificationInit => BothFit
<1> SUFFICES ASSUME ClassificationInit PROVE BothFit
    OBVIOUS
<1>1. ClassificationTypeOK
    BY InitIInv DEF IInv
<1>2. head \in HeadsTried /\ stack \in Paths /\ part = "direct" /\ verdict = "pending"
    BY DEF ClassificationInit
<1>3. PICK limit \in Nat \cup {Unbounded} : sym = BeginSymbolic(Top(stack), limit)
    BY ClassificationAssumption DEF ClassificationInit
<1>4. con = BeginConcrete(stack)
    BY DEF ClassificationInit
<1>5. /\ Fits(Below, head, sym) /\ Live(sym) /\ sym.underflow = "Dependent"
      /\ Fits(<<>>, ConTerminals, con) /\ Live(con)
      /\ con.underflow = "StackUnderflow" /\ con.maximum = Unbounded
    <2>1. Fits(Below, head, sym) /\ Live(sym)
        BY <1>2, <1>3, BeginFits DEF Below
    <2>2. Fits(<<>>, ConTerminals, con) /\ Live(con)
        BY <1>2, <1>4, BeginFits DEF Unbounded
    <2>3. sym.underflow = "Dependent"
        BY <1>3 DEF BeginSymbolic, Begin
    <2>4. con.underflow = "StackUnderflow" /\ con.maximum = Unbounded
        BY <1>4 DEF BeginConcrete, Begin
    <2> QED
        BY <2>1, <2>2, <2>3, <2>4
<1> QED
    BY <1>1, <1>2, <1>5 DEF BothFit, Expected, Settled, Live

LEMMA NextFits ==
    ASSUME AutomatonTable
    PROVE  BothFit /\ [ClassificationNext]_runVars => BothFit'
<1> SUFFICES ASSUME BothFit, [ClassificationNext]_runVars PROVE BothFit'
    OBVIOUS
<1>1. /\ ClassificationTypeOK /\ EndsLast(head)
      /\ head \in Seq(Terminals) \ {<<>>} /\ stack \in Seq(ParserStates) \ {<<>>}
      /\ ConTerminals \in Seq(Terminals)
      /\ sym \in Configurations /\ con \in Configurations /\ sym.stack # <<>> /\ con.stack # <<>>
      /\ part \in {"direct", "probe"}
    BY HeadParts DEF BothFit, ClassificationTypeOK, ConTerminals
<1>2. ClassificationTypeOK'
    BY <1>1, NextTypeOK DEF ClassificationTypeOK, runVars
<1>3. Below \in Seq(ParserStates)
    BY <1>1, TopAndRest DEF Below
<1>4. /\ EndsLast(Direct(head)) /\ EndsLast(Probe(head)) /\ EndsLast(ConTerminals)
      /\ Direct(head) # <<>> => Direct(head)[Len(Direct(head))] # Eof
    <2>1. /\ Direct(head) \in Seq(Terminals) /\ Probe(head) \in Seq(Terminals)
          /\ Len(head) \in Nat \ {0}
          /\ Len(Direct(head)) = Len(head) - 1 /\ Len(Probe(head)) = 1
          /\ \A i \in 1..Len(head) - 1 : Direct(head)[i] = head[i]
        BY <1>1, HeadParts
    <2>2. EndsLast(Direct(head)) /\ EndsLast(Probe(head))
        BY <1>1, <2>1 DEF EndsLast
    <2>3. Direct(head) # <<>> => Len(Direct(head)) \in 1..Len(head) - 1
        BY <2>1, EmptySeq
    <2>4. Direct(head) # <<>> => Direct(head)[Len(Direct(head))] # Eof
        BY <1>1, <2>1, <2>3 DEF EndsLast
    <2> QED
        BY <2>2, <2>4 DEF ConTerminals
<1>5. CASE StartProbe
    <2>1. con.stack \in Paths
        <3>1. con.stack \in Seq(ParserStates)
            BY <1>1 DEF Configurations
        <3>2. <<>> \o con.stack = con.stack
            BY <3>1, ConcatEmptySeq
        <3> QED
            BY <3>1, <3>2 DEF BothFit, Fits, Paths
    <2>2. con' = BeginConcrete(con.stack) /\ part' = "probe" /\ UNCHANGED <<head, stack, sym, verdict>>
        BY <1>5 DEF StartProbe
    <2>3. Fits(<<>>, ConTerminals', con') /\ Live(con')
        BY <2>1, <2>2, BeginFits DEF Unbounded
    <2>4. con'.underflow = "StackUnderflow" /\ con'.maximum = Unbounded
        BY <2>2 DEF BeginConcrete, Begin
    <2>5. Below' = Below
        BY <2>2 DEF Below
    <2> QED
        BY <1>2, <2>2, <2>3, <2>4, <2>5 DEF BothFit, Expected, Settled, Live
<1>6. ASSUME Running(sym)
      PROVE  LET n == Step(head, sym)
             IN Fits(Below, head, n) /\ Expected(head, n) /\ n.underflow = "Dependent"
    <2>1. Fits(Below, head, sym) /\ Live(sym) /\ sym.underflow = "Dependent"
        BY <1>6 DEF BothFit, Running, Live
    <2>2. KeepsRun(sym, Step(head, sym))
        BY <1>1, StepFollows
    <2> QED
        BY <1>1, <1>3, <2>1, <2>2, StepFits DEF Expected, KeepsRun
<1>7. ASSUME Running(con), ~PrefixDone
      PROVE  LET n == Step(ConTerminals, con)
             IN /\ Fits(<<>>, ConTerminals, n) /\ Expected(ConTerminals, n)
                /\ n.underflow = "StackUnderflow" /\ n.maximum = Unbounded
                /\ part = "direct" => n.decision \in {"running", "Rejected"}
    <2> DEFINE n == Step(ConTerminals, con)
    <2>1. /\ Fits(<<>>, ConTerminals, con) /\ Live(con) /\ <<>> \in Seq(ParserStates)
          /\ con.underflow = "StackUnderflow" /\ con.maximum = Unbounded
        BY <1>7 DEF BothFit, Running, Live
    <2>2. KeepsRun(con, n)
        BY <1>1, StepFollows
    <2>3. /\ Fits(<<>>, ConTerminals, n)
          /\ IF con.index > Len(ConTerminals) THEN n.decision = "Continue"
             ELSE Settled(ConTerminals, n)
        BY <1>1, <1>4, <2>1, StepFits
    <2>4. n.underflow = "StackUnderflow" /\ n.maximum = Unbounded
        BY <2>1, <2>2 DEF KeepsRun
    <2> HIDE DEF n
    <2>5. part = "direct" => n.decision \in {"running", "Rejected"}
        <3> SUFFICES ASSUME part = "direct" PROVE n.decision \in {"running", "Rejected"}
            OBVIOUS
        <3>1. ConTerminals = Direct(head) /\ ~(con.index > Len(ConTerminals))
            BY <1>7 DEF ConTerminals, PrefixDone
        <3> QED
            BY <1>4, <2>3, <2>4, <3>1 DEF Settled
    <2> QED
        BY <2>3, <2>4, <2>5 DEF Expected, n
<1>8. CASE StepBoth
    <2>1. /\ sym' = Step(head, sym) /\ con' = Step(ConTerminals, con)
          /\ UNCHANGED <<head, stack, part, verdict>> /\ Running(sym) /\ Running(con) /\ ~PrefixDone
        BY <1>8 DEF StepBoth
    <2>2. Below' = Below /\ ConTerminals' = ConTerminals
        BY <2>1 DEF Below, ConTerminals
    <2>3. Fits(Below, head, sym') /\ Expected(head, sym') /\ sym'.underflow = "Dependent"
        BY <1>6, <2>1
    <2>4. /\ Fits(<<>>, ConTerminals, con') /\ Expected(ConTerminals, con')
          /\ con'.underflow = "StackUnderflow" /\ con'.maximum = Unbounded
          /\ part = "direct" => con'.decision \in {"running", "Rejected"}
        BY <1>7, <2>1
    <2> QED
        BY <1>2, <2>1, <2>2, <2>3, <2>4 DEF BothFit
<1>9. CASE StepConcrete
    <2>1. /\ con' = Step(ConTerminals, con)
          /\ UNCHANGED <<head, stack, sym, part, verdict>> /\ Running(con) /\ ~PrefixDone
        BY <1>9 DEF StepConcrete
    <2>2. Below' = Below /\ ConTerminals' = ConTerminals
        BY <2>1 DEF Below, ConTerminals
    <2>3. /\ Fits(<<>>, ConTerminals, con') /\ Expected(ConTerminals, con')
          /\ con'.underflow = "StackUnderflow" /\ con'.maximum = Unbounded
          /\ part = "direct" => con'.decision \in {"running", "Rejected"}
        BY <1>7, <2>1
    <2> QED
        BY <1>2, <2>1, <2>2, <2>3 DEF BothFit
<1>10. CASE Answer
    <2>1. /\ con.decision # "running" /\ UNCHANGED <<head, stack, sym, con, part>>
          /\ verdict' = IF part = "direct" /\ con.decision # "Rejected" THEN "failed"
                        ELSE HeadVerdict(con.decision)
        BY <1>10 DEF Answer, Running
    <2>2. Below' = Below /\ ConTerminals' = ConTerminals
        BY <2>1 DEF Below, ConTerminals
    <2>3. con.decision \in {"Rejected", "Continue", "Accepted"}
        BY <2>1 DEF BothFit, Expected, Settled
    <2>4. part = "direct" => con.decision = "Rejected"
        BY <2>1 DEF BothFit
    <2>5. verdict' # "failed"
        BY <2>1, <2>3, <2>4 DEF HeadVerdict
    <2> QED
        BY <1>2, <2>1, <2>2, <2>5 DEF BothFit
<1>11. CASE UNCHANGED runVars
    <2>1. UNCHANGED <<head, stack, sym, con, part, verdict>>
        BY <1>11 DEF runVars
    <2>2. Below' = Below /\ ConTerminals' = ConTerminals
        BY <2>1 DEF Below, ConTerminals
    <2> QED
        BY <1>2, <2>1, <2>2 DEF BothFit
<1> QED
    BY <1>5, <1>8, <1>9, <1>10, <1>11 DEF ClassificationNext

(* On the table of an automaton neither the run that classifies a head nor   *)
(* the one that checks it meets an inconsistency that run_terminal and       *)
(* apply_reduction test for, whatever the head, which may end the input, the *)
(* stack of the table and the limit.                                         *)
THEOREM AutomatonNeverFails ==
    ASSUME AutomatonTable, \A h \in HeadsTried : EndsLast(h), Stacks \subseteq Paths
    PROVE  ClassificationSpec => []NeverFails
<1>1. BothFit => NeverFails
    BY DEF BothFit, NeverFails, Expected, Settled, Failures
<1> QED
    BY <1>1, InitFits, NextFits, PTL DEF ClassificationSpec
-----------------------------------------------------------------------------
(* The matcher and its contract.                                            *)
Contract == INSTANCE MatcherContract WITH
    Outcome <- RowOutcome, Mask <- MaskOf, MaskError <- MaskError

(* The contract speaks of calls as the engine does.                          *)
LEMMA SameCalls ==
    /\ Contract!Rows = Rows /\ Contract!Advancing = Advancing /\ Contract!Masking = Masking
    /\ Contract!WithResults = WithResults
    /\ Contract!NoRequest = NoRequest /\ Contract!NoReply = NoReply /\ Contract!Pending = Pending
    /\ \A r : /\ Contract!First(r) = First(r) /\ Contract!Last(r) = Last(r)
              /\ Contract!Cleared(r) = Cleared(r) /\ Contract!Stale(r) = Stale(r)
    /\ \A r, row : Contract!TokenFor(r, row) = TokenFor(r, row) /\ Contract!Slot(r, row) = Slot(r, row)
    /\ Contract!Argument = Argument
<1> USE DEF Contract!Rows, Rows, Contract!Advancing, Advancing, Contract!Masking, Masking,
            Contract!WithResults, WithResults, Contract!OneRow, OneRow,
            Contract!OptionalTokens, OptionalTokens
<1>1. \A r : Contract!BatchArguments(r) = BatchArguments(r)
    BY DEF Contract!BatchArguments, BatchArguments
<1>2. Contract!Completed = Completed
    BY DEF Contract!Completed, Completed
<1>3. Contract!Argument = Argument
    BY <1>1, <1>2 DEF Contract!Argument, Argument, Contract!ArgumentError, ArgumentError
<1> QED
    BY <1>3 DEF Contract!NoRequest, NoRequest, Contract!NoReply, NoReply, Contract!Pending, Pending,
        Contract!First, First, Contract!Last, Last, Contract!Cleared, Cleared,
        Contract!Stale, Stale, Contract!TokenFor, TokenFor, Contract!Slot, Slot

Named == First(request)..Last(request)
RowResult(row) == RowOutcome(states[row], TokenFor(request, row))
Successor(row) ==
    IF request.op \in Advancing /\ row \in Named THEN RowResult(row).status ELSE states[row]
Masked == {row \in Named : request.op \in {"mask", "masks"} \/ ~Done(Successor(row))}

LEMMA SameRows ==
    ASSUME request \in Requests, Argument = "none"
    PROVE  /\ First(request) \in Nat /\ Last(request) \in Nat /\ First(request) <= Last(request)
           /\ Named \subseteq Rows
           /\ \A row \in Named, other \in Named :
                Slot(request, row) = Slot(request, other) => row = other
<1>1. request.op \in Advancing \cup Masking /\ request.row \in Nat
    BY CallsAssumption DEF WellFormed
<1>2. CASE request.op \in OneRow
    <2>1. request.row \in Rows
        BY <1>2 DEF Argument, ArgumentError
    <2> QED
        BY <1>2, <2>1 DEF First, Last, Named, Rows
<1>3. CASE request.op \notin OneRow
    BY <1>3, CallsAssumption DEF First, Last, Named, Rows, Slot, OneRow
<1> QED
    BY <1>2, <1>3

LEMMA SameResults ==
    ASSUME request \in Requests, Argument = "none"
    PROVE  /\ Contract!Named = Named
           /\ \A row : Contract!RowOutcome(row) = RowResult(row)
           /\ Contract!Successors = [row \in Rows |-> Successor(row)]
           /\ Contract!Masked = Masked
<1>1. Contract!Named = Named
    BY SameCalls DEF Contract!Named, Named
<1>2. \A row : Contract!RowOutcome(row) = RowResult(row)
    BY SameCalls DEF Contract!RowOutcome, RowResult
<1>3. Contract!Successors = [row \in Rows |-> Successor(row)]
    BY <1>1, <1>2, SameCalls DEF Contract!Successors, Successor, Contract!Is
<1>4. \A row \in Named : Contract!Successors[row] = Successor(row)
    BY <1>3, SameRows
<1> QED
    BY <1>1, <1>2, <1>3, <1>4 DEF Contract!Masked, Masked, Contract!Is
-----------------------------------------------------------------------------
(* The masks that are in the buffer when the rows before n are filled, each  *)
(* as the contract will have it.                                             *)
MaskAt(slot) == UNION {MaskOf(Successor(row)) : row \in {row \in Masked : Slot(request, row) = slot}}
MasksBefore(n) ==
    [slot \in 1..request.slots |->
       IF \E row \in Masked : row < n /\ Slot(request, row) = slot THEN MaskAt(slot) ELSE {}]

LEMMA MaskOfARow ==
    ASSUME request \in Requests, Argument = "none", NEW row \in Masked
    PROVE  MaskAt(Slot(request, row)) = MaskOf(Successor(row))
<1>1. {other \in Masked : Slot(request, other) = Slot(request, row)} = {row}
    BY SameRows DEF Masked
<1> QED
    BY <1>1 DEF MaskAt

LEMMA NoMasksYet ==
    ASSUME request \in Requests, Argument = "none"
    PROVE  MasksBefore(First(request)) = Cleared(request)
BY SameRows DEF MasksBefore, Cleared, Masked, Named

LEMMA AllMasks ==
    ASSUME request \in Requests, Argument = "none"
    PROVE  MasksBefore(Last(request) + 1) = [slot \in 1..request.slots |-> Contract!MaskAt(slot)]
<1>1. \A row \in Masked : row < Last(request) + 1
    BY SameRows DEF Masked, Named
<1>2. ASSUME NEW slot, ~\E row \in Masked : Slot(request, row) = slot
      PROVE  MaskAt(slot) = {}
    <2>1. {row \in Masked : Slot(request, row) = slot} = {}
        BY <1>2
    <2> QED
        BY <2>1 DEF MaskAt
<1>3. ASSUME NEW slot PROVE Contract!MaskAt(slot) = MaskAt(slot)
    <2>1. \A row \in Masked : Contract!Successors[row] = Successor(row)
        BY SameResults, SameRows DEF Masked
    <2>2. Contract!Masked = Masked /\ \A row : Contract!Slot(request, row) = Slot(request, row)
        BY SameResults, SameCalls
    <2> QED
        BY <2>1, <2>2 DEF Contract!MaskAt, MaskAt
<1> QED
    BY <1>1, <1>2, <1>3 DEF MasksBefore

(* A row that has been filled is one more.                                   *)
LEMMA OneMoreMask ==
    ASSUME request \in Requests, Argument = "none", NEW row \in Named,
           NEW filled,
           row \in Masked => filled = [MasksBefore(row) EXCEPT ![Slot(request, row)] = MaskOf(Successor(row))],
           row \notin Masked => filled = MasksBefore(row)
    PROVE  filled = MasksBefore(row + 1)
<1>1. row \in Nat /\ \A other \in Masked : other \in Nat
    BY SameRows DEF Named, Masked
<1>2. CASE row \in Masked
    <2>1. ASSUME NEW slot \in 1..request.slots
          PROVE  MasksBefore(row + 1)[slot] = IF slot = Slot(request, row) THEN MaskOf(Successor(row))
                                              ELSE MasksBefore(row)[slot]
        BY <1>1, <1>2, <2>1, MaskOfARow DEF MasksBefore
    <2>2. filled = [slot \in 1..request.slots |->
                      IF slot = Slot(request, row) THEN MaskOf(Successor(row))
                      ELSE MasksBefore(row)[slot]]
        BY <1>2 DEF MasksBefore
    <2> QED
        BY <2>1, <2>2 DEF MasksBefore
<1>3. CASE row \notin Masked
    BY <1>1, <1>3 DEF MasksBefore
<1> QED
    BY <1>2, <1>3
-----------------------------------------------------------------------------
(* How far the call has come: the rows before n are staged, and their masks  *)
(* filled.                                                                   *)
StagedTo(n) ==
    \A row \in Named : row < n =>
        RowResult(row).error = "none" /\ staging[row] = RowResult(row).status
FilledTo(n) ==
    /\ output = MasksBefore(n)
    /\ \A row \in Masked : row < n => MaskError(Successor(row)) = "none"

Called == call = InPhase("called", First(request)) /\ output = Stale(request)
Staging ==
    /\ call.at = "stage" /\ request.op \in Advancing
    /\ StagedTo(call.row) /\ output = Cleared(request)
AllStaged == request.op \in Advancing => StagedTo(Last(request) + 1)
Filling == call.at = "fill" /\ request.op \in Masking /\ AllStaged /\ FilledTo(call.row)
Committing ==
    /\ call.at = "commit" /\ AllStaged
    /\ request.op \in Masking => FilledTo(Last(request) + 1)
    /\ request.op \notin Masking => output = Cleared(request)

AtARow == Argument = "none" /\ call.row \in Named /\ (Staging \/ Filling \/ Committing)
Idle == call = NoCall /\ reply # Pending
InCall == request \in Requests /\ reply = Pending /\ (Called \/ AtARow)
Batches ==
    states = [row \in Rows |-> states[row]] /\ staging = [row \in Rows |-> staging[row]]

Progress == Batches /\ (Idle \/ InCall)

(* A step of the call that leaves the rows and the request alone leaves alone*)
(* all that they determine.                                                  *)
LEMMA SameWork ==
    ASSUME states' = states, request' = request
    PROVE  /\ Argument' = Argument /\ Named' = Named /\ Masked' = Masked
           /\ \A row : RowResult(row)' = RowResult(row) /\ Successor(row)' = Successor(row)
           /\ \A n : MasksBefore(n)' = MasksBefore(n)
<1>1. Argument' = Argument /\ Named' = Named
    BY DEF Argument, Completed, Named
<1>2. \A row : RowResult(row)' = RowResult(row)
    BY DEF RowResult
<1>3. \A row : Successor(row)' = Successor(row)
    BY <1>1, <1>2 DEF Successor
<1>4. Masked' = Masked
    BY <1>1, <1>3 DEF Masked
<1>5. \A slot : MaskAt(slot)' = MaskAt(slot)
    BY <1>3, <1>4 DEF MaskAt
<1> QED
    BY <1>1, <1>2, <1>3, <1>4, <1>5 DEF MasksBefore

Implements == Progress' /\ (Contract!Next \/ UNCHANGED Contract!vars)

(* The steps that end a call without touching a row.                         *)
LEMMA Ends ==
    ASSUME Progress, NEW error, NEW masks, Return(error, masks), UNCHANGED states,
           staging' = [row \in Rows |-> staging'[row]]
    PROVE  Progress' /\ Contract!Answer(error, masks) /\ UNCHANGED states
<1>1. reply' # Pending
    BY DEF Return, Pending
<1> QED
    BY <1>1, SameCalls DEF Progress, Batches, Idle, Return, Contract!Answer

(* The end of a call for want of memory.                                     *)
LEMMA EndsForMemory ==
    ASSUME Progress, InCall, NEW masks, Return("AllocationFailure", masks), UNCHANGED states,
           staging' = [row \in Rows |-> staging'[row]],
           masks = Cleared(request) \/ (request.op \in WithResults /\ masks = Stale(request))
    PROVE  Implements
<1>1. Contract!RunOut
    BY Ends, SameCalls DEF Contract!RunOut, Contract!Is, InCall
<1> QED
    BY <1>1, Ends DEF Implements, Contract!Next

(* The end of a call with an error it promised.                              *)
LEMMA EndsForAReason ==
    ASSUME Progress, InCall, Return(Contract!Why, Cleared(request)), UNCHANGED states,
           staging' = [row \in Rows |-> staging'[row]], Contract!Why # "none"
    PROVE  Implements
<1>1. Contract!Fail
    BY Ends, SameCalls DEF Contract!Fail, InCall
<1> QED
    BY <1>1, Ends DEF Implements, Contract!Next
-----------------------------------------------------------------------------
LEMMA Begins ==
    ASSUME Progress, NEW r \in Requests, Call(r)
    PROVE  Implements
<1>1. Idle
    BY DEF Progress, InCall, AtARow, Called, Staging, Filling, Committing, Call, NoCall, InPhase
<1>2. Contract!Ask(r)
    BY <1>1, SameCalls DEF Contract!Ask, Idle, Call
<1>3. Progress'
    BY DEF Progress, Batches, InCall, Called, Call, First, Stale
<1> QED
    BY <1>2, <1>3 DEF Implements, Contract!Next

LEMMA Refuses ==
    ASSUME Progress, RefuseResults \/ RefuseArguments
    PROVE  Implements
<1>1. InCall
    BY DEF Progress, Idle, NoCall, InPhase, RefuseResults, RefuseArguments
<1>2. Called
    BY <1>1 DEF InCall, AtARow, Staging, Filling, Committing, RefuseResults, RefuseArguments
<1>3. staging' = [row \in Rows |-> staging'[row]] /\ UNCHANGED states
    BY DEF RefuseResults, RefuseArguments, Progress, Batches
<1>4. CASE RefuseResults
    BY <1>1, <1>2, <1>3, <1>4, EndsForMemory DEF RefuseResults, Called
<1>5. CASE RefuseArguments
    <2>1. Contract!Why = Argument /\ Argument # "none"
        BY <1>5, SameCalls DEF RefuseArguments, Contract!Why
    <2> QED
        BY <1>1, <1>3, <1>5, <2>1, EndsForAReason DEF RefuseArguments
<1> QED
    BY <1>4, <1>5

(* Steps within a call are stutters of the contract.                         *)
LEMMA Within ==
    ASSUME Progress, InCall, UNCHANGED <<states, request, reply>>,
           staging' = [row \in Rows |-> staging'[row]], (Called \/ AtARow)'
    PROVE  Implements
BY DEF Progress, Batches, InCall, Implements, Contract!vars

LEMMA Starts ==
    ASSUME Progress, Start
    PROVE  Implements
<1>1. InCall
    BY DEF Progress, Idle, NoCall, InPhase, Start
<1>2. Called
    BY <1>1 DEF InCall, AtARow, Staging, Filling, Committing, Start
<1>3. request \in Requests /\ Argument = "none" /\ First(request) \in Named
      /\ call.row = First(request)
    BY <1>1, <1>2, SameRows DEF InCall, Start, Called, InPhase, Named
<1>4. Argument' = Argument /\ Named' = Named /\ Masked' = Masked
      /\ request' = request /\ states' = states
      /\ MasksBefore(First(request))' = MasksBefore(First(request))
    BY SameWork DEF Start
<1>5. \A row \in Named : ~(row < First(request))
    BY <1>3, SameRows DEF Named
<1>6. call'.row = First(request) /\ output' = Cleared(request)
    BY <1>3 DEF Start, InPhase
<1>7. First(request)' = First(request) /\ Cleared(request)' = Cleared(request)
    BY <1>4 DEF First, Cleared
<1>8. CASE request.op \in Advancing
    <2>1. Staging'
        BY <1>4, <1>5, <1>6, <1>7, <1>8 DEF Staging, StagedTo, Start, InPhase
    <2> QED
        BY <1>1, <1>3, <1>4, <1>6, <2>1, Within DEF AtARow, Start, Progress, Batches
<1>9. CASE request.op \notin Advancing
    <2>1. request.op \in Masking
        BY <1>3, <1>9, CallsAssumption DEF WellFormed
    <2>2. FilledTo(First(request))'
        BY <1>3, <1>4, <1>5, <1>6, <1>7, NoMasksYet DEF FilledTo, Masked
    <2>3. Filling'
        BY <1>4, <1>6, <1>7, <1>9, <2>1, <2>2 DEF Filling, AllStaged, Start, InPhase, FilledTo
    <2> QED
        BY <1>1, <1>3, <1>4, <1>6, <2>3, Within DEF AtARow, Start, Progress, Batches
<1> QED
    BY <1>8, <1>9
-----------------------------------------------------------------------------
(* The next row or, after the last one, the next loop.                       *)
LEMMA NextRows ==
    ASSUME request \in Requests, Argument = "none", call.row \in Named,
           NEW after, NextRow(after)
    PROVE  /\ call.row # Last(request) => call' = InPhase(call.at, call.row + 1)
                                          /\ call.row + 1 \in Named
           /\ call.row = Last(request) => call' = InPhase(after, First(request))
                                          /\ First(request) \in Named
BY SameRows DEF NextRow, Named

LEMMA Stages ==
    ASSUME Progress, StageRow(Outcome)
    PROVE  Implements
<1>1. InCall
    BY DEF Progress, Idle, NoCall, InPhase, StageRow
<1>2. AtARow /\ Staging /\ request \in Requests /\ Argument = "none" /\ call.row \in Named
    BY <1>1 DEF InCall, AtARow, Called, Staging, Filling, Committing, StageRow, InPhase
<1>3. /\ Argument' = Argument /\ Named' = Named /\ Masked' = Masked
      /\ \A row : RowResult(row)' = RowResult(row)
      /\ \A row : Successor(row)' = Successor(row)
      /\ \A n : MasksBefore(n)' = MasksBefore(n)
      /\ request' = request /\ output' = output
    BY SameWork DEF StageRow
<1>4. Outcome = RowResult(call.row)
    BY DEF Outcome, RowResult
<1>5. Named \subseteq Rows /\ Last(request) \in Nat /\ \A row \in Named : row \in Nat /\ row <= Last(request)
    BY <1>2, SameRows DEF Named
<1>6. ASSUME NEW row \in Named, row < call.row + 1
      PROVE  RowResult(row).error = "none" /\ staging'[row] = RowResult(row).status
    <2>1. CASE row = call.row
        BY <1>2, <1>4, <1>5, <2>1 DEF StageRow, Progress, Batches
    <2>2. CASE row < call.row
        BY <1>2, <1>5, <2>2 DEF StageRow, Progress, Batches, Staging, StagedTo
    <2> QED
        BY <1>2, <1>5, <1>6, <2>1, <2>2
<1>7. staging' = [row \in Rows |-> staging'[row]]
    BY DEF StageRow, Progress, Batches
<1>8. CASE call.row # Last(request)
    <2>1. call' = InPhase("stage", call.row + 1) /\ call.row + 1 \in Named
        BY <1>2, <1>8, NextRows DEF StageRow
    <2>2. Staging'
        BY <1>2, <1>3, <1>6, <2>1 DEF Staging, StagedTo, InPhase, Cleared
    <2> QED
        BY <1>1, <1>2, <1>3, <1>7, <2>1, <2>2, Within DEF AtARow, StageRow, InPhase
<1>9. CASE call.row = Last(request)
    <2>1. call' = InPhase(IF request.op \in Masking THEN "fill" ELSE "commit", First(request))
          /\ First(request) \in Named
        BY <1>2, <1>9, NextRows DEF StageRow
    <2>2. AllStaged'
        BY <1>3, <1>6, <1>9 DEF AllStaged, StagedTo, Last
    <2>3. \A row \in Masked : ~(row < First(request))
        BY <1>2, SameRows DEF Masked, Named
    <2>4. output = Cleared(request)
        BY <1>2 DEF Staging
    <2>5. CASE request.op \in Masking
        <3>1. FilledTo(First(request))'
            BY <1>2, <1>3, <2>3, <2>4, NoMasksYet DEF FilledTo, First
        <3> QED
            BY <1>1, <1>2, <1>3, <1>7, <2>1, <2>2, <2>5, <3>1, Within
            DEF AtARow, Filling, FilledTo, StageRow, InPhase, First
    <2>6. CASE request.op \notin Masking
        BY <1>1, <1>2, <1>3, <1>7, <2>1, <2>2, <2>4, <2>6, Within
        DEF AtARow, Committing, StageRow, InPhase, Cleared
    <2> QED
        BY <2>5, <2>6
<1> QED
    BY <1>8, <1>9
(* The row that cannot be staged is the first that cannot.                   *)
LEMMA FirstStuck ==
    ASSUME request \in Requests, AtARow, Staging, RowResult(call.row).error # "none"
    PROVE  Contract!Why = Contract!Reported(RowResult(call.row).error)
<1>1. Argument = "none" /\ call.row \in Named
    BY DEF AtARow
<1>2. Contract!Stuck = {row \in Named : RowResult(row).error # "none"}
    BY <1>1, SameResults, SameCalls DEF Contract!Stuck, Contract!Is, Staging
<1>3. call.row \in Contract!Stuck /\ \A row \in Contract!Stuck : call.row <= row
    BY <1>1, <1>2, SameRows DEF Staging, StagedTo, Named
<1>4. \A row \in Contract!Stuck : row \in Nat
    BY <1>1, <1>2, SameRows DEF Named
<1>5. ASSUME NEW row \in Contract!Stuck, \A other \in Contract!Stuck : row <= other
      PROVE  row = call.row
    BY <1>3, <1>4, <1>5
<1>6. Contract!FirstOf(Contract!Stuck) = call.row
    BY <1>3, <1>5 DEF Contract!FirstOf
<1> QED
    BY <1>1, <1>3, <1>6, SameResults, SameCalls DEF Contract!Why

LEMMA StagingFails ==
    ASSUME Progress, StageFails(Outcome) \/ StageExhausts
    PROVE  Implements
<1>1. InCall
    BY DEF Progress, Idle, NoCall, InPhase, StageFails, StageExhausts
<1>2. AtARow /\ Staging /\ request \in Requests
    BY <1>1 DEF InCall, AtARow, Called, Staging, Filling, Committing, StageFails, StageExhausts, InPhase
<1>3. staging' = [row \in Rows |-> staging'[row]]
    BY DEF StageFails, StageExhausts, Leave, Progress, Batches
<1>4. CASE StageFails(Outcome)
    <2>1. Outcome = RowResult(call.row)
        BY DEF Outcome, RowResult
    <2>2. Contract!Why = Contract!Reported(Outcome.error)
        BY <1>2, <1>4, <2>1, FirstStuck DEF StageFails
    <2>3. Contract!Why # "none" /\ Return(Contract!Why, Cleared(request)) /\ UNCHANGED states
        BY <1>4, <2>2 DEF StageFails, Abandon, Contract!Reported, Contract!Is
    <2> QED
        BY <1>1, <1>3, <2>3, EndsForAReason
<1>5. CASE StageExhausts
    BY <1>1, <1>3, <1>5, EndsForMemory DEF StageExhausts, Abandon
<1> QED
    BY <1>4, <1>5
-----------------------------------------------------------------------------
(* What fill_mask_row and fill_staged_mask_row read is what the call makes   *)
(* of the row.                                                               *)
LEMMA FilledIsTheSuccessor ==
    ASSUME request \in Requests, AtARow, Filling
    PROVE  /\ Filled = Successor(call.row)
           /\ Skipped <=> call.row \notin Masked
<1>1. Argument = "none" /\ call.row \in Named
    BY DEF AtARow
<1>2. Filled = Successor(call.row)
    BY <1>1, SameRows DEF Filling, AllStaged, StagedTo, Filled, Successor, Named
<1> QED
    BY <1>1, <1>2 DEF Skipped, Masked, Filling, Masking, Advancing, OptionalTokens

LEMMA Fills ==
    ASSUME Progress, FillRow
    PROVE  Implements
<1>1. InCall
    BY DEF Progress, Idle, NoCall, InPhase, FillRow
<1>2. AtARow /\ Filling /\ request \in Requests /\ Argument = "none" /\ call.row \in Named
    BY <1>1 DEF InCall, AtARow, Called, Staging, Filling, Committing, FillRow, InPhase
<1>3. /\ Argument' = Argument /\ Named' = Named /\ Masked' = Masked
      /\ \A row : RowResult(row)' = RowResult(row)
      /\ \A row : Successor(row)' = Successor(row)
      /\ \A n : MasksBefore(n)' = MasksBefore(n)
      /\ request' = request /\ staging' = staging
    BY SameWork DEF FillRow
<1>4. \A row \in Named : row \in Nat
    BY <1>2, SameRows DEF Named
<1>5. output' = MasksBefore(call.row + 1)
    <2>1. output = MasksBefore(call.row)
        BY <1>2 DEF Filling, FilledTo
    <2> QED
        BY <1>2, <2>1, FilledIsTheSuccessor, OneMoreMask DEF FillRow
<1>6. ASSUME NEW row \in Masked, row < call.row + 1
      PROVE  MaskError(Successor(row)) = "none"
    <2>1. CASE row = call.row
        BY <1>2, <1>6, <2>1, FilledIsTheSuccessor DEF FillRow
    <2>2. CASE row < call.row
        BY <1>2, <1>6, <2>2 DEF Filling, FilledTo
    <2> QED
        BY <1>2, <1>4, <1>6, <2>1, <2>2 DEF Masked
<1>7. AllStaged' /\ request.op \in Masking
    BY <1>2, <1>3 DEF Filling, AllStaged, StagedTo, Last
<1>8. staging' = [row \in Rows |-> staging'[row]]
    BY DEF FillRow, Progress, Batches
<1>9. CASE call.row # Last(request)
    <2>1. call' = InPhase("fill", call.row + 1) /\ call.row + 1 \in Named
        BY <1>2, <1>9, NextRows DEF FillRow
    <2>2. FilledTo(call.row)'
        <3>1. call'.row = call.row + 1
            BY <2>1 DEF InPhase
        <3>2. output' = MasksBefore(call.row)'
            BY <1>3, <1>5, <3>1
        <3> QED
            BY <1>3, <1>6, <3>1, <3>2 DEF FilledTo
    <2> QED
        BY <1>1, <1>2, <1>3, <1>7, <1>8, <2>1, <2>2, Within DEF AtARow, Filling, FilledTo, FillRow, InPhase
<1>10. CASE call.row = Last(request)
    <2>1. call' = InPhase("commit", First(request)) /\ First(request) \in Named
        BY <1>2, <1>10, NextRows DEF FillRow
    <2>2. FilledTo(Last(request) + 1)'
        BY <1>3, <1>5, <1>6, <1>10 DEF FilledTo, Last
    <2> QED
        BY <1>1, <1>2, <1>3, <1>7, <1>8, <2>1, <2>2, Within
        DEF AtARow, Committing, FilledTo, FillRow, InPhase, Last
<1> QED
    BY <1>9, <1>10

(* The row without a mask is the first without, of rows that all advance.    *)
LEMMA NoneStuck ==
    ASSUME request \in Requests, Argument = "none", AllStaged
    PROVE  Contract!Stuck = {}
BY SameResults, SameCalls, SameRows DEF AllStaged, StagedTo, Contract!Stuck, Contract!Is, Named

LEMMA FirstMaskless ==
    ASSUME request \in Requests, AtARow, Filling, ~Skipped, MaskError(Filled) # "none"
    PROVE  Contract!Why = MaskError(Filled)
<1>1. Argument = "none" /\ call.row \in Named /\ AllStaged
    BY DEF AtARow, Filling
<1>2. Contract!Maskless = {row \in Masked : MaskError(Successor(row)) # "none"}
    <2>1. \A row \in Masked : Contract!Successors[row] = Successor(row)
        BY <1>1, SameResults, SameRows DEF Masked
    <2> QED
        BY <1>1, <2>1, SameResults, SameCalls DEF Contract!Maskless, Contract!Is, Filling
<1>3. call.row \in Contract!Maskless /\ \A row \in Contract!Maskless : row \in Nat /\ call.row <= row
    BY <1>1, <1>2, SameRows, FilledIsTheSuccessor DEF Filling, FilledTo, Named, Masked
<1>4. ASSUME NEW row \in Contract!Maskless, \A other \in Contract!Maskless : row <= other
      PROVE  row = call.row
    BY <1>3, <1>4
<1>5. Contract!FirstOf(Contract!Maskless) = call.row
    BY <1>3, <1>4 DEF Contract!FirstOf
<1>6. Contract!Successors[call.row] = Filled
    BY <1>1, SameResults, SameRows, FilledIsTheSuccessor
<1>7. Contract!Stuck = {}
    BY <1>1, NoneStuck
<1> QED
    BY <1>1, <1>3, <1>5, <1>6, <1>7, SameCalls DEF Contract!Why

LEMMA FillingFails ==
    ASSUME Progress, FillFails(MaskError(Filled)) \/ FillExhausts
    PROVE  Implements
<1>1. InCall
    BY DEF Progress, Idle, NoCall, InPhase, FillFails, FillExhausts
<1>2. AtARow /\ Filling /\ request \in Requests
    BY <1>1 DEF InCall, AtARow, Called, Staging, Filling, Committing, FillFails, FillExhausts, InPhase
<1>3. staging' = [row \in Rows |-> staging'[row]]
    BY DEF FillFails, FillExhausts, Progress, Batches
<1>4. CASE FillFails(MaskError(Filled))
    BY <1>1, <1>2, <1>3, <1>4, FirstMaskless, EndsForAReason DEF FillFails, Abandon
<1>5. CASE FillExhausts
    BY <1>1, <1>3, <1>5, EndsForMemory DEF FillExhausts, Abandon
<1> QED
    BY <1>4, <1>5
-----------------------------------------------------------------------------
(* The rows are swapped and the masks answered in one step.                  *)
LEMMA Commits ==
    ASSUME Progress, Commit \/ Deliver
    PROVE  Implements
<1>1. InCall
    BY DEF Progress, Idle, NoCall, InPhase, Commit, Deliver
<1>2. AtARow /\ Committing /\ request \in Requests /\ Argument = "none"
    BY <1>1 DEF InCall, AtARow, Called, Staging, Filling, Committing, Commit, Deliver, InPhase
<1>3. Contract!Stuck = {}
    BY <1>2, NoneStuck DEF Committing
<1>4. Contract!Maskless = {}
    <2>1. \A row \in Masked : Contract!Successors[row] = Successor(row) /\ row < Last(request) + 1
        BY <1>2, SameResults, SameRows DEF Masked, Named
    <2> QED
        BY <1>2, <2>1, SameResults, SameCalls DEF Contract!Maskless, Contract!Is, Committing, FilledTo
<1>5. states' = Contract!Successors
    <2>1. CASE Commit
        <3>1. \A row \in Named : staging[row] = Successor(row)
            BY <1>2, <2>1, SameRows DEF Commit, Committing, AllStaged, StagedTo, Successor, Named
        <3>2. \A row \in Rows : row \in Named <=> (request.op = "advance" => row = request.row)
            <4>1. request.op \in Advancing /\ request.row \in Nat
                BY <1>2, <2>1, CallsAssumption DEF Commit, WellFormed
            <4> QED
                BY <4>1 DEF Named, First, Last, OneRow, Rows, Advancing, OptionalTokens
        <3> QED
            BY <1>2, <2>1, <3>1, <3>2, SameResults DEF Commit, Successor
    <2>2. CASE Deliver
        BY <1>2, <2>2, SameResults DEF Deliver, Successor, Progress, Batches
    <2> QED
        BY <2>1, <2>2
<1>6. output = [slot \in 1..request.slots |-> Contract!MaskAt(slot)]
    <2>1. CASE request.op \in Masking
        BY <1>2, <2>1, AllMasks DEF Committing, FilledTo
    <2>2. CASE request.op \notin Masking
        <3>1. request.slots = 0
            BY <1>2, <2>2, CallsAssumption DEF WellFormed
        <3>2. 1..request.slots = {}
            BY <3>1
        <3> QED
            BY <1>2, <2>2, <3>2 DEF Committing, Cleared
    <2> QED
        BY <2>1, <2>2
<1>7. Contract!Succeed
    BY <1>1, <1>2, <1>3, <1>4, <1>5, <1>6, SameCalls
    DEF Contract!Succeed, Contract!Answer, Commit, Deliver, Return, InCall
<1>8. Progress'
    BY DEF Progress, Batches, Idle, Commit, Deliver, Return, Pending
<1> QED
    BY <1>7, <1>8 DEF Implements, Contract!Next
-----------------------------------------------------------------------------
(* Both start alike.                                                         *)
LEMMA Starting == Init => Progress /\ Contract!Init
<1>1. Init => Progress
    BY DEF Init, Progress, Batches, Idle, NoReply, Pending
<1>2. Init => Contract!Init
    BY SameCalls DEF Init, Contract!Init
<1> QED
    BY <1>1, <1>2

(* Every step of the matcher is one of the contract, or a stutter.           *)
LEMMA EveryStep ==
    ASSUME Progress, [Next]_vars
    PROVE  Implements
<1>1. CASE \E r \in Requests : Call(r)
    BY <1>1, Begins
<1>2. CASE RefuseResults \/ RefuseArguments
    BY <1>2, Refuses
<1>3. CASE Start
    BY <1>3, Starts
<1>4. CASE StageRow(Outcome)
    BY <1>4, Stages
<1>5. CASE StageFails(Outcome) \/ StageExhausts
    BY <1>5, StagingFails
<1>6. CASE FillRow
    BY <1>6, Fills
<1>7. CASE FillFails(MaskError(Filled)) \/ FillExhausts
    BY <1>7, FillingFails
<1>8. CASE Commit \/ Deliver
    BY <1>8, Commits
<1>9. CASE UNCHANGED vars
    <2>1. UNCHANGED <<states, staging, output, request, call, reply>>
        BY <1>9 DEF vars
    <2>2. UNCHANGED Contract!vars
        BY <2>1 DEF Contract!vars
    <2>3. Batches' /\ Idle' = Idle
        BY <2>1 DEF Progress, Batches, Idle
    <2>4. InCall' = InCall
        BY <2>1, SameWork DEF InCall, Called, AtARow, Staging, Filling, Committing, AllStaged,
            StagedTo, FilledTo, First, Last, Stale, Cleared
    <2> QED
        BY <2>2, <2>3, <2>4 DEF Progress, Implements
<1> QED
    BY <1>1, <1>2, <1>3, <1>4, <1>5, <1>6, <1>7, <1>8, <1>9 DEF Next

(* The matcher implements the contract: its batch, its request and its answer*)
(* are those of a matcher whose calls take one step.                         *)
THEOREM MatcherIsAtomic == Spec => Contract!Spec
<1>1. Init => Progress /\ Contract!Init
    BY Starting
<1>2. Progress /\ [Next]_vars => Progress' /\ [Contract!Next]_(Contract!vars)
    BY EveryStep DEF Implements
<1> QED
    BY <1>1, <1>2, PTL DEF Spec, Contract!Spec
-----------------------------------------------------------------------------
(* What the rows are.                                                        *)

(* A row's outcome is a status again, and a path under it.                   *)
LEMMA OutcomeKeepsPaths ==
    ASSUME NEW status \in Statuses, StackIsAPath(status), NEW token,
           RowOutcome(status, token).error = "none"
    PROVE  /\ RowOutcome(status, token).status \in Statuses
           /\ StackIsAPath(RowOutcome(status, token).status)
<1>1. status.phase \in {"Running", "Accepted"}
    BY DEF Statuses
<1>2. CASE status.phase = "Accepted" /\ token = NoToken
    <2>1. RowOutcome(status, token) = Granted(Accepted)
        BY <1>2 DEF RowOutcome
    <2> QED
        BY <2>1 DEF Granted, Accepted, Statuses, Sources, StackIsAPath
<1>3. CASE status.phase = "Running" /\ token = NoToken
    BY <1>3 DEF RowOutcome, Refused
<1>4. CASE token # NoToken
    <2>1. RowOutcome(status, token) = NextStatus(status, token)
        BY <1>4 DEF RowOutcome
    <2>2. status.phase = "Running" => IsPath(StartState, status.stack)
        BY DEF StackIsAPath
    <2> QED
        BY <2>1, <2>2, AdvancesKeepPaths DEF StackIsAPath
<1> QED
    BY <1>1, <1>2, <1>3, <1>4

Phases == {"idle", "called", "stage", "fill", "commit"}
RowsTyped == states \in [Rows -> Statuses] /\ RowsArePaths
Buffered(buffer) == buffer \in [DOMAIN buffer -> (SUBSET Tokens) \cup {StaleMask}]
Shaped ==
    /\ staging \in [Rows -> Statuses]
    /\ call \in [at : Phases, row : Nat]
    /\ call = NoCall => request = NoRequest
    /\ Buffered(output)

(* The inductive invariant.                                                  *)
Sound == RowsTyped /\ Progress /\ Shaped

(* The rows change only as the contract says: all those that a call names    *)
(* advance, or none.                                                         *)
LEMMA RowsStayTyped ==
    ASSUME Sound, Implements
    PROVE  RowsTyped'
<1>1. CASE UNCHANGED states
    BY <1>1 DEF Sound, RowsTyped, RowsArePaths
<1>2. CASE Contract!Succeed
    <2>1. request \in Requests /\ Argument = "none"
        BY <1>2, SameCalls DEF Contract!Succeed, Sound, Progress, Idle, InCall
    <2>2. states' = [row \in Rows |-> Successor(row)]
        BY <1>2, <2>1, SameResults DEF Contract!Succeed
    <2>3. ASSUME NEW row \in Rows
          PROVE  Successor(row) \in Statuses /\ StackIsAPath(Successor(row))
        <3>1. states[row] \in Statuses /\ StackIsAPath(states[row])
            BY DEF Sound, RowsTyped, RowsArePaths
        <3>2. CASE request.op \in Advancing /\ row \in Named
            <4>1. RowResult(row).error = "none"
                BY <1>2, <2>1, <3>2, SameResults, SameCalls
                DEF Contract!Succeed, Contract!Stuck, Contract!Is
            <4> QED
                BY <3>1, <3>2, <4>1, OutcomeKeepsPaths DEF RowResult, Successor
        <3>3. CASE ~(request.op \in Advancing /\ row \in Named)
            BY <3>1, <3>3 DEF Successor
        <3> QED
            BY <3>2, <3>3
    <2> QED
        BY <2>2, <2>3 DEF RowsTyped, RowsArePaths
<1>3. Contract!Succeed \/ UNCHANGED states
    BY DEF Implements, Contract!Next, Contract!vars, Contract!Ask, Contract!Fail, Contract!RunOut
<1> QED
    BY <1>1, <1>2, <1>3

(* Where a call is, it is at a row.                                          *)
LEMMA NextRowShaped ==
    ASSUME request \in Requests, Argument = "none", call.row \in Named, call.at \in Phases,
           NEW after \in Phases \ {"idle"}, NextRow(after), call.at # "idle"
    PROVE  call' \in [at : Phases, row : Nat] /\ call' # NoCall
<1>1. call.row + 1 \in Nat /\ First(request) \in Nat
    BY SameRows DEF Named
<1> QED
    BY <1>1 DEF NextRow, InPhase, NoCall

(* The buffers of a call.                                                    *)
LEMMA BuffersTyped ==
    /\ Buffered(<<>>)
    /\ \A r : Buffered(Stale(r)) /\ Buffered(Cleared(r))
    /\ \A buffer, slot, status :
         Buffered(buffer) /\ status \in Statuses => Buffered([buffer EXCEPT ![slot] = MaskOf(status)])
<1>1. ASSUME NEW status \in Statuses PROVE MaskOf(status) \subseteq Tokens
    <2>1. status.lexer \in Sources
        BY DEF Statuses
    <2>2. \A h \in DOMAIN Buckets[status.lexer] : Buckets[status.lexer][h] \subseteq Tokens
        BY <2>1 DEF Buckets
    <2> QED
        BY <2>2 DEF MaskOf, OrdinaryMask, EosWith
<1>2. ASSUME NEW buffer, Buffered(buffer), NEW slot, NEW status \in Statuses
      PROVE  Buffered([buffer EXCEPT ![slot] = MaskOf(status)])
    <2> DEFINE mask == MaskOf(status)
    <2>1. mask \in SUBSET Tokens
        BY <1>1
    <2> HIDE DEF mask
    <2>2. Buffered([buffer EXCEPT ![slot] = mask])
        BY <1>2, <2>1 DEF Buffered
    <2> QED
        BY <2>2 DEF mask
<1>3. Buffered(<<>>)
    BY DEF Buffered
<1>4. \A r : Buffered(Stale(r)) /\ Buffered(Cleared(r))
    <2>1. ASSUME NEW S, NEW value \in (SUBSET Tokens) \cup {StaleMask}
          PROVE  Buffered([slot \in S |-> value])
        BY DEF Buffered
    <2> QED
        BY <2>1, Zenon DEF Stale, Cleared
<1> QED
    BY <1>2, <1>3, <1>4

(* The ends of a call.                                                       *)
LEMMA ReturnShaped ==
    ASSUME NEW error, NEW masks, Return(error, masks), staging' \in [Rows -> Statuses]
    PROVE  Shaped'
BY BuffersTyped DEF Return, Shaped, NoCall, InPhase, Phases

(* What a failed evaluation leaves in staging is still a status.             *)
LEMMA LeaveShaped ==
    ASSUME Sound, Leave
    PROVE  staging' \in [Rows -> Statuses]
<1>1. CASE UNCHANGED staging
    BY <1>1 DEF Sound, Shaped
<1>2. ASSUME NEW left \in Leftovers, staging' = [staging EXCEPT ![call.row].stack = left]
      PROVE  staging' \in [Rows -> Statuses]
    <2>1. left \in Seq(ParserStates) /\ staging \in [Rows -> Statuses]
        BY EngineAssumption DEF Sound, Shaped
    <2>2. \A status \in Statuses : [status EXCEPT !.stack = left] \in Statuses
        BY <2>1 DEF Statuses
    <2> QED
        BY <1>2, <2>1, <2>2
<1> QED
    BY <1>1, <1>2 DEF Leave

LEMMA StepShaped ==
    ASSUME Sound, Next
    PROVE  Shaped'
<1>1. states \in [Rows -> Statuses] /\ staging \in [Rows -> Statuses]
    BY DEF Sound, RowsTyped, Shaped
<1>2. CASE \E r \in Requests : Call(r)
    <2> PICK r \in Requests : Call(r)
        BY <1>2
    <2>1. First(r) \in Nat
        BY CallsAssumption DEF First, WellFormed
    <2> QED
        BY <1>1, <2>1, BuffersTyped DEF Call, Shaped, InPhase, NoCall, Phases
<1>3. CASE RefuseResults \/ RefuseArguments
    BY <1>1, <1>3, ReturnShaped DEF RefuseResults, RefuseArguments
<1>4. CASE Start
    BY <1>1, <1>4, BuffersTyped DEF Start, Shaped, Sound, InPhase, NoCall, Phases
<1>5. ASSUME call.at \in {"stage", "fill", "commit"}
      PROVE  request \in Requests /\ Argument = "none" /\ call.row \in Named
             /\ call.at \in Phases
    BY <1>5 DEF Sound, Progress, Idle, InCall, AtARow, Called, NoCall, InPhase, Phases
<1>6. CASE StageRow(Outcome)
    <2>1. call.row \in Rows
        BY <1>5, <1>6, SameRows DEF StageRow
    <2>2. Outcome.status \in Statuses
        BY <1>6, <2>1, OutcomeKeepsPaths DEF StageRow, Outcome, Sound, RowsTyped, RowsArePaths
    <2>3. staging' \in [Rows -> Statuses]
        BY <1>1, <1>6, <2>2 DEF StageRow
    <2>4. call' \in [at : Phases, row : Nat] /\ call' # NoCall
        <3>1. (IF request.op \in Masking THEN "fill" ELSE "commit") \in Phases \ {"idle"}
            BY DEF Phases
        <3> QED
            BY <1>5, <1>6, <3>1, NextRowShaped DEF StageRow
    <2> QED
        BY <1>6, <2>3, <2>4 DEF StageRow, Sound, Shaped
<1>7. CASE StageFails(Outcome) \/ StageExhausts
    <2>1. staging' \in [Rows -> Statuses]
        BY <1>7, LeaveShaped DEF StageFails, StageExhausts
    <2> QED
        BY <1>7, <2>1, ReturnShaped DEF StageFails, StageExhausts, Abandon
<1>8. CASE FillRow
    <2>1. call' \in [at : Phases, row : Nat] /\ call' # NoCall
        <3>1. "commit" \in Phases \ {"idle"}
            BY DEF Phases
        <3> QED
            BY <1>5, <1>8, <3>1, NextRowShaped DEF FillRow
    <2>2. Filled \in Statuses
        <3>1. call.row \in Rows
            BY <1>5, <1>8, SameRows DEF FillRow
        <3> QED
            BY <1>1, <3>1 DEF Filled
    <2>3. Buffered(output')
        <3>1. Buffered(output)
            BY DEF Sound, Shaped
        <3>2. Buffered([output EXCEPT ![Slot(request, call.row)] = MaskOf(Filled)])
            BY <2>2, <3>1, BuffersTyped
        <3> QED
            BY <1>8, <3>1, <3>2 DEF FillRow
    <2> QED
        BY <1>1, <1>8, <2>1, <2>3 DEF FillRow, Shaped
<1>9. CASE FillFails(MaskError(Filled)) \/ FillExhausts
    BY <1>1, <1>9, ReturnShaped DEF FillFails, FillExhausts, Abandon
<1>10. CASE Commit
    <2>1. staging' \in [Rows -> Statuses]
        BY <1>1, <1>10 DEF Commit
    <2> QED
        BY <1>10, <2>1, ReturnShaped DEF Commit
<1>11. CASE Deliver
    BY <1>1, <1>11, ReturnShaped DEF Deliver
<1> QED
    BY <1>2, <1>3, <1>4, <1>6, <1>7, <1>8, <1>9, <1>10, <1>11 DEF Next

LEMMA SoundAlways == Spec => []Sound
<1>1. Init => Sound
    <2> SUFFICES ASSUME Init PROVE Sound
        OBVIOUS
    <2>1. Progress
        BY Starting
    <2>2. Initial \in Statuses /\ StackIsAPath(Initial) /\ Accepted \in Statuses
        <3>1. StartState \in ParserStates
            BY PreparedAssumption
        <3> QED
            BY <3>1 DEF Initial, RunningAt, Accepted, Statuses, Sources, StackIsAPath, IsPath
    <2> QED
        BY <2>1, <2>2, BuffersTyped DEF Init, Sound, RowsTyped, RowsArePaths, Shaped, NoCall, InPhase, Phases
<1>2. Sound /\ [Next]_vars => Sound'
    <2> SUFFICES ASSUME Sound, [Next]_vars PROVE Sound'
        OBVIOUS
    <2>1. Implements
        BY EveryStep DEF Sound
    <2>2. Progress' /\ RowsTyped'
        BY <2>1, RowsStayTyped DEF Implements
    <2>3. CASE Next
        BY <2>2, <2>3, StepShaped DEF Sound
    <2>4. CASE UNCHANGED vars
        BY <2>2, <2>4 DEF Sound, Shaped, vars, NoCall, InPhase, NoRequest, Buffered
    <2> QED
        BY <2>3, <2>4
<1> QED
    BY <1>1, <1>2, PTL DEF Spec

(* Every row, staged row, buffer and call is of its type (engine.rs, struct  *)
(* Matcher), and a call that has passed the argument checks is at a row.     *)
THEOREM MatcherIsTyped == Spec => []TypeOK
<1>1. Sound => TypeOK
    <2> SUFFICES ASSUME Sound PROVE TypeOK
        OBVIOUS
    <2>1. CASE Idle
        <3>1. CallType
            BY <2>1 DEF Sound, Shaped, Idle, CallType
        <3> QED
            BY <3>1 DEF Sound, RowsTyped, Shaped, Buffered, TypeOK
    <2>2. CASE InCall
        <3>1. call \in [at : {"called", "stage", "fill", "commit"}, row : Nat]
            <4>1. call.at # "idle"
                BY <2>2 DEF InCall, Called, AtARow, Staging, Filling, Committing, InPhase
            <4> QED
                BY <4>1 DEF Sound, Shaped, Phases
        <3>2. call.at # "called" => call.row \in Rows /\ Argument = "none"
            BY <2>2, SameRows DEF InCall, Called, AtARow, InPhase
        <3>3. CallType
            BY <2>2, <3>1, <3>2 DEF InCall, CallType
        <3> QED
            BY <3>3 DEF Sound, RowsTyped, Shaped, Buffered, TypeOK
    <2> QED
        BY <2>1, <2>2 DEF Sound, Progress
<1> QED
    BY <1>1, SoundAlways, PTL

(* A row that runs has a stack that starts at the start state and follows    *)
(* the shifts and gotos of the table, whatever calls failed on it and        *)
(* whatever they left in staging; a completed one has none.                  *)
THEOREM RowsKeepPaths == Spec => []RowsArePaths
<1>1. Sound => RowsArePaths
    BY DEF Sound, RowsTyped
<1> QED
    BY <1>1, SoundAlways, PTL

(* On every row that is reached, the mask is the set of the tokens that      *)
(* advance the row, unless filling it fails.                                 *)
MaskGrants ==
    \A row \in Rows :
       states[row].phase = "Running" /\ ~MaskFails(states[row]) =>
         MaskOf(states[row]) = {t \in Tokens : NextStatus(states[row], t).error = "none"}

(* The hypothesis is what prepare() leaves (PreparationProofs,               *)
(* FinishedIsClassified): fill_mask_with_scratch and advance agree.          *)
THEOREM MasksGrant == ASSUME Classified PROVE Spec => []MaskGrants
<1>1. Sound => MaskGrants
    <2> SUFFICES ASSUME Sound, NEW row \in Rows, states[row].phase = "Running",
                        ~MaskFails(states[row])
                 PROVE  MaskOf(states[row]) = {t \in Tokens : NextStatus(states[row], t).error = "none"}
        BY DEF MaskGrants
    <2> DEFINE status == states[row]
    <2>1. status \in Statuses /\ status.phase = "Running" /\ status.stack # <<>> /\ ~MaskFails(status)
        BY DEF Sound, RowsTyped, RowsArePaths, StackIsAPath, IsPath
    <2>2. MaskOf(status) \subseteq Tokens
        <3>1. status.lexer \in Sources
            BY <2>1 DEF Statuses
        <3>2. \A h \in DOMAIN Buckets[status.lexer] : Buckets[status.lexer][h] \subseteq Tokens
            BY <3>1 DEF Buckets
        <3> HIDE DEF status
        <3> QED
            BY <3>2 DEF MaskOf, OrdinaryMask, EosWith
    <2> HIDE DEF status
    <2>3. \A t \in Tokens : t \in MaskOf(status) <=> NextStatus(status, t).error = "none"
        BY <2>1, MasksAreAdvances
    <2>4. MaskOf(status) = {t \in Tokens : NextStatus(status, t).error = "none"}
        BY <2>2, <2>3
    <2> QED
        BY <2>4 DEF status
<1> QED
    BY <1>1, SoundAlways, PTL
-----------------------------------------------------------------------------
(* The rows against the reference.                                           *)

(* A row as it can be: its stack is a path, and a completed row has nothing. *)
Good(status) ==
    /\ status \in Statuses /\ StackIsAPath(status)
    /\ status.phase = "Accepted" => status = Accepted
RowsGood == \A row \in Rows : Good(states[row])

LEMMA RowIsReference ==
    ASSUME AutomatonTable, EnoughContinuations(Seq(Bytes)),
           NEW status \in Statuses, StackIsAPath(status), status.phase = "Running"
    PROVE  /\ MaskOf(status) = ReferenceMask(status)
           /\ \A t \in Tokens : NextStatus(status, t) = ReferenceOutcome(status, t)
           /\ ~MaskFails(status)
<1>1. IsPath(StartState, status.stack) /\ status.stack # <<>>
    BY DEF StackIsAPath, IsPath
<1>2. Classified /\ ~MaskFails(status)
    BY <1>1, AutomatonIsClassified, AutomatonNeverCorrupt
<1> QED
    BY <1>1, <1>2, TablesAreTheReference

(* The two ways of engine.rs agree with each other and with the reference on *)
(* every row that is reached, for every token: the inverse buckets that fill *)
(* a mask, and the search and the commit run of an advance.                  *)
THEOREM MasksAreTheReference ==
    ASSUME AutomatonTable, EnoughContinuations(Seq(Bytes))
    PROVE  Spec => []MasksMeanAdvances
<1>1. Sound => MasksMeanAdvances
    <2> SUFFICES ASSUME Sound, NEW row \in Rows, states[row].phase = "Running"
                 PROVE  /\ MaskOf(states[row]) = ReferenceMask(states[row])
                        /\ \A t \in Tokens : NextStatus(states[row], t) = ReferenceOutcome(states[row], t)
        BY DEF MasksMeanAdvances
    <2>1. states[row] \in Statuses /\ StackIsAPath(states[row])
        BY DEF Sound, RowsTyped, RowsArePaths
    <2> QED
        BY <2>1, RowIsReference
<1> QED
    BY <1>1, SoundAlways, PTL
-----------------------------------------------------------------------------
(* The contract of the reference.                                            *)

(* On such a row the engine does what the reference says of a call on it.    *)
LEMMA RowAgrees ==
    ASSUME AutomatonTable, EnoughContinuations(Seq(Bytes)), NEW status, Good(status)
    PROVE  /\ \A token : RowOutcome(status, token) = ReferenceOutcome(status, token)
           /\ MaskError(status) = ReferenceMaskError(status)
           /\ ~Done(status) => MaskOf(status) = ReferenceMask(status)
<1>1. status.phase \in {"Running", "Accepted"} /\ status \in Statuses /\ StackIsAPath(status)
    BY DEF Good, Statuses
<1>2. CASE status.phase = "Accepted"
    <2>1. status = Accepted
        BY <1>2 DEF Good
    <2>2. \A token : NextStatus(status, token) = Refused("Completed")
        BY <1>2 DEF NextStatus
    <2>3. \A token : RowOutcome(status, token) = ReferenceOutcome(status, token)
        BY <1>2, <2>1, <2>2 DEF RowOutcome, ReferenceOutcome
    <2>4. MaskError(status) = ReferenceMaskError(status)
        BY <1>2, <2>1 DEF MaskError, ReferenceMaskError
    <2> QED
        BY <1>2, <2>3, <2>4 DEF Done
<1>3. CASE status.phase = "Running"
    <2>1. status # Accepted
        BY <1>3 DEF Accepted
    <2>2. /\ MaskOf(status) = ReferenceMask(status) /\ ~MaskFails(status)
          /\ \A t \in Tokens : NextStatus(status, t) = ReferenceOutcome(status, t)
        BY <1>1, <1>3, RowIsReference
    <2>3. ASSUME NEW token PROVE RowOutcome(status, token) = ReferenceOutcome(status, token)
        <3>1. CASE token = NoToken
            BY <1>3, <2>1, <3>1, EngineAssumption DEF RowOutcome, ReferenceOutcome
        <3>2. CASE token # NoToken /\ token \in Tokens
            BY <1>3, <2>2, <3>2 DEF RowOutcome
        <3>3. CASE token # NoToken /\ token \notin Tokens
            BY <1>3, <2>1, <3>3 DEF RowOutcome, NextStatus, ReferenceOutcome
        <3> QED
            BY <3>1, <3>2, <3>3
    <2>4. MaskError(status) = ReferenceMaskError(status)
        BY <1>3, <2>1, <2>2 DEF MaskError, ReferenceMaskError
    <2> QED
        BY <2>2, <2>3, <2>4
<1> QED
    BY <1>1, <1>2, <1>3

LEMMA OutcomeIsGood ==
    ASSUME AutomatonTable, EnoughContinuations(Seq(Bytes)), NEW status, Good(status),
           NEW token, RowOutcome(status, token).error = "none"
    PROVE  Good(RowOutcome(status, token).status)
<1> DEFINE next == RowOutcome(status, token).status
<1>1. next \in Statuses /\ StackIsAPath(next)
    BY OutcomeKeepsPaths DEF Good
<1>2. RowOutcome(status, token) = ReferenceOutcome(status, token)
    BY RowAgrees
<1>3. next = Accepted \/ next.phase = "Running"
    <2>1. CASE status = Accepted
        <3>1. token = NoToken /\ ReferenceOutcome(status, token) = Granted(Accepted)
            BY <1>2, <2>1 DEF ReferenceOutcome, Refused
        <3> QED
            BY <1>2, <3>1 DEF Granted
    <2>2. CASE status # Accepted
        <3>1. token \in Tokens
            BY <1>2, <2>2 DEF ReferenceOutcome, Refused
        <3>2. ReferenceOutcome(status, token) = Granted(After(status, Execute(status.lexer, token)))
            BY <1>2, <2>2, <3>1, EngineAssumption DEF ReferenceOutcome, Refused
        <3> QED
            BY <1>2, <3>2 DEF Granted, After, RunningAt
    <2> QED
        BY <2>1, <2>2
<1> QED
    BY <1>1, <1>3 DEF Good

LEMMA SameReferenceCalls ==
    /\ ReferenceContract!Rows = Rows
    /\ ReferenceContract!Advancing = Advancing /\ ReferenceContract!Masking = Masking
    /\ ReferenceContract!WithResults = WithResults
    /\ ReferenceContract!NoRequest = NoRequest /\ ReferenceContract!NoReply = NoReply
    /\ ReferenceContract!Pending = Pending
    /\ \A r : /\ ReferenceContract!First(r) = First(r) /\ ReferenceContract!Last(r) = Last(r)
              /\ ReferenceContract!Cleared(r) = Cleared(r) /\ ReferenceContract!Stale(r) = Stale(r)
    /\ \A r, row : /\ ReferenceContract!TokenFor(r, row) = TokenFor(r, row)
                   /\ ReferenceContract!Slot(r, row) = Slot(r, row)
    /\ ReferenceContract!Argument = Argument
<1> USE DEF ReferenceContract!Rows, Rows, ReferenceContract!Advancing, Advancing,
            ReferenceContract!Masking, Masking, ReferenceContract!WithResults, WithResults,
            ReferenceContract!OneRow, OneRow, ReferenceContract!OptionalTokens, OptionalTokens
<1>1. \A r : ReferenceContract!BatchArguments(r) = BatchArguments(r)
    BY DEF ReferenceContract!BatchArguments, BatchArguments
<1>2. ReferenceContract!Completed = Completed
    BY DEF ReferenceContract!Completed, Completed
<1>3. ReferenceContract!Argument = Argument
    BY <1>1, <1>2 DEF ReferenceContract!Argument, Argument,
        ReferenceContract!ArgumentError, ArgumentError
<1> QED
    BY <1>3 DEF ReferenceContract!NoRequest, NoRequest, ReferenceContract!NoReply, NoReply,
        ReferenceContract!Pending, Pending, ReferenceContract!First, First,
        ReferenceContract!Last, Last, ReferenceContract!Cleared, Cleared,
        ReferenceContract!Stale, Stale, ReferenceContract!TokenFor, TokenFor,
        ReferenceContract!Slot, Slot

(* What the two contracts make of a call.                                    *)
Stopped == {row \in Named : request.op \in Advancing /\ RowResult(row).error # "none"}
Unmasked == {row \in Masked : request.op \in Masking /\ MaskError(Successor(row)) # "none"}

LEMMA SameReferenceResults ==
    ASSUME AutomatonTable, EnoughContinuations(Seq(Bytes)), RowsGood,
           request \in Requests, Argument = "none"
    PROVE  /\ \A row \in Named : ReferenceContract!RowOutcome(row) = RowResult(row)
           /\ ReferenceContract!Successors = [row \in Rows |-> Successor(row)]
           /\ ReferenceContract!Masked = Masked
           /\ ReferenceContract!Stuck = Stopped
           /\ Contract!Stuck = Stopped
<1>1. ReferenceContract!Named = Named
    BY SameReferenceCalls DEF ReferenceContract!Named, Named
<1>2. ASSUME NEW row \in Named PROVE ReferenceContract!RowOutcome(row) = RowResult(row)
    <2>1. Good(states[row])
        BY SameRows DEF RowsGood
    <2>2. ReferenceContract!RowOutcome(row) = ReferenceOutcome(states[row], TokenFor(request, row))
        BY SameReferenceCalls DEF ReferenceContract!RowOutcome
    <2> QED
        BY <2>1, <2>2, RowAgrees DEF RowResult
<1>3. ReferenceContract!Successors = [row \in Rows |-> Successor(row)]
    BY <1>1, <1>2, SameReferenceCalls
    DEF ReferenceContract!Successors, Successor, ReferenceContract!Is
<1>4. \A row \in Named : ReferenceContract!Successors[row] = Successor(row)
    BY <1>3, SameRows
<1>5. ReferenceContract!Masked = Masked
    BY <1>1, <1>4 DEF ReferenceContract!Masked, Masked, ReferenceContract!Is
<1>6. ReferenceContract!Stuck = Stopped
    BY <1>1, <1>2, SameReferenceCalls DEF ReferenceContract!Stuck, Stopped, ReferenceContract!Is
<1>7. Contract!Stuck = Stopped
    BY SameResults, SameCalls DEF Contract!Stuck, Stopped, Contract!Is
<1> QED
    BY <1>2, <1>3, <1>5, <1>6, <1>7

LEMMA SuccessorsAreGood ==
    ASSUME AutomatonTable, EnoughContinuations(Seq(Bytes)), RowsGood,
           request \in Requests, Argument = "none", Stopped = {}, NEW row \in Rows
    PROVE  Good(Successor(row))
<1>1. Good(states[row])
    BY DEF RowsGood
<1>2. CASE request.op \in Advancing /\ row \in Named
    <2>1. RowResult(row).error = "none"
        BY <1>2 DEF Stopped
    <2>2. Good(RowResult(row).status)
        BY <1>1, <2>1, OutcomeIsGood DEF RowResult
    <2> QED
        BY <1>2, <2>2 DEF Successor
<1>3. CASE ~(request.op \in Advancing /\ row \in Named)
    BY <1>1, <1>3 DEF Successor
<1> QED
    BY <1>2, <1>3

LEMMA SameReferenceMasks ==
    ASSUME AutomatonTable, EnoughContinuations(Seq(Bytes)), RowsGood,
           request \in Requests, Argument = "none", Stopped = {}
    PROVE  /\ ReferenceContract!Maskless = Unmasked /\ Contract!Maskless = Unmasked
           /\ Unmasked = {} =>
                \A slot : ReferenceContract!MaskAt(slot) = Contract!MaskAt(slot)
<1>1. Masked \subseteq Rows /\ \A row \in Masked : Good(Successor(row))
    BY SameRows, SuccessorsAreGood DEF Masked
<1>2. \A row \in Masked : /\ ReferenceContract!Successors[row] = Successor(row)
                          /\ Contract!Successors[row] = Successor(row)
    BY <1>1, SameReferenceResults, SameResults
<1>3. ReferenceContract!Masked = Masked /\ Contract!Masked = Masked
    BY SameReferenceResults, SameResults
<1>4. \A row \in Masked : MaskError(Successor(row)) = ReferenceMaskError(Successor(row))
    BY <1>1, RowAgrees
<1>5. ReferenceContract!Maskless = Unmasked
    BY <1>2, <1>3, <1>4, SameReferenceCalls
    DEF ReferenceContract!Maskless, Unmasked, ReferenceContract!Is
<1>6. Contract!Maskless = Unmasked
    BY <1>2, <1>3, SameCalls DEF Contract!Maskless, Unmasked, Contract!Is
<1>7. ASSUME Unmasked = {}, NEW slot
      PROVE  ReferenceContract!MaskAt(slot) = Contract!MaskAt(slot)
    <2>1. ASSUME NEW row \in Masked
          PROVE  MaskOf(Successor(row)) = ReferenceMask(Successor(row))
        <3>1. CASE Done(Successor(row))
            <4>1. request.op \in Masking
                BY <3>1 DEF Masked, Masking
            <4>2. MaskError(Successor(row)) = "Completed"
                BY <3>1 DEF Done, MaskError
            <4> QED
                BY <1>7, <4>1, <4>2 DEF Unmasked
        <3>2. CASE ~Done(Successor(row))
            BY <1>1, <3>2, RowAgrees
        <3> QED
            BY <3>1, <3>2
    <2>2. \A row : /\ ReferenceContract!Slot(request, row) = Slot(request, row)
                   /\ Contract!Slot(request, row) = Slot(request, row)
        BY SameReferenceCalls, SameCalls
    <2>3. ReferenceContract!MaskAt(slot)
            = UNION {ReferenceMask(Successor(row)) : row \in {row \in Masked : Slot(request, row) = slot}}
        BY <1>2, <1>3, <2>2 DEF ReferenceContract!MaskAt
    <2>4. Contract!MaskAt(slot) = MaskAt(slot)
        BY <1>2, <1>3, <2>2 DEF Contract!MaskAt, MaskAt
    <2> QED
        BY <2>1, <2>3, <2>4 DEF MaskAt
<1> QED
    BY <1>5, <1>6, <1>7

LEMMA FirstIsIn ==
    ASSUME NEW S \in SUBSET Nat, S # {}
    PROVE  ReferenceContract!FirstOf(S) = Contract!FirstOf(S) /\ Contract!FirstOf(S) \in S
<1>1. \E row \in S : \A other \in S : row <= other
    BY LeastExists
<1> QED
    BY <1>1 DEF ReferenceContract!FirstOf, Contract!FirstOf

LEMMA SameWhy ==
    ASSUME AutomatonTable, EnoughContinuations(Seq(Bytes)), RowsGood, request \in Requests
    PROVE  ReferenceContract!Why = Contract!Why
<1>1. CASE Argument # "none"
    BY <1>1, SameCalls, SameReferenceCalls DEF ReferenceContract!Why, Contract!Why
<1>2. ASSUME Argument = "none" PROVE Named \subseteq Nat /\ Named \subseteq Rows
    BY <1>2, SameRows DEF Named, Rows
<1>3. CASE Argument = "none" /\ Stopped # {}
    <2>1. Stopped \in SUBSET Nat /\ Stopped \subseteq Named
        BY <1>2, <1>3 DEF Stopped
    <2> DEFINE row == Contract!FirstOf(Stopped)
    <2>2. row \in Named /\ ReferenceContract!FirstOf(Stopped) = row
        BY <1>3, <2>1, FirstIsIn
    <2>3. ReferenceContract!RowOutcome(row) = Contract!RowOutcome(row)
        BY <1>3, <2>2, SameResults, SameReferenceResults
    <2>4. ReferenceContract!Stuck = Stopped /\ Contract!Stuck = Stopped
        BY <1>3, SameReferenceResults
    <2>5. Contract!Why = Contract!Reported(Contract!RowOutcome(row).error)
        BY <1>3, <2>4, SameCalls DEF Contract!Why
    <2>6. ReferenceContract!Why = ReferenceContract!Reported(Contract!RowOutcome(row).error)
        BY <1>3, <2>2, <2>3, <2>4, SameReferenceCalls DEF ReferenceContract!Why
    <2>7. \A error : ReferenceContract!Reported(error) = Contract!Reported(error)
        BY DEF ReferenceContract!Reported, Contract!Reported, ReferenceContract!Is, Contract!Is
    <2> QED
        BY <2>5, <2>6, <2>7
<1>4. CASE Argument = "none" /\ Stopped = {}
    <2>1. /\ ReferenceContract!Stuck = {} /\ Contract!Stuck = {}
          /\ ReferenceContract!Maskless = Unmasked /\ Contract!Maskless = Unmasked
        BY <1>4, SameReferenceResults, SameReferenceMasks
    <2>2. CASE Unmasked = {}
        BY <1>4, <2>1, <2>2, SameCalls, SameReferenceCalls DEF ReferenceContract!Why, Contract!Why
    <2>3. CASE Unmasked # {}
        <3>1. Unmasked \in SUBSET Nat /\ Unmasked \subseteq Rows
            BY <1>2, <1>4 DEF Unmasked, Masked
        <3> DEFINE row == Contract!FirstOf(Unmasked)
        <3>2. row \in Rows /\ ReferenceContract!FirstOf(Unmasked) = row
            BY <2>3, <3>1, FirstIsIn
        <3>3. ReferenceContract!Successors[row] = Successor(row) /\ Contract!Successors[row] = Successor(row)
            BY <1>4, <3>2, SameResults, SameReferenceResults
        <3>4. MaskError(Successor(row)) = ReferenceMaskError(Successor(row))
            BY <1>4, <3>2, SuccessorsAreGood, RowAgrees
        <3>5. Contract!Why = MaskError(Successor(row))
            BY <1>4, <2>1, <2>3, <3>3, SameCalls DEF Contract!Why
        <3>6. ReferenceContract!Why = ReferenceMaskError(Successor(row))
            BY <1>4, <2>1, <2>3, <3>2, <3>3, SameReferenceCalls DEF ReferenceContract!Why
        <3> QED
            BY <3>4, <3>5, <3>6
    <2> QED
        BY <2>2, <2>3
<1> QED
    BY <1>1, <1>3, <1>4

(* On such rows a call that may have an answer of the engine may have it of  *)
(* the reference.                                                            *)
LEMMA SameAnswers ==
    ASSUME AutomatonTable, EnoughContinuations(Seq(Bytes)), RowsGood, Progress, Contract!Next
    PROVE  ReferenceContract!Next
<1>1. reply = Pending => request \in Requests
    BY DEF Progress, Idle, InCall
<1>2. \A error, masks : Contract!Answer(error, masks) = ReferenceContract!Answer(error, masks)
    BY SameCalls, SameReferenceCalls DEF Contract!Answer, ReferenceContract!Answer
<1>3. CASE \E r \in Requests : Contract!Ask(r)
    <2>1. \A r : Contract!Ask(r) = ReferenceContract!Ask(r)
        BY SameCalls, SameReferenceCalls DEF Contract!Ask, ReferenceContract!Ask
    <2> QED
        BY <1>3, <2>1 DEF ReferenceContract!Next
<1>4. CASE Contract!Succeed
    <2>1. reply = Pending /\ request \in Requests /\ Argument = "none" /\ Stopped = {}
        BY <1>1, <1>4, SameCalls, SameReferenceResults DEF Contract!Succeed
    <2>2. /\ Unmasked = {} /\ states' = [row \in Rows |-> Successor(row)]
          /\ Contract!Answer("none", [slot \in 1..request.slots |-> Contract!MaskAt(slot)])
        BY <1>4, <2>1, SameResults, SameReferenceMasks DEF Contract!Succeed
    <2>3. \A slot : ReferenceContract!MaskAt(slot) = Contract!MaskAt(slot)
        BY <2>1, <2>2, SameReferenceMasks
    <2>4. [slot \in 1..request.slots |-> Contract!MaskAt(slot)]
            = [slot \in 1..request.slots |-> ReferenceContract!MaskAt(slot)]
        BY <2>3
    <2>5. ReferenceContract!Answer("none", [slot \in 1..request.slots |-> ReferenceContract!MaskAt(slot)])
        BY <1>2, <2>2, <2>4
    <2>6. /\ ReferenceContract!Stuck = {} /\ ReferenceContract!Maskless = {}
          /\ ReferenceContract!Successors = [row \in Rows |-> Successor(row)]
        BY <2>1, <2>2, SameReferenceResults, SameReferenceMasks
    <2>7. ReferenceContract!Succeed
        BY <2>1, <2>2, <2>5, <2>6, SameReferenceCalls DEF ReferenceContract!Succeed
    <2> QED
        BY <2>7 DEF ReferenceContract!Next
<1>5. CASE Contract!Fail
    <2>1. reply = Pending /\ ReferenceContract!Why = Contract!Why
        BY <1>1, <1>5, SameCalls, SameWhy DEF Contract!Fail
    <2>2. ReferenceContract!Fail
        BY <1>2, <1>5, <2>1, SameCalls, SameReferenceCalls DEF Contract!Fail, ReferenceContract!Fail
    <2> QED
        BY <2>2 DEF ReferenceContract!Next
<1>6. CASE Contract!RunOut
    <2>1. ReferenceContract!RunOut
        BY <1>2, <1>6, SameCalls, SameReferenceCalls
        DEF Contract!RunOut, ReferenceContract!RunOut, Contract!Is, ReferenceContract!Is
    <2> QED
        BY <2>1 DEF ReferenceContract!Next
<1> QED
    BY <1>3, <1>4, <1>5, <1>6 DEF Contract!Next

LEMMA RowsStayGood ==
    ASSUME AutomatonTable, EnoughContinuations(Seq(Bytes)), RowsGood, Progress, Implements
    PROVE  RowsGood'
<1>1. CASE UNCHANGED states
    BY <1>1 DEF RowsGood
<1>2. CASE Contract!Succeed
    <2>1. request \in Requests /\ Argument = "none"
        BY <1>2, SameCalls DEF Contract!Succeed, Progress, Idle, InCall
    <2>2. states' = [row \in Rows |-> Successor(row)] /\ Stopped = {}
        BY <1>2, <2>1, SameResults, SameReferenceResults DEF Contract!Succeed
    <2>3. \A row \in Rows : Good(Successor(row))
        BY <2>1, <2>2, SuccessorsAreGood
    <2> QED
        BY <2>2, <2>3 DEF RowsGood
<1>3. Contract!Succeed \/ UNCHANGED states
    BY DEF Implements, Contract!Next, Contract!vars, Contract!Ask, Contract!Fail, Contract!RunOut
<1> QED
    BY <1>1, <1>2, <1>3

(* The matcher implements the contract whose outcomes, masks and errors are  *)
(* those of the reference: no table of engine.rs shows through its answers.  *)
THEOREM MatcherIsExact ==
    ASSUME AutomatonTable, EnoughContinuations(Seq(Bytes))
    PROVE  Spec => AtomicAndExact
<1>1. Init => Progress /\ RowsGood /\ ReferenceContract!Init
    <2> SUFFICES ASSUME Init PROVE Progress /\ RowsGood /\ ReferenceContract!Init
        OBVIOUS
    <2>1. Good(Initial)
        <3>1. StartState \in ParserStates
            BY PreparedAssumption
        <3> QED
            BY <3>1 DEF Initial, RunningAt, Statuses, Sources, StackIsAPath, IsPath, Good
    <2>2. RowsGood
        BY <2>1 DEF Init, RowsGood
    <2>3. ReferenceContract!Init
        BY SameReferenceCalls DEF Init, ReferenceContract!Init
    <2> QED
        BY <2>2, <2>3, Starting
<1>2. Progress /\ RowsGood /\ [Next]_vars
        => Progress' /\ RowsGood' /\ [ReferenceContract!Next]_(ReferenceContract!vars)
    <2> SUFFICES ASSUME Progress, RowsGood, [Next]_vars
                 PROVE  Progress' /\ RowsGood' /\ [ReferenceContract!Next]_(ReferenceContract!vars)
        OBVIOUS
    <2>1. Implements
        BY EveryStep
    <2>2. Progress' /\ RowsGood'
        BY <2>1, RowsStayGood DEF Implements
    <2>3. CASE Contract!Next
        BY <2>3, SameAnswers, <2>2
    <2>4. CASE UNCHANGED Contract!vars
        BY <2>2, <2>4 DEF Contract!vars, ReferenceContract!vars
    <2> QED
        BY <2>1, <2>3, <2>4 DEF Implements
<1> QED
    BY <1>1, <1>2, PTL DEF Spec, AtomicAndExact, ReferenceContract!Spec
=============================================================================
