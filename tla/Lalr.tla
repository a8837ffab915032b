-------------------------------- MODULE Lalr --------------------------------
(* The LALR stack machine of crates/greatgramma-core/src/lalr.rs.            *)
(*                                                                           *)
(* A run is a configuration, and Step is one iteration of the loop in        *)
(* run_terminal (or of the loop in run_initialized, for a terminal that is   *)
(* ignored or past the end).  The symbolic and the concrete runs of the code *)
(* are the same loop under two underflow modes, as they are there.           *)
EXTENDS Integers, Sequences

CONSTANTS
    ParserStates, Terminals, Nonterminals, Productions,
    Ignored,        \* the terminals the parser never sees
    Action,         \* Action[state][terminal], normalized to a total table
    Goto,           \* Goto[state][nonterminal]
    NoGoto,         \* the empty goto cell
    Lhs, PopLen     \* what a production reduces to, and how much it pops

ActionCells ==
    [type : {"error", "accept"}]
      \cup [type : {"shift"}, to : ParserStates]
      \cup [type : {"reduce"}, production : Productions, rank : Nat]

ASSUME LalrAssumption ==
    /\ Ignored \subseteq Terminals
    /\ Action \in [ParserStates -> [Terminals -> ActionCells]]
    /\ NoGoto \notin ParserStates
    /\ Goto \in [ParserStates -> [Nonterminals -> ParserStates \cup {NoGoto}]]
    /\ Lhs \in [Productions -> Nonterminals]
    /\ PopLen \in [Productions -> Nat]
-----------------------------------------------------------------------------
Top(stack) == stack[Len(stack)]

(* A state that a shift or a goto leads to, and the stacks made of those.    *)
Follows(from, to) ==
    \/ \E t \in Terminals : Action[from][t].type = "shift" /\ Action[from][t].to = to
    \/ \E n \in Nonterminals : Goto[from][n] = to
IsPath(start, stack) ==
    /\ stack # <<>> /\ stack[1] = start
    /\ \A i \in 1..Len(stack) - 1 : Follows(stack[i], stack[i + 1])

NoReduction == [rank |-> -1, pop_len |-> 0]     \* previous_reduction = None
Unbounded == -1                                 \* RunWork without a maximum

Decisions == {"Rejected", "Continue", "Accepted", "Dependent"}
Failures == {"StackUnderflow", "MissingGoto", "AcceptBeforeEnd",
             "InvalidReductionProgress", "WorkLimitExceeded"}

Configurations ==
    [stack : Seq(ParserStates) \ {<<>>}, index : Nat \ {0}, previous : [rank : Int, pop_len : Nat],
     used : Nat, maximum : Nat \cup {Unbounded}, underflow : {"Dependent", "StackUnderflow"},
     decision : {"running"} \cup Decisions \cup Failures]

Begin(stack, underflow, maximum) ==
    [stack |-> stack, index |-> 1, previous |-> NoReduction,
     used |-> IF maximum = Unbounded THEN 0 ELSE Len(stack), maximum |-> maximum,
     underflow |-> underflow, decision |-> "running"]

BeginSymbolic(state, maximum) == Begin(<<state>>, "Dependent", maximum)
BeginConcrete(stack) == Begin(stack, "StackUnderflow", Unbounded)

(* Mutant: a reduction after one that shrank the stack must lower the rank.  *)
ProgressesStrictly(previous, rank) == previous = NoReduction \/ rank < previous.rank

(* A second consecutive reduction on one terminal must lower the rank, or    *)
(* keep it after having shrunk the stack.                                    *)
Progresses(previous, rank) ==
    \/ previous = NoReduction
    \/ rank < previous.rank
    \/ rank = previous.rank /\ previous.pop_len >= 2

(* Mutant: work is counted down.                                             *)
ChargedDown(c, cost, next) ==
    IF c.maximum = Unbounded THEN next ELSE [next EXCEPT !.used = c.used - cost]

(* What one iteration does, and cost, the unit charges it makes on the way.  *)
(* Every charge is of one unit, so the first that passes the maximum leaves  *)
(* used just above it.                                                       *)
Charged(c, cost, next) ==
    IF c.maximum = Unbounded THEN next
    ELSE IF c.used + cost > c.maximum
         THEN [c EXCEPT !.used = c.maximum + 1, !.decision = "WorkLimitExceeded"]
         ELSE [next EXCEPT !.used = c.used + cost]

Halt(c, decision) == [c EXCEPT !.decision = decision]
(* Mutant: the last reduction of a terminal is remembered by the next one.   *)
NextTerminalRemembers(c, stack) == [c EXCEPT !.stack = stack, !.index = c.index + 1]

NextTerminal(c, stack) ==
    [c EXCEPT !.stack = stack, !.index = c.index + 1, !.previous = NoReduction]

(* Mutant: one state too many is popped.                                     *)
ReducedPopsTooMany(c, kept, cell, destination) ==
    [c EXCEPT !.stack = Append(SubSeq(c.stack, 1, kept - 1), destination),
              !.previous = [rank |-> cell.rank, pop_len |-> PopLen[cell.production]]]

Reduced(c, kept, cell, destination) ==
    [c EXCEPT !.stack = Append(SubSeq(c.stack, 1, kept), destination),
              !.previous = [rank |-> cell.rank, pop_len |-> PopLen[cell.production]]]

ApplyReduction(c, cell, lookup) ==
    LET kept == Len(c.stack) - PopLen[cell.production]
    IN IF kept <= 0 THEN Charged(c, lookup + 1, Halt(c, c.underflow))
       ELSE LET destination == Goto[c.stack[kept]][Lhs[cell.production]]
            IN IF destination = NoGoto
               THEN Charged(c, lookup + 2, Halt(c, "MissingGoto"))
               ELSE Charged(c, lookup + 3, Reduced(c, kept, cell, destination))

RunTerminal(terminals, c) ==
    LET cell == Action[Top(c.stack)][terminals[c.index]]
        lookup == IF c.previous = NoReduction THEN 2 ELSE 1
    IN CASE cell.type = "error" -> Charged(c, lookup, Halt(c, "Rejected"))
         [] cell.type = "shift" ->
              Charged(c, lookup + 1, NextTerminal(c, Append(c.stack, cell.to)))
         [] cell.type = "reduce" ->
              IF Progresses(c.previous, cell.rank) THEN ApplyReduction(c, cell, lookup)
              ELSE Charged(c, lookup, Halt(c, "InvalidReductionProgress"))
         [] cell.type = "accept" ->
              Charged(c, lookup, Halt(c, IF c.index = Len(terminals) THEN "Accepted"
                                         ELSE "AcceptBeforeEnd"))

(* Mutant: an ignored terminal is not passed over.                           *)
StepStays(terminals, c) ==
    CASE c.index > Len(terminals)        -> Halt(c, "Continue")
      [] c.index <= Len(terminals) /\ terminals[c.index] \in Ignored    -> Charged(c, 1, c)
      [] c.index <= Len(terminals) /\ terminals[c.index] \notin Ignored ->
           RunTerminal(terminals, c)

Step(terminals, c) ==
    CASE c.index > Len(terminals)        -> Halt(c, "Continue")
      [] c.index <= Len(terminals) /\ terminals[c.index] \in Ignored
                                         -> Charged(c, 1, NextTerminal(c, c.stack))
      [] c.index <= Len(terminals) /\ terminals[c.index] \notin Ignored
                                         -> RunTerminal(terminals, c)

(* A whole run: Step until a decision.                                       *)
Run(terminals, start) ==
    LET run[c \in Configurations] ==
            IF c.decision = "running" THEN run[Step(terminals, c)] ELSE c
    IN run[start]
-----------------------------------------------------------------------------
(* Mutant: what needs the whole stack is taken to be rejected.               *)
ClassifyDependentAsRejected(decision) ==
    IF decision \in {"Continue", "Accepted"} THEN "AlwaysReadable" ELSE "Rejected"

(* classify_decision: what preparation stores for a state and a head.        *)
Classify(decision) ==
    CASE decision = "Rejected"                 -> "Rejected"
      [] decision = "Dependent"                -> "Dependent"
      [] decision \in {"Continue", "Accepted"} -> "AlwaysReadable"

(* sequence_head_allowed_with_scratch: the direct prefix runs on the given   *)
(* stack, then the final terminal is probed on what the prefix left.         *)
Direct(head) == SubSeq(head, 1, Len(head) - 1)
Probe(head) == <<head[Len(head)]>>

HeadVerdict(decision) ==
    CASE decision = "Rejected"                 -> "denied"
      [] decision \in {"Continue", "Accepted"} -> "allowed"
      [] decision \notin {"Rejected", "Continue", "Accepted"} -> "failed"

HeadAllowed(stack, head) ==
    LET direct == Run(Direct(head), BeginConcrete(stack))
    IN CASE direct.decision = "Continue" ->
              HeadVerdict(Run(Probe(head), BeginConcrete(direct.stack)).decision)
         [] direct.decision = "Rejected" -> "denied"
         [] direct.decision \notin {"Continue", "Rejected"} -> "failed"
=============================================================================
