------------------------------ MODULE Lowering ------------------------------
(* Which reduction may follow which, on one lookahead, as reduction_ranks of *)
(* crates/greatgramma-compile/src/lr.rs reads it off a table.                *)
EXTENDS Lalr

Cells == {cell \in ParserStates \X Terminals : Action[cell[1]][cell[2]].type = "reduce"}
ProductionAt(cell) == Action[cell[1]][cell[2]].production
StoredRank(cell) == Action[cell[1]][cell[2]].rank

(* A reduction that may leave the stack as high as it was is strict.         *)
Strict(cell) == PopLen[ProductionAt(cell)] < 2

(* Mutant: what a reduction uncovers is taken to be its own state.           *)
BasesOfNone(cell) == {cell[1]}

(* What may be on top once the right-hand side is popped.                    *)
Bases(cell) == IF PopLen[ProductionAt(cell)] = 0 THEN {cell[1]} ELSE ParserStates

Destinations(cell) == {Goto[base][Lhs[ProductionAt(cell)]] : base \in Bases(cell)} \ {NoGoto}
Successors(cell) == {next \in Cells : next[1] \in Destinations(cell) /\ next[2] = cell[2]}

(* The ranks in the table fall along the edges as the core will ask.         *)
RanksJustified ==
    \A cell \in Cells : \A next \in Successors(cell) :
        \/ StoredRank(next) < StoredRank(cell)
        \/ StoredRank(next) = StoredRank(cell) /\ ~Strict(cell)

(* What an automaton of items has: it accepts on the end of the input alone, *)
(* and every stack that its shifts and gotos lead to holds the right-hand    *)
(* side of every reduction of its top, over a state with a goto for it.      *)
AcceptsAt(end) ==
    \A s \in ParserStates, t \in Terminals : Action[s][t].type = "accept" => t = end
HandlesFit(stacks) ==
    \A stack \in stacks, t \in Terminals \ Ignored :
       LET cell == Action[Top(stack)][t]
           kept == Len(stack) - PopLen[cell.production]
       IN cell.type = "reduce" => kept > 0 /\ Goto[stack[kept]][Lhs[cell.production]] # NoGoto
StatesReached(stacks) == \A state \in ParserStates : \E stack \in stacks : Top(stack) = state
=============================================================================
