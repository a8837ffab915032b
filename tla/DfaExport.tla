------------------------------ MODULE DfaExport -----------------------------
(* How the compiler copies the lexer out of the regex library                *)
(* (build_lexer_dfa of crates/greatgramma-compile/src/dfa.rs): every state   *)
(* it can reach, with the terminal it accepts and its transitions, within    *)
(* limits; and the refusal of lexers that the core, which never gives a byte *)
(* back but the one it looks at, could not run.                              *)
EXTENDS Integers, Sequences, SequencesExt, FiniteSetsExt

CONSTANTS
    ClassCount,     \* of bytes; a byte is one of these classes
    Names,          \* the terminals
    NoName,
    Priority,       \* of a terminal, the smaller the better
    Dead,           \* the library's dead state
    Automata,       \* what the library may have compiled
    LimitsTried

Classes == 1..ClassCount

(* A state accepts a sequence of terminals, in the order they were declared. *)
ASSUME ExportAssumption ==
    /\ ClassCount \in Nat \ {0}
    /\ NoName \notin Names /\ Priority \in [Names -> Nat]
    /\ \A a \in Automata :
         LET states == DOMAIN a.next
         IN /\ a.start \in states /\ Dead \notin states
            /\ a.next \in [states -> [Classes -> states \cup {Dead}]]
            /\ a.accepts \in [states -> Seq(Names)]
            /\ \A s \in states : IsInjective(a.accepts[s])
            /\ a.accepts[a.start] = <<>>        \* regex.rs: no nullable terminal
    /\ LimitsTried \subseteq [states : Nat, cells : Nat, work : Nat]

VARIABLES
    automaton, limits,
    stage,          \* what comes next: a label, a byte, the check, or nothing
    states,         \* the library's states, in the order they were met
    labels,         \* of those behind the cursor
    transitions,    \* a row of indices for each of these, 0 where there is none
    spent,
    error

vars == <<automaton, limits, stage, states, labels, transitions, spent, error>>

Init ==
    /\ automaton \in Automata
    /\ limits \in LimitsTried
    /\ stage = "start"
    /\ states = <<>> /\ labels = <<>> /\ transitions = <<>>
    /\ spent = 0
    /\ error = "none"

Fail(why) ==
    /\ stage' = "failed" /\ error' = why
    /\ UNCHANGED <<automaton, limits, states, labels, transitions, spent>>
-----------------------------------------------------------------------------
CanCharge(amount) == spent + amount <= limits.work

(* Mutant: a state past the limit is let in.                                 *)
RoomForOneMore(n) == n <= limits.states + 1 /\ n * ClassCount <= limits.cells

(* The limits on states and on cells, for that many states.                  *)
RoomFor(n) == n <= limits.states /\ n * ClassCount <= limits.cells

(* Which of them is exceeded.                                                *)
NoRoom(n) == Fail(IF n > limits.states THEN "TooManyDfaStates" ELSE "LimitExceeded")

Begin ==
    /\ stage = "start"
    /\ \/ /\ RoomFor(1)
          /\ states' = <<automaton.start>> /\ stage' = "label"
          /\ UNCHANGED <<automaton, limits, labels, transitions, spent, error>>
       \/ ~RoomFor(1) /\ NoRoom(1)
-----------------------------------------------------------------------------
(* resolve_label: the terminals in order, a better one winning; two as good  *)
(* as the best so far are refused.  Every terminal looked at is charged.     *)
Best(names) == Min({Priority[name] : name \in Range(names)})
Ties(names) ==
    {i \in 2..Len(names) : Priority[names[i]] = Best(SubSeq(names, 1, i - 1))}

(* Mutant: the first terminal wins.                                          *)
WinnerDeclared(names) == IF names = <<>> THEN NoName ELSE names[1]

Winner(names) ==
    IF names = <<>> THEN NoName
    ELSE CHOOSE name \in Range(names) : Priority[name] = Best(names)

LabelState ==
    LET names == automaton.accepts[states[Len(labels) + 1]]
        looked == IF Ties(names) = {} THEN Len(names) ELSE Min(Ties(names))
    IN /\ stage = "label" /\ Len(labels) < Len(states)
       /\ \/ /\ CanCharge(looked) /\ Ties(names) = {}
             /\ spent' = spent + looked
             /\ labels' = Append(labels, Winner(names))
             /\ transitions' = Append(transitions, <<>>)
             /\ stage' = "byte"
             /\ UNCHANGED <<automaton, limits, states, error>>
          \/ ~CanCharge(looked) /\ Fail("CompilerWorkLimit")
          \/ CanCharge(looked) /\ Ties(names) # {} /\ Fail("AmbiguousPriority")
-----------------------------------------------------------------------------
(* Mutant: a state already met is met again.                                 *)
IndexOfNone(state) == IF state = Dead THEN 0 ELSE Len(states) + 1

(* The index of a state of the library, a new one's being the next.          *)
IndexOf(state) ==
    IF state = Dead THEN 0
    ELSE IF Contains(states, state) THEN CHOOSE i \in 1..Len(states) : states[i] = state
    ELSE Len(states) + 1

(* One byte of the inner loop.                                               *)
Row == Last(transitions)

StepByte ==
    LET next == automaton.next[states[Len(labels)]][Len(Row) + 1]
        index == IndexOf(next)
        isNew == index > Len(states)
    IN /\ stage = "byte"
       /\ \/ /\ CanCharge(1) /\ (isNew => RoomFor(index))
             /\ spent' = spent + 1
             /\ states' = IF isNew THEN Append(states, next) ELSE states
             /\ transitions' = [transitions EXCEPT ![Len(transitions)] = Append(@, index)]
             /\ stage' = IF Len(Row) + 1 = ClassCount THEN "label" ELSE "byte"
             /\ UNCHANGED <<automaton, limits, labels, error>>
          \/ ~CanCharge(1) /\ Fail("CompilerWorkLimit")
          \/ /\ CanCharge(1) /\ isNew /\ ~RoomFor(index)
             /\ NoRoom(index)

(* At a transition, the library gives up: on its fuel or on its states.      *)
LibraryGivesUp ==
    /\ stage = "byte" /\ CanCharge(1)
    /\ \E why \in {"CompilerWorkLimit", "TooManyDfaStates"} : Fail(why)

(* It holds more memory than it may: looked at before the start, after every *)
(* transition and at the end.                                                *)
LibraryOutgrows ==
    /\ \/ stage = "start" /\ limits.states > 0
       \/ stage = "byte" /\ CanCharge(1)
       \/ stage = "label" /\ Len(labels) = Len(states)
    /\ Fail("RegexOutputLimit")
-----------------------------------------------------------------------------
(* Mutant: only the start state is looked at.                                *)
FallsBackFromStart ==
    \E b \in Classes :
        /\ labels[1] # NoName /\ transitions[1][b] # 0
        /\ labels[transitions[1][b]] = NoName

(* reject_multi_byte_fallback: a lexeme that is complete is read on into one *)
(* that is not.                                                              *)
FallsBack ==
    \E i \in 1..Len(states), b \in Classes :
        /\ labels[i] # NoName /\ transitions[i][b] # 0
        /\ labels[transitions[i][b]] = NoName

Check ==
    LET cells == Len(states) * ClassCount
    IN /\ stage = "label" /\ Len(labels) = Len(states)
       /\ \/ /\ CanCharge(cells) /\ ~FallsBack
             /\ spent' = spent + cells
             /\ stage' = "done"
             /\ UNCHANGED <<automaton, limits, states, labels, transitions, error>>
          \/ ~CanCharge(cells) /\ Fail("CompilerWorkLimit")
          \/ CanCharge(cells) /\ FallsBack /\ Fail("UnsupportedLexerBoundary")

Next == Begin \/ LabelState \/ StepByte \/ LibraryGivesUp \/ LibraryOutgrows \/ Check

Spec == Init /\ [][Next]_vars
-----------------------------------------------------------------------------
(* Every variable has its type; no state is exported twice.                  *)
TypeOK ==
    /\ automaton.start \in DOMAIN automaton.next /\ limits \in LimitsTried
    /\ stage \in {"start", "label", "byte", "done", "failed"}
    /\ stage = "failed" <=> error # "none"
    /\ Range(states) \subseteq DOMAIN automaton.next /\ IsInjective(states)
    /\ Len(labels) = Len(transitions) /\ Range(labels) \subseteq Names \cup {NoName}
    /\ \A row \in Range(transitions) : row \in Seq(0..Len(states))
    /\ spent \in Nat

(* What is exported, and what it costs, is within the limits at all times.   *)
WithinLimits ==
    /\ spent <= limits.work
    /\ Len(states) <= limits.states /\ Len(states) * ClassCount <= limits.cells
=============================================================================
