------------------------------ MODULE Reference -----------------------------
(* Which tokens a row allows, and what they make of it, said without a table *)
(* of the engine: by the lexer, and by single runs of the parser on the      *)
(* whole stack.                                                              *)
EXTENDS Prepared, MatcherCalls

CONSTANTS
    Continuations       \* enough byte strings to tell what a lexeme may become

ASSUME ReferenceAssumption == Continuations \subseteq Seq(Bytes)
-----------------------------------------------------------------------------
(* What a lexer state may emit first: along some continuation, or at its end. *)
FirstEmitted(source, s) ==
    LET end == ExecuteBytes(source, s)
    IN CASE end = Rejection -> {}
         [] end.emitted # <<>> -> {end.emitted[1]}
         [] end # Rejection /\ end.emitted = <<>> ->
              IF end.state = LogicalStart THEN {} ELSE {Label[end.state]} \ {NoTerminal}
FirstTerminals ==
    [source \in Sources |-> UNION {FirstEmitted(source, s) : s \in Continuations}]

Decision(stack, terminals) == Run(terminals, BeginConcrete(stack)).decision
CanRead(stack, terminals) == Decision(stack, terminals) \in {"Continue", "Accepted"}

(* There are enough continuations if none of the given ones adds anything.   *)
EnoughContinuations(some) ==
    \A source \in Sources : \A bytes \in some :
       FirstEmitted(source, bytes) \subseteq FirstTerminals[source]

(* A token is viable if some terminal can follow what it emits; an end of    *)
(* sequence, if the input may end.                                           *)
Viable(status, execution) ==
    \/ /\ execution.kind = "Continue"
       /\ \E t \in FirstTerminals[execution.state] :
             CanRead(status.stack, Append(execution.emitted, t))
    \/ /\ execution.kind = "Finished"
       /\ Decision(status.stack, Append(execution.emitted, Eof)) = "Accepted"

After(status, execution) ==
    IF execution.kind = "Finished" THEN Accepted
    ELSE RunningAt(execution.state, Run(execution.emitted, BeginConcrete(status.stack)).stack)

ReferenceMask(status) == {t \in Tokens : Viable(status, Execute(status.lexer, t))}

ReferenceOutcome(status, token) ==
    CASE status = Accepted -> IF token = NoToken THEN Granted(Accepted) ELSE Refused("Completed")
      [] status # Accepted /\ token = NoToken -> Refused("MissingRunningToken")
      [] status # Accepted /\ token \notin Tokens \cup {NoToken} -> Refused("InvalidToken")
      [] status # Accepted /\ token \in Tokens ->
           IF token \in ReferenceMask(status)
           THEN Granted(After(status, Execute(status.lexer, token)))
           ELSE Refused("ConstraintViolation")

ReferenceMaskError(status) ==
    IF status = Accepted THEN "Completed"
    ELSE IF ReferenceMask(status) = {} THEN "NoValidToken" ELSE "none"
=============================================================================
