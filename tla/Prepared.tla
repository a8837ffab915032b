------------------------------ MODULE Prepared ------------------------------
(* What PreparedGrammar holds (engine.rs): the token table, the singleton    *)
(* terminals, the inverse buckets and the classification table, as functions *)
(* of the lexer and the parser; and the queries a matcher asks of them.      *)
(*                                                                           *)
(* The tables have no parameter, so they are evaluated once, as the code     *)
(* builds them once.                                                         *)
EXTENDS Lexer, Lalr, FiniteSets

CONSTANTS
    Eof,            \* the end-of-input terminal
    StartState      \* the parser's start state

ASSUME PreparedAssumption ==
    /\ Eof \in Terminals \ Ignored          \* validate.rs
    /\ LexerTerminals \subseteq Terminals \ {Eof}
    /\ StartState \in ParserStates
    /\ IsFiniteSet(DfaStates)
-----------------------------------------------------------------------------
TokenTable == [source \in Sources |-> [token \in Tokens |-> Execute(source, token)]]

(* The terminals that may come first out of a lexer state: what it accepts,  *)
(* what a byte makes it emit, and those of the states it can move to without *)
(* emitting.                                                                 *)
Emits(source) ==
    {t \in LexerTerminals :
       \/ source # LogicalStart /\ Label[source] = t
       \/ \E b \in Bytes : ByteStep(source, b).emitted = <<t>>}
Moves(source) ==
    {ByteStep(source, b).state : b \in
        {b \in Bytes : ByteStep(source, b) # Rejection /\ ByteStep(source, b).emitted = <<>>}}

(* Mutant: nothing is propagated to the predecessors.                        *)
SingletonsUnpropagated == [s \in Sources |-> Emits(s)]

(* What is in every set that holds the source and is closed under its moves. *)
Reachable(source) ==
    {d \in Sources : \A Q \in SUBSET Sources :
        source \in Q /\ (\A s \in Q : Moves(s) \subseteq Q) => d \in Q}

Singletons == [s \in Sources |-> UNION {Emits(d) : d \in Reachable(s)}]

(* The sequence heads of a token from a source, and the tokens of a head.    *)
Heads(execution) ==
    IF execution.kind # "Continue" THEN {}
    ELSE {Append(execution.emitted, t) : t \in Singletons[execution.state]}
HeadsOf(source, token) == Heads(TokenTable[source][token])

Buckets ==
    [source \in Sources |->
       LET heads == UNION {HeadsOf(source, token) : token \in Tokens}
       IN [h \in heads |-> {token \in Tokens : h \in HeadsOf(source, token)}]]

SequenceHeads == UNION {DOMAIN Buckets[source] : source \in Sources}

(* prepare_parser: every state by every head.                                *)
ClassTable ==
    [state \in ParserStates |->
       [h \in SequenceHeads |-> Classify(Run(h, BeginSymbolic(state, Unbounded)).decision)]]
-----------------------------------------------------------------------------
(* The status of a row, and what evaluating a token on it decides.           *)
RunningAt(lexer, stack) == [phase |-> "Running", lexer |-> lexer, stack |-> stack]
Accepted == [phase |-> "Accepted", lexer |-> LogicalStart, stack |-> <<>>]
Initial == RunningAt(LogicalStart, <<StartState>>)
Done(status) == status.phase = "Accepted"
Statuses ==
    [phase : {"Running", "Accepted"}, lexer : Sources, stack : Seq(ParserStates)]

Refused(error) == [error |-> error]
Granted(status) == [error |-> "none", status |-> status]

(* sequence_allowed_with_scratch: the table, or the whole stack.             *)
ClassVerdict(class, stack, head) ==
    CASE class = "AlwaysReadable" -> "allowed"
      [] class = "Rejected"       -> "denied"
      [] class = "Dependent"      -> HeadAllowed(stack, head)
SequenceVerdict(stack, head) == ClassVerdict(ClassTable[Top(stack)][head], stack, head)

(* evaluate_eos_into: what was being read, then the end of input, in two     *)
(* runs.                                                                     *)
AtEnd(decision) ==
    CASE decision = "Accepted"                 -> Granted(Accepted)
      [] decision \in {"Rejected", "Continue"} -> Refused("ConstraintViolation")
      [] decision \notin {"Accepted", "Rejected", "Continue"} -> Refused("CorruptPreparedData")

EvaluateEos(stack, emitted) ==
    LET read == Run(emitted, BeginConcrete(stack))
    IN CASE read.decision = "Continue" ->
              AtEnd(Run(<<Eof>>, BeginConcrete(read.stack)).decision)
         [] read.decision = "Rejected" -> Refused("ConstraintViolation")
         [] read.decision \notin {"Rejected", "Continue"} -> Refused("CorruptPreparedData")

(* evaluate_token_into.  The heads of the token are tried in bucket order up *)
(* to the first that is allowed or fails; the order is abstracted, and a     *)
(* failure wins.  A token let through must then run, and go on.              *)
LetThrough(lexer, run) ==
    IF run.decision = "Continue" THEN Granted(RunningAt(lexer, run.stack))
    ELSE Refused("CorruptPreparedData")

Judged(verdicts, outcome) ==
    CASE "failed" \in verdicts                               -> Refused("CorruptPreparedData")
      [] "failed" \notin verdicts /\ "allowed" \in verdicts    -> outcome
      [] "failed" \notin verdicts /\ "allowed" \notin verdicts -> Refused("ConstraintViolation")

EvaluateOrdinary(status, execution) ==
    Judged({SequenceVerdict(status.stack, h) : h \in Heads(execution)},
           LetThrough(execution.state, Run(execution.emitted, BeginConcrete(status.stack))))

EvaluateExecution(status, execution) ==
    CASE execution.kind = "None"     -> Refused("ConstraintViolation")
      [] execution.kind = "Continue" -> EvaluateOrdinary(status, execution)
      [] execution.kind = "Finished" -> EvaluateEos(status.stack, execution.emitted)
EvaluateToken(status, token) == EvaluateExecution(status, TokenTable[status.lexer][token])

(* next_status_into, in the order of its checks.                             *)
NextStatus(status, token) ==
    CASE status.phase = "Accepted"                      -> Refused("Completed")
      [] status.phase = "Running" /\ token \notin Tokens -> Refused("InvalidToken")
      [] status.phase = "Running" /\ token \in Tokens    -> EvaluateToken(status, token)

(* fill_mask_with_scratch: the tokens of the allowed buckets, and the        *)
(* end-of-sequence tokens that would accept.                                 *)
OrdinaryMask(status) ==
    UNION {Buckets[status.lexer][h] :
             h \in {h \in DOMAIN Buckets[status.lexer] :
                      SequenceVerdict(status.stack, h) = "allowed"}}
EosWith(status, error) ==
    {token \in Tokens :
       /\ TokenTable[status.lexer][token].kind = "Finished"
       /\ EvaluateToken(status, token).error = error}
MaskFails(status) ==
    \/ \E h \in DOMAIN Buckets[status.lexer] : SequenceVerdict(status.stack, h) = "failed"
    \/ EosWith(status, "CorruptPreparedData") # {}
MaskOf(status) == OrdinaryMask(status) \cup EosWith(status, "none")

MaskError(status) ==
    CASE status.phase = "Accepted" -> "Completed"
      [] status.phase = "Running" ->
           IF MaskFails(status) THEN "CorruptPreparedData"
           ELSE IF MaskOf(status) = {} THEN "NoValidToken" ELSE "none"
=============================================================================
