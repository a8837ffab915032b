--------------------------- MODULE MatcherContract --------------------------
(* What a caller of a matcher is promised (core/src/engine.rs, the comments  *)
(* of impl Matcher): a call is atomic.  It advances every row it names and   *)
(* answers every mask it was asked for, or it changes no row and answers     *)
(* none.                                                                     *)
(*                                                                           *)
(* A grammar is here no more than what it makes of a row: its outcome under  *)
(* a token and its mask.                                                     *)
EXTENDS MatcherCalls

CONSTANTS
    Initial,                \* the status of a new row
    Done(_),                \* whether a status is that of a completed row
    Outcome(_, _),          \* what a token does to a status
    Mask(_),                \* the tokens a status allows
    MaskError(_)            \* why a status has no mask

VARIABLES
    states,         \* the status of every row
    request,        \* the call being answered
    reply           \* the answer to it, or to the last one

vars == <<states, request, reply>>

Completed == {row \in Rows : Done(states[row])}
Argument == ArgumentError(request, Completed)

Init ==
    /\ states = [row \in Rows |-> Initial]
    /\ request = NoRequest
    /\ reply = NoReply

Ask(r) ==
    /\ reply # Pending
    /\ request' = r
    /\ reply' = Pending
    /\ UNCHANGED states

Answer(error, masks) ==
    /\ reply' = [error |-> error, masks |-> masks]
    /\ request' = NoRequest
-----------------------------------------------------------------------------
RowOutcome(row) == Outcome(states[row], TokenFor(request, row))
Named == First(request)..Last(request)
Is(ops) == request.op \in ops

(* The batch after a call, and the rows whose mask it answers.               *)
Successors ==
    [row \in Rows |-> IF Is(Advancing) /\ row \in Named THEN RowOutcome(row).status
                      ELSE states[row]]
Masked == {row \in Named : Is({"mask", "masks"}) \/ ~Done(Successors[row])}

(* The rows that a call cannot advance, and those whose mask it cannot give. *)
Stuck == {row \in Named : Is(Advancing) /\ RowOutcome(row).error # "none"}
Maskless == {row \in Masked : Is(Masking) /\ MaskError(Successors[row]) # "none"}

MaskAt(slot) ==
    LET asked == {row \in Masked : Slot(request, row) = slot}
    IN UNION {Mask(Successors[row]) : row \in asked}

Succeed ==
    /\ reply = Pending
    /\ Argument = "none" /\ Stuck = {} /\ Maskless = {}
    /\ states' = Successors
    /\ Answer("none", [slot \in 1..request.slots |-> MaskAt(slot)])

(* The error is that of the first row that cannot advance, or, when all can, *)
(* of the first whose mask fails.  A rejected token is reported with its row *)
(* by the call that says so.                                                 *)
Reported(error) ==
    IF Is({"advance_active_and_masks_no_result"}) /\ error = "ConstraintViolation"
    THEN "BatchConstraintViolation" ELSE error
FirstOf(S) == CHOOSE row \in S : \A other \in S : row <= other

Why ==
    CASE Argument # "none" -> Argument
      [] Argument = "none" /\ Stuck # {} -> Reported(RowOutcome(FirstOf(Stuck)).error)
      [] Argument = "none" /\ Stuck = {} ->
           IF Maskless # {} THEN MaskError(Successors[FirstOf(Maskless)]) ELSE "none"

Fail ==
    /\ reply = Pending
    /\ Why # "none"
    /\ Answer(Why, Cleared(request))
    /\ UNCHANGED states

(* Memory may run out in any call, and in those with results before the      *)
(* caller's buffer is cleared.                                               *)
RunOut ==
    /\ reply = Pending
    /\ \/ Answer("AllocationFailure", Cleared(request))
       \/ Is(WithResults) /\ Answer("AllocationFailure", Stale(request))
    /\ UNCHANGED states

Next == (\E r \in Requests : Ask(r)) \/ Succeed \/ Fail \/ RunOut

Spec == Init /\ [][Next]_vars
=============================================================================
