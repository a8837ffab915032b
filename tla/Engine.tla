------------------------------- MODULE Engine -------------------------------
(* Matcher of crates/greatgramma-core/src/engine.rs: a batch of rows of one  *)
(* prepared grammar, advanced by way of a second batch, staging, that is     *)
(* swapped in when every row is staged and every mask filled.                *)
(*                                                                           *)
(* A call is a sequence of steps, one per row and loop, for a failure may    *)
(* end it after any of them.                                                 *)
EXTENDS Prepared, MatcherCalls

CONSTANTS
    Leftovers,      \* what a failed evaluation may leave in a staged stack
    MaxStack        \* bound: no row is advanced beyond deeper stacks

ASSUME EngineAssumption ==
    /\ NoToken \notin Tokens
    /\ Leftovers \subseteq Seq(ParserStates)
    /\ MaxStack \in Nat

VARIABLES
    states,         \* the rows
    staging,        \* the rows' next statuses, stale outside a call
    output,         \* the caller's buffer, one set of tokens per row mask
    request,        \* the call under way
    call,           \* where in it the matcher is: its phase and its row
    reply           \* the last answer

vars == <<states, staging, output, request, call, reply>>

InPhase(phase, row) == [at |-> phase, row |-> row]
NoCall == InPhase("idle", 0)

(* into_matcher: every row at the start, MatcherStatus::empty staged.        *)
Init ==
    /\ states = [row \in Rows |-> Initial]
    /\ staging = [row \in Rows |-> Accepted]
    /\ output = <<>>
    /\ request = NoRequest
    /\ call = NoCall
    /\ reply = NoReply
-----------------------------------------------------------------------------
Completed == {row \in Rows : Done(states[row])}
Argument == ArgumentError(request, Completed)

Return(error, masks) ==
    /\ reply' = [error |-> error, masks |-> masks]
    /\ output' = <<>>
    /\ call' = NoCall
    /\ request' = NoRequest

Call(r) ==
    /\ call = NoCall
    /\ r.op \in Advancing => \A row \in Rows : Len(states[row].stack) <= MaxStack
    /\ request' = r
    /\ call' = InPhase("called", First(r))
    /\ output' = Stale(r)
    /\ reply' = Pending
    /\ UNCHANGED <<states, staging>>

(* reserved_vec fails for the results, which advance_active_and_masks asks   *)
(* for before it clears the buffer.                                          *)
RefuseResults ==
    /\ call.at = "called" /\ request.op \in WithResults
    /\ request.op \in Masking \/ Argument = "none"
    /\ Return("AllocationFailure", output)
    /\ UNCHANGED <<states, staging>>

RefuseArguments ==
    /\ call.at = "called" /\ Argument # "none"
    /\ Return(Argument, Cleared(request))
    /\ UNCHANGED <<states, staging>>

Start ==
    /\ call.at = "called" /\ Argument = "none"
    /\ output' = Cleared(request)
    /\ call' = InPhase(IF request.op \in Advancing THEN "stage" ELSE "fill", call.row)
    /\ UNCHANGED <<states, staging, request, reply>>
-----------------------------------------------------------------------------
(* stage_active_row and stage_batch_row.                                     *)
RowOutcome(status, token) ==
    CASE status.phase = "Accepted" /\ token = NoToken -> Granted(Accepted)
      [] status.phase = "Running" /\ token = NoToken -> Refused("MissingRunningToken")
      [] token # NoToken -> NextStatus(status, token)

Outcome == RowOutcome(states[call.row], TokenFor(request, call.row))
Evaluates == states[call.row].phase = "Running" /\ TokenFor(request, call.row) \in Tokens

NextRow(after) ==
    call' = IF call.row < Last(request) THEN InPhase(call.at, call.row + 1)
            ELSE InPhase(after, First(request))

StageRow(outcome) ==
    /\ call.at = "stage" /\ outcome.error = "none"
    /\ staging' = [staging EXCEPT ![call.row] = outcome.status]
    /\ NextRow(IF request.op \in Masking THEN "fill" ELSE "commit")
    /\ UNCHANGED <<states, output, request, reply>>

(* The call fails and so leaves the rows alone.  The stack of the row it     *)
(* failed on may be anything in staging.                                     *)
Abandon(error) ==
    /\ Return(error, Cleared(request))
    /\ UNCHANGED states

Leave ==
    \/ Evaluates /\ \E left \in Leftovers : staging' = [staging EXCEPT ![call.row].stack = left]
    \/ ~Evaluates /\ UNCHANGED staging

StageFails(outcome) ==
    /\ call.at = "stage" /\ outcome.error # "none"
    /\ Abandon(IF /\ request.op = "advance_active_and_masks_no_result"
                  /\ outcome.error = "ConstraintViolation"
               THEN "BatchConstraintViolation" ELSE outcome.error)
    /\ Leave

StageExhausts ==
    /\ call.at = "stage" /\ Evaluates
    /\ Abandon("AllocationFailure")
    /\ Leave
-----------------------------------------------------------------------------
(* Mutant: the masks after an advance are those of the rows before it.       *)
FilledBefore == states[call.row]

(* fill_mask_row of the rows, or fill_staged_mask_row of the staged ones,    *)
(* which leaves a completed row's mask for the caller to pad.                *)
Filled ==
    IF request.op \in Advancing THEN staging[call.row] ELSE states[call.row]
Skipped == request.op \in Advancing /\ Done(Filled)

FillRow ==
    /\ call.at = "fill"
    /\ \/ /\ ~Skipped /\ MaskError(Filled) = "none"
          /\ output' = [output EXCEPT ![Slot(request, call.row)] = MaskOf(Filled)]
       \/ Skipped /\ UNCHANGED output
    /\ NextRow("commit")
    /\ UNCHANGED <<states, staging, request, reply>>

FillFails(error) ==
    /\ call.at = "fill" /\ ~Skipped /\ error # "none"
    /\ Abandon(error)
    /\ UNCHANGED staging

FillExhausts ==
    /\ call.at = "fill" /\ ~Skipped /\ Filled.phase = "Running"
    /\ Abandon("AllocationFailure")
    /\ UNCHANGED staging
-----------------------------------------------------------------------------
(* Mutant: advance swaps the batches, as the calls on all rows do.           *)
CommitBatch ==
    /\ call.at = "commit" /\ request.op \in Advancing
    /\ states' = staging /\ staging' = states
    /\ Return("none", output)

(* std::mem::swap of the row, or of the batches.                             *)
Commit ==
    /\ call.at = "commit" /\ request.op \in Advancing
    /\ LET swapped == IF request.op = "advance" THEN {request.row} ELSE Rows
       IN /\ states' = [row \in Rows |-> IF row \in swapped THEN staging[row] ELSE states[row]]
          /\ staging' = [row \in Rows |-> IF row \in swapped THEN states[row] ELSE staging[row]]
    /\ Return("none", output)

Deliver ==
    /\ call.at = "commit" /\ request.op \notin Advancing
    /\ Return("none", output)
    /\ UNCHANGED <<states, staging>>

Next ==
    \/ \E r \in Requests : Call(r)
    \/ RefuseResults \/ RefuseArguments \/ Start
    \/ StageRow(Outcome) \/ StageFails(Outcome) \/ StageExhausts
    \/ FillRow \/ FillFails(MaskError(Filled)) \/ FillExhausts
    \/ Commit \/ Deliver

Spec == Init /\ [][Next]_vars
-----------------------------------------------------------------------------
CallType ==
    \/ call = NoCall /\ request = NoRequest /\ reply # Pending
    \/ /\ call \in [at : {"called", "stage", "fill", "commit"}, row : Nat]
       /\ request \in Requests /\ reply = Pending
       /\ call.at # "called" => call.row \in Rows /\ Argument = "none"

TypeOK ==
    /\ states \in [Rows -> Statuses]
    /\ staging \in [Rows -> Statuses]
    /\ CallType
    /\ output \in [DOMAIN output -> (SUBSET Tokens) \cup {StaleMask}]

(* A row that runs has a stack that starts at the start state and follows    *)
(* the shifts and gotos of the table: what every stored classification is    *)
(* about.  A completed one has none.                                         *)
StackIsAPath(status) ==
    /\ status.phase = "Running" => IsPath(StartState, status.stack)
    /\ status.phase = "Accepted" => status.stack = <<>>
RowsArePaths == \A row \in Rows : StackIsAPath(states[row])
=============================================================================
