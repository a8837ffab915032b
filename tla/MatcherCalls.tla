---------------------------- MODULE MatcherCalls ----------------------------
(* The calls a matcher of RowCount rows answers (core/src/engine.rs, impl    *)
(* Matcher), with their arguments, and which of them the matcher refuses     *)
(* before it looks at a row.  Rows are numbered from 1.                      *)
EXTENDS Naturals, Sequences

CONSTANTS
    RowCount,
    TokenIds,       \* the tokens callers pass, those out of the vocabulary included
    NoToken,        \* None, in the calls that take an optional token per row
    Requests,       \* the calls that are made
    StaleMask       \* what a caller's buffer may hold before a call

Rows == 1..RowCount

(* op, with the row of the calls on one row, the tokens of an advance and    *)
(* the number of row masks the caller's buffer can hold.                     *)
OneRow == {"mask", "advance"}
OptionalTokens ==
    {"advance_active", "advance_active_and_masks", "advance_active_and_masks_no_result"}
Advancing == {"advance", "advance_batch"} \cup OptionalTokens
WithResults == {"advance_batch", "advance_active", "advance_active_and_masks"}
Masking ==
    {"mask", "masks", "advance_active_and_masks", "advance_active_and_masks_no_result"}

WellFormed(r) ==
    /\ r.op \in Advancing \cup Masking
    /\ r.row \in Nat
    /\ r.slots \in Nat
    /\ r.tokens \in Seq(TokenIds \cup (IF r.op \in OptionalTokens THEN {NoToken} ELSE {}))
    /\ r.op = "advance" => Len(r.tokens) = 1
    /\ r.op \notin Masking => r.slots = 0

ASSUME CallsAssumption ==
    /\ RowCount \in Nat \ {0}                   \* into_matcher: EmptyBatch
    /\ NoToken \notin TokenIds
    /\ \A r \in Requests : WellFormed(r)
NoRequest == [op |-> "none"]
NoReply == [error |-> "none", masks |-> <<>>]
Pending == [error |-> "pending"]
-----------------------------------------------------------------------------
(* The rows a call goes through, in this order, and what it does with each.  *)
First(r) == IF r.op \in OneRow THEN r.row ELSE 1
Last(r) == IF r.op \in OneRow THEN r.row ELSE RowCount
TokenFor(r, row) == IF r.op = "advance" THEN r.tokens[1] ELSE r.tokens[row]
Slot(r, row) == IF r.op = "mask" THEN 1 ELSE row
Cleared(r) == [slot \in 1..r.slots |-> {}]
Stale(r) == [slot \in 1..r.slots |-> StaleMask]

BatchArguments(r) == r.op \in Advancing \ OneRow => Len(r.tokens) = RowCount

(* Mutant: mask does not check its row.                                      *)
ArgumentErrorOfAnyRow(r, completed) ==
    CASE r.op = "mask" -> IF r.row \in completed THEN "Completed"
                          ELSE IF r.slots < 1 THEN "BufferTooSmall" ELSE "none"
      [] r.op = "advance" -> IF r.row \in Rows THEN "none" ELSE "InvalidRow"
      [] r.op \notin OneRow ->
           IF ~BatchArguments(r) THEN "BatchSizeMismatch"
           ELSE IF r.op \in Masking /\ r.slots < RowCount THEN "BufferTooSmall" ELSE "none"

(* The early returns, in their order.  A completed row is noticed before a   *)
(* short buffer by mask, and a short buffer before any row by the others.    *)
ArgumentError(r, completed) ==
    CASE r.op \in OneRow /\ r.row \notin Rows -> "InvalidRow"
      [] r.op = "mask" /\ r.row \in Rows ->
           IF r.row \in completed THEN "Completed"
           ELSE IF r.slots < 1 THEN "BufferTooSmall" ELSE "none"
      [] r.op = "advance" /\ r.row \in Rows -> "none"
      [] r.op \notin OneRow ->
           IF ~BatchArguments(r) THEN "BatchSizeMismatch"
           ELSE IF r.op \in Masking /\ r.slots < RowCount THEN "BufferTooSmall" ELSE "none"
=============================================================================
