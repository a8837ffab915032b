----------------------------- MODULE NativeBatch ----------------------------
(* NativeBatch of crates/greatgramma-python/src/lib.rs: one generation       *)
(* session over a matcher, with the padding of rows that have ended.         *)
(*                                                                           *)
(* By MatcherContract a matcher's row is what its tokens have made of it, so *)
(* a row is here the word of its tokens, and a grammar the set of words it   *)
(* can be made to read.                                                      *)
EXTENDS Naturals, Sequences

CONSTANTS
    RowCount,
    Vocabulary,
    EosTokens,
    NoToken,
    Pad,            \* pad_token_id, NoToken if there is none
    Words           \* the words a row can read, one token at a time

Rows == 1..RowCount
Ended(word) == word # <<>> /\ word[Len(word)] \in EosTokens

ASSUME BatchAssumption ==
    /\ RowCount \in Nat \ {0}
    /\ EosTokens \subseteq Vocabulary /\ NoToken \notin Vocabulary
    /\ Pad \in Vocabulary \cup {NoToken}
    /\ RowCount > 1 => Pad # NoToken                    \* new_batch_inner
    /\ <<>> \in Words /\ Words \subseteq Seq(Vocabulary)
    /\ \A w \in Words \ {<<>>} : LET front == SubSeq(w, 1, Len(w) - 1)
                                 IN front \in Words /\ ~Ended(front)
-----------------------------------------------------------------------------
(* The matcher: the tokens a row allows, and its two calls.                  *)
Mask(word) == {t \in Vocabulary : Append(word, t) \in Words}
NoMasks == [row \in Rows |-> {}]

Advanced(words, active) ==
    [row \in Rows |-> IF active[row] = NoToken THEN words[row]
                      ELSE Append(words[row], active[row])]

(* Mutant: a token that the row does not allow is not refused.               *)
MatcherErrorOfMasks(words, active) ==
    LET advanced == Advanced(words, active)
    IN IF \E row \in Rows : ~Ended(advanced[row]) /\ Mask(advanced[row]) = {}
       THEN "no_valid_token" ELSE "none"

(* advance_active_and_masks_no_result, when no memory is short.              *)
MatcherError(words, active) ==
    LET advanced == Advanced(words, active)
    IN IF \E row \in Rows : advanced[row] \notin Words THEN "constraint_violation"
       ELSE IF \E row \in Rows : ~Ended(advanced[row]) /\ Mask(advanced[row]) = {}
       THEN "no_valid_token" ELSE "none"

(* The batch and the matcher go through the rows in order.                   *)
FirstOf(rows) == CHOOSE row \in rows : \A other \in rows : row <= other

(* masks: the rows up to the first that has none.                            *)
MasksError(words) ==
    LET maskless == {row \in Rows : Mask(words[row]) = {}}
    IN IF maskless = {} THEN "none"
       ELSE IF Ended(words[FirstOf(maskless)]) THEN "sequence_completed" ELSE "no_valid_token"
-----------------------------------------------------------------------------
(* A batch, and what a call may make of it: a code, its new value and the    *)
(* masks.  finish_batch_call poisons the batch on an internal error, which   *)
(* may be met before the matcher commits or after (a panic caught by         *)
(* detached, memory short, the bytes object refused).                        *)
NewBatch == [words |-> [row \in Rows |-> <<>>], active |-> [row \in Rows |-> NoToken],
             poisoned |-> FALSE]

Returns(error, batch, masks) == [error |-> error, batch |-> batch, masks |-> masks]
InternalError(batch) == Returns("internal_error", [batch EXCEPT !.poisoned = TRUE], NoMasks)

InitialMasks(batch) ==
    IF batch.poisoned THEN {InternalError(batch)}
    ELSE LET error == MasksError(batch.words)
         IN {InternalError(batch),
             IF error # "none" THEN Returns(error, batch, NoMasks)
             ELSE Returns("none", batch, [row \in Rows |-> Mask(batch.words[row])])}

(* The token each row is to advance by, and the rows whose token is refused  *)
(* before the matcher is asked.                                              *)
ActiveToken(word, token) == IF Ended(word) THEN NoToken ELSE token
TokenError(word, token) ==
    CASE token \notin Vocabulary                 -> "constraint_violation"
      [] token \in Vocabulary /\ Ended(word) /\ token # Pad -> "sequence_completed"
      [] token \in Vocabulary /\ (Ended(word) => token = Pad) -> "none"

(* Mutant: the mask of an ended row is left empty.                           *)
PaddedNot(batch) ==
    IF \A row \in Rows : Ended(batch.words[row])
    THEN Returns("sequence_completed", batch, NoMasks)
    ELSE Returns("none", batch,
                 [row \in Rows |-> IF Ended(batch.words[row]) THEN {} ELSE Mask(batch.words[row])])

(* The masks after a commit: an ended row allows its pad only.  Without one, *)
(* or with no row left, the call fails, although it has committed.           *)
Padded(batch) ==
    LET ended == {row \in Rows : Ended(batch.words[row])}
    IN IF ended = Rows \/ (ended # {} /\ Pad = NoToken)
       THEN Returns("sequence_completed", batch, NoMasks)
       ELSE Returns("none", batch,
                    [row \in Rows |-> IF row \in ended THEN {Pad} ELSE Mask(batch.words[row])])

(* The rows are looked at in order: what comes before a refused row is       *)
(* written down already.                                                     *)
RefusedRows(batch, tokens) ==
    {row \in Rows : TokenError(batch.words[row], tokens[row]) # "none"}
Ready(batch, tokens) ==
    LET refused == RefusedRows(batch, tokens)
    IN [batch EXCEPT !.active =
          [row \in Rows |-> IF refused = {} \/ row < FirstOf(refused)
                            THEN ActiveToken(batch.words[row], tokens[row])
                            ELSE batch.active[row]]]

Stepped(batch, tokens) ==
    LET refused == RefusedRows(batch, tokens)
        first == FirstOf(refused)
        ready == Ready(batch, tokens)
        committed == [ready EXCEPT !.words = Advanced(batch.words, ready.active)]
        error == MatcherError(batch.words, ready.active)
    IN IF refused # {}
       THEN {Returns(TokenError(batch.words[first], tokens[first]), ready, NoMasks)}
       ELSE IF error # "none"
       THEN {InternalError(ready), Returns(error, ready, NoMasks)}
       ELSE {InternalError(ready), InternalError(committed), Padded(committed)}

AdvanceAndMasks(batch, tokens) ==
    CASE batch.poisoned -> {InternalError(batch)}
      [] ~batch.poisoned /\ Len(tokens) # RowCount ->
           {Returns("sequence_discontinuity", batch, NoMasks)}
      [] ~batch.poisoned /\ Len(tokens) = RowCount -> Stepped(batch, tokens)
=============================================================================
