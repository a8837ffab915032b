------------------------------ MODULE MCEngine ------------------------------
(* The engine on the list grammar, with the vocabulary of MCLexicon.         *)
EXTENDS EngineChecks, MCListGrammar, MCLexicon

MCContinuations == UNION {[1..n -> MCBytes] : n \in 0..3}

(* No longer one adds to what may be read next.                              *)
ASSUME LongerAddsNothing == EnoughContinuations([1..4 -> MCBytes])

(* The whole vocabulary is for one row, this part of it for a batch of two.  *)
BatchBytes == [t \in {"[", "x", "y"} |-> <<t>>]
BatchTokens == DOMAIN BatchBytes \cup MCEosTokens

MCNoToken == "no token"
MCTokenIds(tokens) == tokens \cup {"foreign"}
RowTokenIds == MCTokenIds(RowTokens)
BatchTokenIds == MCTokenIds(BatchTokens)
MCLeftovers == {<<>>, <<0, 2, 3>>}
BatchLeftovers == {<<0, 2>>}

asked(op, row, tokens, slots) == [op |-> op, row |-> row, tokens |-> tokens, slots |-> slots]

(* Buffers a row short and a row long, and a batch of the wrong length.      *)
RowRequests ==
    {asked("mask", row, <<>>, slots) : row \in 1..2, slots \in 0..2}
      \cup {asked("advance", 1, <<t>>, 0) : t \in RowTokenIds}
      \cup {asked("advance_active_and_masks_no_result", 0, <<t>>, 1) :
              t \in RowTokenIds \cup {MCNoToken}}
      \cup {asked("advance_active", 0, tokens, 0) : tokens \in {<<>>, <<MCNoToken>>}}

Pairs(tokens) == {<<a, b>> : a, b \in tokens}
BatchRequests ==
    {asked("masks", 0, <<>>, slots) : slots \in 1..2}
      \cup {asked("advance", row, <<t>>, 0) : row \in 0..1, t \in {"[", "y"}}
      \cup {asked("advance_batch", 0, p, 0) : p \in {<<"x", "x">>, <<"[", "eos">>, <<"[">>}}
      \cup {asked("advance_active", 0, p, 0) : p \in {<<"x", "[">>, <<"[", "y">>}}
      \cup {asked("advance_active_and_masks", 0, p, 2) : p \in {<<"x", "x">>, <<"eos", "y">>}}
      \cup {asked("advance_active_and_masks_no_result", 0, p, 2) :
              p \in Pairs(BatchTokens \cup {MCNoToken})}
=============================================================================
