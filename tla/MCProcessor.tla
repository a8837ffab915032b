----------------------------- MODULE MCProcessor ----------------------------
(* A grammar whose words are a b eos, b eos and the dead end a a; the prompt *)
(* is one token.                                                             *)
EXTENDS Processor

MCVocabulary == {"a", "b", "eos"}
MCEos == {"eos"}
MCNoToken == "none"
MCWords == {<<>>, <<"a">>, <<"b">>, <<"a", "a">>, <<"a", "b">>, <<"b", "eos">>,
            <<"a", "b", "eos">>}
MCTokenIds == MCVocabulary \cup {"foreign"}
MCFree == "free"
MCNoInput == <<>>
MCThreads == {"t1", "t2"}

(* One row: every text of up to three tokens more than the prompt, one with  *)
(* another prompt, one with a foreign token and one of two rows.             *)
OnePrompt == <<<<"a">>>>
OneInputs ==
    {<<<<"a">> \o word>> : word \in UNION {[1..n -> MCVocabulary] : n \in 0..3}}
      \cup {<<<<"b">>>>, <<<<"a", "foreign">>>>, <<<<"a">>, <<"a">>>>}

Handled == {"checking", "native", "masking"}
Anywhere == Phases \ {"idle"}
=============================================================================
