---------------------------- MODULE MCToolchain -----------------------------
(* Two bytes, a third character that stands for none, and documents that     *)
(* vary one good one of each kind; sources that vary one good one, up to and *)
(* past each limit.                                                          *)
EXTENDS Toolchain, TLC

MCBytes == {"x", "y"}
MCCharacters == {"x", "y", "u"}
MCUnmapped == "unmapped"
MCByteOf == [c \in MCCharacters |-> IF c = "u" THEN MCUnmapped ELSE c]
MCUtf8 == "x" :> <<"x">> @@ "y" :> <<"y">> @@ "u" :> <<"x", "y">>
MCNotText == <<"not text">>
MCNotAnId == -1

Pair(piece, id) == [piece |-> piece, id |-> id]
Added(piece, id, special) == [piece |-> piece, id |-> id, special |-> special]
EndId == 2
Map == [bytes |-> 3, fields |-> 1, utf8 |-> TRUE, json |-> TRUE, decoder |-> TRUE, model |-> "map",
        vocabulary |-> << Pair(<<"x">>, 0), Pair(<<"x", "u">>, EndId), Pair(<<"y">>, 1) >>, added |-> <<>>]
List == [Map EXCEPT !.model = "list", !.vocabulary = << <<"x">>, <<"y">>, <<"u">> >>]
Vocabularies ==
    { <<Pair(<<"x">>, 0), Pair(<<"x", "y">>, 0), Pair(<<"y">>, 1)>>,
      <<Pair(<<"x">>, 0), Pair(<<"y">>, 3)>>, <<Pair(<<"x">>, 0), Pair(<<"y">>, 5)>>,
      <<Pair(<<"x">>, MCNotAnId)>>, <<Pair(<<>>, 0), Pair(<<"y">>, 1)>>,
      <<Pair(<<"x">>, 1), Pair(<<"y">>, 0)>>, <<Pair(<<"x">>, 1), Pair(<<"y">>, 3)>>, <<>> }
AddedLists ==
    { <<Added(<<"u">>, EndId, "yes")>>, <<Added(<<"x", "u">>, EndId, "yes")>>,
      <<Added(<<"x">>, 0, "yes")>>, <<Added(<<"x">>, 0, "no"), Added(<<"x", "x">>, 3, "no")>>,
      <<Added(<<"x", "x">>, 4, "no"), Added(<<"y", "x">>, 3, "no")>>,
      <<Added(<<"u">>, 3, "no"), Added(<<"y", "u">>, 3, "no")>>,
      <<Added(<<"x">>, 5, "no")>>, <<Added(<<"x">>, MCNotAnId, "no")>>, <<Added(MCNotText, 3, "no")>>,
      <<Added(<<"x", "x">>, 0, "no")>>, <<Added(<<"x", "y">>, 3, "absent")>>,
      <<Added(<<"x">>, 0, "no"), Added(<<"x", "u">>, EndId, "yes")>> }
MCDocuments ==
    {[d EXCEPT !.added = a] : d \in {Map, List}, a \in AddedLists \cup {<<>>}}
      \cup {[Map EXCEPT !.vocabulary = v, !.added = a] :
              v \in Vocabularies, a \in {<<>>, <<Added(<<"u">>, EndId, "yes")>>,
                                         <<Added(<<"x">>, 0, "no")>>}}
      \cup {[Map EXCEPT !.bytes = 7], [Map EXCEPT !.utf8 = FALSE], [Map EXCEPT !.json = FALSE],
            [Map EXCEPT !.decoder = FALSE], [Map EXCEPT !.model = "other"],
            [List EXCEPT !.vocabulary = <<>>], [List EXCEPT !.vocabulary = << <<"x">>, MCNotText >>],
            [List EXCEPT !.vocabulary = << <<"x">>, <<"y">>, <<"y">>, <<"x", "x", "y", "y">> >>],
            [List EXCEPT !.vocabulary = << <<"u", "u">>, <<"y">>, <<"y">>, <<"x", "u">>, <<"x">> >>],
            [List EXCEPT !.bytes = 6, !.vocabulary = << <<"x">>, <<"y">>, <<"u">>, <<"x", "x">>, <<"u">> >>],
            [List EXCEPT !.vocabulary = << <<"x">>, <<"y">>, <<"y">>, <<"y">>, <<"y">>, <<"y">> >>]}
MCEosLists == {<<EndId>>, <<>>, <<EndId, EndId>>, <<0>>, <<3, EndId>>, <<4>>, <<5>>, <<MCNotAnId>>}

MCPatterns == {"p", "q", "r", "s", "long", "look", "bad", "star", "void"}
MCNames == {"A", "B", "C", "D", "a-b"}
MCSizeOf == [x \in MCPatterns \cup MCNames |-> CASE x = "long" -> 4 [] x = "a-b" -> 3 [] OTHER -> 1]
MCIdentifiers == MCNames \ {"a-b"}
MCFlaw == [p \in MCPatterns |-> CASE p = "look" -> "unsupported" [] p = "bad" -> "invalid"
                                  [] p = "star" -> "nullable" [] p = "void" -> "unmatchable"
                                  [] OTHER -> "none"]
MCLexeme == [p \in MCPatterns |-> IF p = "r" THEN "p" ELSE p]
MCSkip == "skip"

T(name, pattern, priority) == [name |-> name, pattern |-> pattern, priority |-> priority]
Good == [text |-> 3, start |-> "declared", utf8 |-> TRUE, directives |-> {}, syntax |-> TRUE,
         named |-> <<"A", "B">>, used |-> {"A"}, rules |-> 2, productions |-> 2, work |-> 4, bytes |-> 4,
         terminals |-> <<T("B", "q", 0), T("A", "p", 0)>>, ignored |-> <<"B">>]
Aliases == [Good EXCEPT !.named = <<"A", "B", "C">>, !.used = {"A", "B", "C"}, !.ignored = <<>>]
With(terminals) == [Good EXCEPT !.terminals = terminals]
Full == [Good EXCEPT !.named = <<"A", "B", "C", "D">>, !.ignored = <<>>,
                     !.terminals = <<T("A", "p", 0), T("B", "q", 0), T("C", "s", 0), T("D", "r", 1)>>]
MCSources ==
    {Good} \cup {[Good EXCEPT !.text = n, !.start = start] : n \in {6, 7, 8, 9}, start \in {"absent", "declared"}}
      \cup {[Good EXCEPT !.start = "twice"], [Good EXCEPT !.utf8 = FALSE], [Good EXCEPT !.syntax = FALSE],
            [Good EXCEPT !.directives = {"%left"}], [Good EXCEPT !.named = <<"A", "B", "C", "D", "a-b">>],
            [Good EXCEPT !.rules = 4], [Good EXCEPT !.productions = 5], [Aliases EXCEPT !.rules = 3],
            [Good EXCEPT !.work = 7], [Good EXCEPT !.bytes = 8], Full,
            [Good EXCEPT !.named = <<"A">>], [Good EXCEPT !.ignored = <<"B", "B">>],
            [Good EXCEPT !.ignored = <<"C">>], [Good EXCEPT !.ignored = <<"A">>],
            [Good EXCEPT !.ignored = <<"a-b">>], [Good EXCEPT !.ignored = <<"B", "C", "D">>],
            With(<<T("A", "p", 0), T("A", "q", 0)>>), With(<<T("A", "p", 0)>>),
            With(<<T("A", "p", 0), T("a-b", "q", 0)>>), With(<<T("A", "p", 0), T("B", "long", 0)>>),
            With(<<T("A", "q", 0), T("B", "long", 0)>>),
            [With(<<T("A", "p", 0), T("B", "q", 0), T("C", "p", 0), T("D", "p", 0), T("D", "q", 0)>>)
              EXCEPT !.text = 2, !.ignored = <<>>]}
      \cup {With(<<T("A", "p", 0), T("B", flawed, 0)>>) : flawed \in {"look", "bad", "star", "void"}}
      \cup {[Aliases EXCEPT !.terminals = <<T("C", "p", ps[1]), T("B", other, ps[2]), T("A", "r", ps[3])>>] :
              other \in {"p", "q"}, ps \in {<<0, 1, 2>>, <<2, 1, 0>>, <<1, 0, 1>>, <<0, 1, 0>>, <<0, 0, 1>>}}
      \cup {[Aliases EXCEPT !.terminals = <<T("C", "look", 0), T("B", "q", 0), T("A", "r", 0)>>],
            [Aliases EXCEPT !.named = <<"C", "B", "A">>,
                            !.terminals = <<T("C", "p", 0), T("B", "q", 0), T("A", "s", 0)>>]}
MCUserSources == {Good}

M(token_bytes, eos) == [token_bytes |-> token_bytes, eos_token_ids |-> eos]
MCManifests ==
    {M(<< <<"x">>, <<>> >>, {1}), M(<<>>, {0}), M(<< <<"x">>, <<"y">> >>, {}), M(<< <<"x">>, <<"y">> >>, {2}),
     M(<< <<"x">>, <<"y">> >>, {0, 1}), M(<< <<"x">>, <<>>, <<"y">> >>, {0}),
     M(<< <<"x", "x", "x">>, <<"y", "y", "y">>, <<"x", "y", "x">> >>, {1}),
     M(<< <<"x", "x", "x">>, <<"y", "y", "y">>, <<"x">> >>, {2}),
     M(<< <<"x", "x", "x">>, <<"y", "y", "y">>, <<"x", "y", "x">>, <<>> >>, {3}),
     M(<< <<"x", "x", "x">>, <<"y", "y", "y">>, <<"x", "y">>, <<>> >>, {3}),
     M([i \in 1..5 |-> <<"x">>], {0}), M([i \in 1..6 |-> <<"x">>], {0})}
=============================================================================
