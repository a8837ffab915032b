------------------------------- MODULE Checks -------------------------------
(* The tests that a stage makes of its input, in the order it makes them:    *)
(* it goes on if all of them hold, and refuses with the first that fails.    *)
(* And what the stages up to the automaton share: a token is the sequence of *)
(* its bytes or Eos.                                                         *)
EXTENDS Integers, SequencesExt

Test(holds, why) == [holds |-> holds, why |-> why]
Holds(tests) == \A i \in 1..Len(tests) : tests[i].holds
FirstFailure(tests) ==
    tests[CHOOSE i \in 1..Len(tests) : ~tests[i].holds /\ \A j \in 1..(i - 1) : tests[j].holds].why

Eos == <<"eos">>
Maximum(S) == CHOOSE n \in S : \A m \in S : m <= n
Elements(s) == {s[i] : i \in 1..Len(s)}
=============================================================================
