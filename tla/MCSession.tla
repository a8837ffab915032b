----------------------------- MODULE MCSession ------------------------------
(* The grammar of MCProcessor, asked for in every way: by good requests, by  *)
(* one with each mistake, and for too many rows, for the masks or at all.    *)
EXTENDS Session, MCProcessor

MCNoRequest == [via |-> "nobody"]
Good(via) == [via |-> via, rows |-> RowCount, pad |-> Pad, prompt |-> TRUE,
              settings |-> TRUE, processors |-> TRUE]
MCRequests ==
    {Good("constructor"), [Good("constructor") EXCEPT !.pad = "foreign"],
     [Good("constructor") EXCEPT !.rows = 5], [Good("constructor") EXCEPT !.prompt = FALSE],
     Good("logits_processor"), [Good("logits_processor") EXCEPT !.pad = "foreign"],
     [Good("logits_processor") EXCEPT !.rows = 3],
     Good("generate"), [Good("generate") EXCEPT !.settings = FALSE],
     [Good("generate") EXCEPT !.pad = "eos"], [Good("generate") EXCEPT !.pad = NoToken],
     [Good("generate") EXCEPT !.processors = FALSE]}

TwoPrompt == <<<<"a">>, <<"a">>>>

(* Pairs of texts that follow each other in some way, and wrong ones.        *)
MCRuns == {<<<<"a", "b", "eos", "b">>, <<"b", "eos", "b", "b">>>>,
           <<<<"a", "b", "eos">>, <<"a", "b", "eos">>>>,
           <<<<"b", "eos", "a">>, <<"a", "b", "eos">>>>,
           <<<<"b", "eos">>, <<"a", "a">>>>,
           <<<<"a", "b", "b">>, <<"b", "eos", "eos">>>>,
           <<<<"a", "b">>, <<"a", "eos">>>>}
MCInputs ==
    UNION {{[row \in Rows |-> <<"a">> \o SubSeq(run[row], 1, n)] : n \in 0..Len(run[1])} : run \in MCRuns}
      \cup {<<<<"a", "foreign">>, <<"a", "b">>>>, <<<<"a">>>>}
=============================================================================
