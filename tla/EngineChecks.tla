---------------------------- MODULE EngineChecks ----------------------------
(* The engine against its contract, and its tables against the reference.    *)
EXTENDS Engine, Reference

(* Every call is atomic, whatever step of it fails, and its outcomes, masks  *)
(* and errors are those of the reference semantics: engine.rs implements the *)
(* contract stated by the comments of impl Matcher.                          *)
ReferenceContract == INSTANCE MatcherContract WITH
    Outcome <- ReferenceOutcome, Mask <- ReferenceMask, MaskError <- ReferenceMaskError
AtomicAndExact == ReferenceContract!Spec

(* On every status a row can have, the two ways of the engine agree with     *)
(* each other and with the reference, for every token: the inverse buckets   *)
(* that fill a mask, and the search and the commit run of an advance.  In    *)
(* particular no prepared datum is found corrupt.                            *)
MasksMeanAdvances ==
    \A row \in Rows :
      states[row].phase = "Running" =>
        /\ MaskOf(states[row]) = ReferenceMask(states[row])
        /\ \A t \in Tokens : NextStatus(states[row], t) = ReferenceOutcome(states[row], t)
=============================================================================
