--------------------------- MODULE Classification ---------------------------
(* Why a mask may trust the classification table.                            *)
(*                                                                           *)
(* preprocess.rs runs a sequence head from one parser state, popping nothing *)
(* below it, and stores the decision; engine.rs later uses the stored        *)
(* decision for every stack with that state on top, and falls back to        *)
(* lalr_reference.rs, which runs the head on the whole stack, only for       *)
(* "Dependent".  Both are deterministic, so their order in time is           *)
(* immaterial: the specification runs the two side by side, on a head, a     *)
(* stack and a work limit chosen at the start.                               *)
EXTENDS Lalr

CONSTANTS
    HeadsTried, \* the heads tried, nonempty sequences of terminals
    Stacks,     \* the parser stacks tried, nonempty sequences of states
    Limits      \* the work left to preparation when it reaches this head

ASSUME ClassificationAssumption ==
    /\ HeadsTried \subseteq Seq(Terminals) \ {<<>>}
    /\ Stacks \subseteq Seq(ParserStates) \ {<<>>}
    /\ Limits \subseteq Nat \cup {Unbounded}

VARIABLES
    head,       \* the sequence head
    stack,      \* the whole parser stack, which no run may write
    sym,        \* the symbolic run, from the top of stack
    con,        \* the concrete run, from stack
    part,       \* which terminals con is running: the direct prefix or the probe
    verdict     \* what the concrete run answered

runVars == <<head, stack, sym, con, part, verdict>>

Below == SubSeq(stack, 1, Len(stack) - 1)
ConTerminals == IF part = "direct" THEN Direct(head) ELSE Probe(head)
Running(c) == c.decision = "running"

ClassificationInit ==
    /\ head \in HeadsTried
    /\ stack \in Stacks
    /\ \E limit \in Limits : sym = BeginSymbolic(Top(stack), limit)
    /\ con = BeginConcrete(stack)
    /\ part = "direct"
    /\ verdict = "pending"
-----------------------------------------------------------------------------
PrefixDone == part = "direct" /\ con.index > Len(Direct(head))

(* The direct prefix was consumed: the final terminal is probed in place, by *)
(* a run of its own.                                                         *)
StartProbe ==
    /\ Running(con) /\ PrefixDone
    /\ con' = BeginConcrete(con.stack)
    /\ part' = "probe"
    /\ UNCHANGED <<head, stack, sym, verdict>>

(* One iteration of both runs.                                               *)
StepBoth ==
    /\ Running(sym) /\ Running(con) /\ ~PrefixDone
    /\ sym' = Step(head, sym)
    /\ con' = Step(ConTerminals, con)
    /\ UNCHANGED <<head, stack, part, verdict>>

(* The symbolic run has its decision; the concrete one goes on.              *)
StepConcrete ==
    /\ ~Running(sym) /\ Running(con) /\ ~PrefixDone
    /\ con' = Step(ConTerminals, con)
    /\ UNCHANGED <<head, stack, sym, part, verdict>>

Answer ==
    /\ ~Running(con)
    /\ verdict = "pending"
    /\ verdict' = IF part = "direct" /\ con.decision # "Rejected" THEN "failed"
                  ELSE HeadVerdict(con.decision)
    /\ UNCHANGED <<head, stack, sym, con, part>>

ClassificationNext == StartProbe \/ StepBoth \/ StepConcrete \/ Answer

ClassificationSpec ==
    ClassificationInit /\ [][ClassificationNext]_runVars /\ WF_runVars(ClassificationNext)
-----------------------------------------------------------------------------
(* Every variable has its type.                                              *)
ClassificationTypeOK ==
    /\ head \in Seq(Terminals) \ {<<>>}
    /\ stack \in Seq(ParserStates) \ {<<>>}
    /\ {sym, con} \subseteq Configurations
    /\ sym.stack # <<>> /\ con.stack # <<>>
    /\ part \in {"direct", "probe"}
    /\ verdict \in {"pending", "allowed", "denied", "failed"}

(* The two runs are the same run as long as the symbolic one has not asked   *)
(* for what lies below its base: same terminal, same last reduction, and the *)
(* concrete stack is the symbolic one on top of the unread rest.             *)
Aligned ==
    Running(sym) =>
      /\ Running(con)
      /\ con.stack = Below \o sym.stack
      /\ con.previous = sym.previous
      /\ sym.index = con.index + (IF part = "direct" THEN 0 ELSE Len(head) - 1)
      /\ con.index <= Len(ConTerminals) + 1
      /\ PrefixDone => con.previous = NoReduction

(* A stored classification that is not "Dependent" is the answer the         *)
(* concrete check gives on every stack with that state on top, so the mask   *)
(* (fill_mask) may skip the check, and a token it lets through is one whose  *)
(* emitted terminals the commit path can run.                                *)
ExactClassification ==
    verdict # "pending" /\ sym.decision \in Decisions =>
        CASE Classify(sym.decision) = "AlwaysReadable" -> verdict = "allowed"
          [] Classify(sym.decision) = "Rejected"       -> verdict = "denied"
          [] Classify(sym.decision) = "Dependent"      -> TRUE

(* On the tables the compiler builds, neither run meets an inconsistency:    *)
(* preparation would abort (preprocess.rs) and a mask would fail for good.   *)
NeverFails ==
    /\ sym.decision \notin Failures \ {"WorkLimitExceeded"}
    /\ con.decision \notin Failures
    /\ verdict # "failed"

(* Reductions cannot go round for ever: the check answers.                   *)
Answers == <>(verdict # "pending")
=============================================================================
