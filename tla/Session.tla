------------------------------ MODULE Session -------------------------------
(* How a compiled grammar comes to be a processor: CompiledGrammar of        *)
(* python/greatgramma/compiler.py, generate and the constructor of           *)
(* transformers.py, and NativeGrammar of greatgramma-python's lib.rs, with   *)
(* several threads that want a session of one grammar, and the calls of the  *)
(* processor that one of them gets.                                          *)
EXTENDS Processor

CONSTANTS
    Requests,       \* what a thread may ask of the grammar
    NoRequest,
    MaxBatchRows,
    MaskBytes,      \* bytes of one row's packed mask
    MaxPackedMaskBytes

VARIABLES
    prepared,       \* NativeGrammar.prepared is Some
    borrower,       \* the thread in new_batch, which borrows the grammar
    stage,          \* how far each thread's request is
    asked,          \* the request
    session,        \* how the processor was asked for, none before there is one
    spoilt          \* why the grammar was lost without a processor, or none

ownership == <<prepared, borrower, stage, asked, session, spoilt>>
allVars == <<vars, ownership>>

(* A request names its way in, its rows and its pad; whether its prompt is   *)
(* in the vocabulary; for generate, whether its other settings are supported *)
(* and the caller's list of processors can be read.                          *)
Ways == {"constructor", "logits_processor", "generate"}
Request == [via: Ways, rows: Nat, pad: Vocabulary \cup {NoToken, "foreign"},
            prompt: BOOLEAN, settings: BOOLEAN, processors: BOOLEAN]

(* generate tests its settings, logits_processor the pad, the constructor    *)
(* the prompt.                                                               *)
Unsupported(r) ==
    /\ r.via = "generate"
    /\ \/ ~r.settings
       \/ r.rows > 1 /\ (r.pad = NoToken \/ r.pad \in EosTokens)
ForeignPad(r) == r.pad \notin Vocabulary \cup {NoToken}
FacadeRefuses(r) == Unsupported(r) \/ (r.via # "constructor" /\ ForeignPad(r)) \/ ~r.prompt

Misconfigured(r) ==
    \/ r.rows = 0 \/ r.rows > MaxBatchRows
    \/ r.rows > 1 /\ r.pad = NoToken
    \/ ForeignPad(r)
TooLarge(r) == r.rows * MaskBytes > MaxPackedMaskBytes

(* new_batch_inner, before it takes the prepared grammar.                    *)
NativeError(r) ==
    CASE Misconfigured(r)               -> "configuration_error"
      [] ~Misconfigured(r) /\ ~prepared -> "sequence_discontinuity"
      [] ~Misconfigured(r) /\ prepared /\ TooLarge(r)  -> "configuration_error"
      [] ~Misconfigured(r) /\ prepared /\ ~TooLarge(r) -> "none"

(* The processor of this instance is the one of a request that is granted.   *)
ASSUME SessionAssumption ==
    /\ Requests \subseteq Request /\ NoRequest \notin Requests
    /\ {MaxBatchRows, MaskBytes, MaxPackedMaskBytes} \subseteq Nat
    /\ \A r \in Requests :
         ~FacadeRefuses(r) /\ ~Misconfigured(r) /\ ~TooLarge(r) => r.rows = RowCount /\ r.pad = Pad

SessionInit ==
    /\ Init /\ trusted = FALSE
    /\ prepared = TRUE /\ borrower = Free
    /\ stage = [t \in Threads |-> "idle"]
    /\ asked = [t \in Threads |-> NoRequest]
    /\ session = "none" /\ spoilt = "none"
-----------------------------------------------------------------------------
Become(t, phase) == stage' = [stage EXCEPT ![t] = phase]
Forget(t) == asked' = [asked EXCEPT ![t] = NoRequest]
ProcessorUnchanged == UNCHANGED <<batch, history, poisoned, lock, pc, input, packed, text>>

Refused(t, error) ==
    /\ Become(t, "idle") /\ Forget(t)
    /\ answer' = error
    /\ ProcessorUnchanged

(* The checks in Python, of what the thread alone can see.                   *)
Ask(t, r) ==
    /\ stage[t] = "idle" /\ pc[t] = "idle"
    /\ IF FacadeRefuses(r) THEN Refused(t, "configuration_error")
       ELSE /\ Become(t, "entering") /\ asked' = [asked EXCEPT ![t] = r]
            /\ answer' = "none" /\ ProcessorUnchanged
    /\ UNCHANGED <<prepared, borrower, session, spoilt>>

(* Python hands out one mutable borrow at a time (external): a thread that   *)
(* comes while another is in new_batch, which runs without the interpreter   *)
(* lock, gets Python's own error.                                            *)
Borrow(t) ==
    /\ stage[t] = "entering"
    /\ IF borrower = Free
       THEN /\ borrower' = t /\ Become(t, "checking")
            /\ UNCHANGED <<asked, answer>> /\ ProcessorUnchanged
       ELSE borrower' = borrower /\ Refused(t, "already_borrowed")
    /\ UNCHANGED <<prepared, session, spoilt>>

(* Mutant: the grammar is taken before the last check.                       *)
RefuseTaken(t) ==
    /\ stage[t] = "checking"
    /\ \E error \in {NativeError(asked[t]), "internal_error"} \ {"none"} : Refused(t, error)
    /\ borrower' = Free
    /\ prepared' = (prepared /\ ~TooLarge(asked[t]))
    /\ UNCHANGED <<session, spoilt>>

(* A check fails, or a buffer cannot be reserved, or there is a panic.       *)
Refuse(t) ==
    /\ stage[t] = "checking"
    /\ \E error \in {NativeError(asked[t]), "internal_error"} \ {"none"} : Refused(t, error)
    /\ borrower' = Free
    /\ UNCHANGED <<prepared, session, spoilt>>

(* Mutant: the grammar is copied, not taken.                                 *)
TakeCopy(t) ==
    /\ stage[t] = "checking" /\ NativeError(asked[t]) = "none"
    /\ Become(t, "making")
    /\ UNCHANGED <<prepared, borrower, asked, session, spoilt, answer>> /\ ProcessorUnchanged

(* prepared.take()                                                           *)
Take(t) ==
    /\ stage[t] = "checking" /\ NativeError(asked[t]) = "none"
    /\ prepared' = FALSE
    /\ Become(t, "making")
    /\ UNCHANGED <<borrower, asked, session, spoilt, answer>> /\ ProcessorUnchanged

(* into_matcher runs out of memory, or panics: the grammar is dropped.       *)
MatcherFails(t) ==
    /\ stage[t] = "making"
    /\ Refused(t, "internal_error")
    /\ spoilt' = "internal_error"
    /\ borrower' = Free
    /\ UNCHANGED <<prepared, session>>

Make(t) ==
    /\ stage[t] = "making"
    /\ batch' = NewBatch
    /\ borrower' = Free
    /\ Become(t, "made")
    /\ UNCHANGED <<prepared, asked, session, spoilt, answer, history, poisoned, lock, pc,
                   input, packed, text>>

(* The constructor returns; generate adds the processor to the caller's and  *)
(* calls the model.                                                          *)
Deliver(t) ==
    /\ stage[t] = "made" /\ (asked[t].via = "generate" => asked[t].processors)
    /\ session' = asked[t].via
    /\ trusted' = (asked[t].via = "generate")
    /\ Become(t, IF asked[t].via = "generate" THEN "generating" ELSE "idle")
    /\ Forget(t)
    /\ UNCHANGED <<prepared, borrower, spoilt, answer, batch, previous, previous_width,
                   poisoned, lock, pc, input, packed, text>>

(* An asynchronous exception before the processor has an owner, or the       *)
(* caller's list of processors fails, which generate reads last.             *)
Abandon(t) ==
    /\ stage[t] = "made"
    /\ \E error \in {"interrupted"} \cup
                    (IF asked[t].via = "generate" /\ ~asked[t].processors
                     THEN {"caller_error"} ELSE {}) :
         Refused(t, error) /\ spoilt' = error
    /\ UNCHANGED <<prepared, borrower, session>>

(* The model returns or raises, and with it the processor is gone.           *)
Finish(t) ==
    /\ stage[t] = "generating" /\ pc[t] = "idle"
    /\ session' = "over"
    /\ Become(t, "idle")
    /\ UNCHANGED <<prepared, borrower, asked, spoilt, vars>>

(* Anybody may call a processor that was returned; only the model that runs  *)
(* in generate has the other.                                                *)
MayCall(t) ==
    \/ session \in {"constructor", "logits_processor"} /\ stage[t] = "idle"
    \/ stage[t] = "generating"
Call(t) ==
    /\ MayCall(t)
    /\ (\E i \in Inputs : Enter(t, i)) \/ Collide(t)
    /\ UNCHANGED ownership

Continue(t) == Advance(t) /\ UNCHANGED ownership

Proceed(t) ==
    \/ Borrow(t) \/ Refuse(t) \/ Take(t) \/ MatcherFails(t)
    \/ Make(t) \/ Deliver(t) \/ Abandon(t)

SessionNext ==
    \E t \in Threads :
        (\E r \in Requests : Ask(t, r)) \/ Proceed(t) \/ Finish(t) \/ Call(t) \/ Continue(t)

(* A thread inside a request or a call is scheduled.                         *)
SessionSpec ==
    SessionInit /\ [][SessionNext]_allVars
    /\ \A t \in Threads : WF_allVars(Proceed(t)) /\ WF_allVars(Continue(t))
-----------------------------------------------------------------------------
Stages == {"idle", "entering", "checking", "making", "made", "generating"}
SessionTypeOK ==
    /\ TypeOK
    /\ prepared \in BOOLEAN
    /\ borrower \in Threads \cup {Free}
    /\ stage \in [Threads -> Stages]
    /\ \A t \in Threads : asked[t] \in Requests \cup {NoRequest}
    /\ session \in Ways \cup {"none", "over"}

(* A compiled grammar is one thing in one place: prepared, in the hands of   *)
(* the thread that makes a batch of it, or in a session.                     *)
Makers == {t \in Threads : stage[t] \in {"making", "made"}}
OneSession ==
    /\ \A t, u \in Makers : t = u
    /\ (Makers # {}) => ~prepared /\ session = "none"
    /\ (session # "none") => ~prepared /\ spoilt = "none"
    /\ \A t, u \in Threads : stage[t] = "generating" /\ stage[u] = "generating" => t = u
    /\ (\E t \in Threads : stage[t] = "generating") => session = "generate"

(* A refused request leaves the grammar as it was                            *)
(* (an_oversized_batch_is_rejected_before_consuming_the_grammar in lib.rs):  *)
(* it is gone only for a session, or because what was made of it was lost on *)
(* the way.                                                                  *)
RefusalsAreFree ==
    /\ ~prepared <=> (Makers # {} \/ session # "none" \/ spoilt # "none")
    /\ spoilt \notin {"configuration_error", "sequence_discontinuity", "already_borrowed"}

(* However a request or a call ends, it ends, and frees what it held.        *)
CallsEnd ==
    \A t \in Threads :
        (lock = t \/ borrower = t \/ stage[t] = "entering")
          ~> (lock # t /\ borrower # t /\ stage[t] # "entering")
=============================================================================
