------------------------------ MODULE Processor -----------------------------
(* GreatGrammaLogitsProcessor of python/greatgramma/transformers.py, called  *)
(* by several threads, over the native batch it owns.                        *)
(*                                                                           *)
(* A call is cut where the interpreter may deliver an asynchronous exception *)
(* (KeyboardInterrupt) or run another thread.                                *)
EXTENDS NativeBatch

CONSTANTS
    Threads,
    TokenIds,       \* what a text may hold: the vocabulary, and more
    Prompt,         \* the prompt snapshot
    Inputs,         \* the input_ids callers pass
    Free,           \* nobody holds the lock
    NoInput,        \* no call was answered yet
    Interruptible   \* the phases of a call in which it may be interrupted

(* How far a call is: the checks of the input, the native call, its masks in *)
(* hand, applying them, applied, and _previous_width set.                    *)
Phases == {"idle", "checking", "native", "packed", "masking", "masked", "measured"}

(* A nonempty array of rows of one width.                                    *)
Width(i) == Len(i[1])
IsArray(i) ==
    /\ i \in Seq(Seq(TokenIds)) /\ Len(i) > 0 /\ Width(i) > 0
    /\ \A row \in 1..Len(i) : Len(i[row]) = Width(i)

ASSUME ProcessorAssumption ==
    /\ Vocabulary \subseteq TokenIds
    /\ \A i \in Inputs \cup {Prompt} : IsArray(i)
    /\ Len(Prompt) = RowCount
    /\ Free \notin Threads /\ NoInput \notin Inputs
    /\ Interruptible \subseteq Phases \ {"idle"}

VARIABLES
    batch,          \* the native batch
    previous,       \* _previous, the rows of the last input answered
    previous_width, \* _previous_width, 0 before the first answer
    trusted,        \* _trusted_fixed_append: generate's own processor
    poisoned,       \* _poisoned
    lock,           \* the thread that holds _lock
    pc,             \* the phase of each thread's call
    input,          \* its input
    packed,         \* the masks the batch gave it
    answer,         \* what the last call ended with: an error, or none
    text            \* the last input that was answered with masked scores

vars == <<batch, previous, previous_width, trusted, poisoned, lock, pc, input, packed, answer, text>>
history == <<previous, previous_width, trusted>>

Lasts(i) == [row \in DOMAIN i |-> i[row][Width(i)]]
ExtendsByOne(i, old) ==
    \A row \in Rows : Len(i[row]) = Len(old[row]) + 1 /\ SubSeq(i[row], 1, Len(old[row])) = old[row]

Init ==
    /\ batch = NewBatch
    /\ previous = NoInput /\ previous_width = 0
    /\ trusted \in BOOLEAN
    /\ poisoned = FALSE
    /\ lock = Free
    /\ pc = [t \in Threads |-> "idle"]
    /\ input = [t \in Threads |-> NoInput]
    /\ packed = [t \in Threads |-> NoMasks]
    /\ answer = "none"
    /\ text = NoInput
-----------------------------------------------------------------------------
Goto(t, phase) == pc' = [pc EXCEPT ![t] = phase]

(* Mutant: an error leaves the lock held.                                    *)
EndHolding(t, error) ==
    /\ answer' = error
    /\ lock' = IF error = "none" THEN Free ELSE lock
    /\ Goto(t, "idle")
    /\ input' = [input EXCEPT ![t] = NoInput]
    /\ packed' = [packed EXCEPT ![t] = NoMasks]

(* The finally clause of __call__ releases the lock however the call ends.   *)
End(t, error) ==
    /\ answer' = error
    /\ lock' = Free
    /\ Goto(t, "idle")
    /\ input' = [input EXCEPT ![t] = NoInput]
    /\ packed' = [packed EXCEPT ![t] = NoMasks]

(* generate passes the text it is growing, and only that.                    *)
Plausible(i) == trusted /\ text # NoInput => ExtendsByOne(i, text)

Enter(t, i) ==
    /\ pc[t] = "idle" /\ lock = Free
    /\ Plausible(i)
    /\ lock' = t
    /\ Goto(t, "checking")
    /\ input' = [input EXCEPT ![t] = i]
    /\ answer' = "none"
    /\ UNCHANGED <<batch, history, poisoned, packed, text>>

(* acquire(blocking=False) fails.                                            *)
Collide(t) ==
    /\ pc[t] = "idle" /\ lock # Free
    /\ answer' = "sequence_discontinuity"
    /\ UNCHANGED <<batch, history, poisoned, lock, pc, input, packed, text>>

(* Mutant: the poison is not looked at.                                      *)
InputErrorOfText(i) ==
    IF previous_width = 0 THEN IF i = Prompt THEN "none" ELSE "sequence_discontinuity"
    ELSE IF Len(i) # RowCount \/ ~ExtendsByOne(i, previous) THEN "sequence_discontinuity"
    ELSE "none"

(* What is wrong with an input, before the batch sees it.                    *)
InputError(i) ==
    CASE poisoned -> "internal_error"
      [] ~poisoned /\ Len(i) # RowCount -> "sequence_discontinuity"
      [] ~poisoned /\ Len(i) = RowCount ->
           IF previous_width = 0
           THEN IF i = Prompt THEN "none" ELSE "sequence_discontinuity"
           ELSE IF ~trusted /\ previous = NoInput THEN "internal_error"
           ELSE IF \/ trusted /\ Width(i) # previous_width + 1
                   \/ ~trusted /\ ~ExtendsByOne(i, previous)
           THEN "sequence_discontinuity"
           ELSE IF \E row \in Rows : Lasts(i)[row] \notin Vocabulary
           THEN "constraint_violation" ELSE "none"

Check(t) ==
    /\ pc[t] = "checking"
    /\ \/ InputError(input[t]) # "none" /\ End(t, InputError(input[t]))
       \/ /\ InputError(input[t]) = "none" /\ Goto(t, "native")
          /\ UNCHANGED <<lock, input, packed, answer>>
    /\ UNCHANGED <<batch, history, poisoned, text>>

(* The shape of the scores does not fit.                                     *)
RefuseScores(t) ==
    /\ pc[t] = "checking" /\ ~poisoned
    /\ End(t, "configuration_error")
    /\ UNCHANGED <<batch, history, poisoned, text>>

(* Mutant: an internal error of the batch does not poison the processor.     *)
CallNativeUnpoisoned(t) ==
    /\ pc[t] = "native"
    /\ \E result \in IF previous_width = 0 THEN InitialMasks(batch)
                     ELSE AdvanceAndMasks(batch, Lasts(input[t])) :
         /\ batch' = result.batch
         /\ \/ result.error # "none" /\ End(t, result.error)
            \/ /\ result.error = "none"
               /\ packed' = [packed EXCEPT ![t] = result.masks]
               /\ Goto(t, "packed")
               /\ UNCHANGED <<lock, input, answer>>
    /\ UNCHANGED <<history, poisoned, text>>

(* The native call, which runs without the interpreter lock.                 *)
CallNative(t) ==
    /\ pc[t] = "native"
    /\ \E result \in IF previous_width = 0 THEN InitialMasks(batch)
                     ELSE AdvanceAndMasks(batch, Lasts(input[t])) :
         /\ batch' = result.batch
         /\ \/ /\ result.error # "none"
               /\ poisoned' = (poisoned \/ result.error = "internal_error")
               /\ End(t, result.error)
            \/ /\ result.error = "none"
               /\ packed' = [packed EXCEPT ![t] = result.masks]
               /\ Goto(t, "packed")
               /\ UNCHANGED <<poisoned, lock, input, answer>>
    /\ UNCHANGED <<history, text>>

StartMasking(t) ==
    /\ pc[t] = "packed"
    /\ Goto(t, "masking")
    /\ UNCHANGED <<batch, history, poisoned, lock, input, packed, answer, text>>

MaskScores(t) ==
    /\ pc[t] = "masking"
    /\ Goto(t, "masked")
    /\ UNCHANGED <<batch, history, poisoned, lock, input, packed, answer, text>>

(* No usable score is left, or Torch fails: any exception poisons.           *)
MaskingFails(t) ==
    /\ pc[t] = "masking"
    /\ poisoned' = TRUE
    /\ \E error \in {"no_valid_token", "configuration_error", "internal_error"} : End(t, error)
    /\ UNCHANGED <<batch, history, text>>

SetWidth(t) ==
    /\ pc[t] = "masked"
    /\ previous_width' = Width(input[t])
    /\ Goto(t, "measured")
    /\ UNCHANGED <<batch, previous, trusted, poisoned, lock, input, packed, answer, text>>

SetPrevious(t) ==
    /\ pc[t] = "measured"
    /\ previous' = IF trusted THEN previous ELSE input[t]
    /\ text' = input[t]
    /\ End(t, "none")
    /\ UNCHANGED <<batch, previous_width, trusted, poisoned>>

(* An asynchronous exception: only the masker is inside a clause that        *)
(* catches it.                                                               *)
Interrupt(t) ==
    /\ pc[t] \in Interruptible
    /\ poisoned' = (poisoned \/ pc[t] = "masking")
    /\ End(t, "interrupted")
    /\ UNCHANGED <<batch, history, text>>

Advance(t) ==
    \/ Check(t) \/ RefuseScores(t) \/ CallNative(t)
    \/ StartMasking(t) \/ MaskScores(t) \/ MaskingFails(t)
    \/ SetWidth(t) \/ SetPrevious(t) \/ Interrupt(t)

Next == \E t \in Threads : (\E i \in Inputs : Enter(t, i)) \/ Collide(t) \/ Advance(t)

(* A thread inside a call is scheduled, and a native call returns.           *)
Spec == Init /\ [][Next]_vars /\ \A t \in Threads : WF_vars(Advance(t))
-----------------------------------------------------------------------------
TypeOK ==
    /\ batch.words \in [Rows -> Words]
    /\ batch.active \in [Rows -> Vocabulary \cup {NoToken}]
    /\ {batch.poisoned, poisoned, trusted} \subseteq BOOLEAN
    /\ {previous, text} \subseteq Inputs \cup {NoInput}
    /\ previous_width \in Nat
    /\ lock \in Threads \cup {Free}
    /\ pc \in [Threads -> Phases]
    /\ \A t \in Threads : input[t] \in Inputs \cup {NoInput}
    /\ packed \in [Threads -> [Rows -> SUBSET Vocabulary]]

(* What a row has read of an input: what follows the prompt, up to the token *)
(* that ended it.                                                            *)
Generated(i, row) == SubSeq(i[row], Len(Prompt[row]) + 1, Len(i[row]))
UpToEnd(word) ==
    LET ends == {k \in 1..Len(word) : word[k] \in EosTokens}
    IN IF ends = {} THEN word ELSE SubSeq(word, 1, CHOOSE k \in ends : \A j \in ends : k <= j)
Read(i, row) == UpToEnd(Generated(i, row))
Expected(i) ==
    [row \in Rows |-> IF Ended(Read(i, row)) THEN {Pad} ELSE Mask(Read(i, row))]

(* The scores of a call are masked by the tokens that may follow its own     *)
(* input, whatever was refused, interrupted or called at the same time       *)
(* before.                                                                   *)
MasksFitTheInput ==
    \A t \in Threads :
      pc[t] \in {"packed", "masking", "masked", "measured"} => packed[t] = Expected(input[t])

(* Between calls the batch has read what the processor's history says, or    *)
(* the processor is poisoned, or the session is over.                        *)
Over == \A row \in Rows : Ended(batch.words[row])
InStep ==
    lock = Free /\ ~poisoned /\ ~Over =>
      /\ batch.words = (IF text = NoInput THEN NewBatch.words
                        ELSE [row \in Rows |-> Read(text, row)])
      /\ previous_width = (IF text = NoInput THEN 0 ELSE Width(text))
      /\ ~trusted => previous = text
      /\ ~batch.poisoned

(* Whoever runs, only the holder of the lock is inside a call.               *)
OnlyTheHolder == \A t \in Threads : pc[t] # "idle" => lock = t

(* A poisoned processor never answers again, nor does its batch move.        *)
PoisonIsFinal ==
    [][poisoned => poisoned' /\ batch' = batch /\ text' = text]_vars

-----------------------------------------------------------------------------
(* docs/errors.md: "Constraint, completion, configuration, and sequence      *)
(* errors reject the operation".                                             *)
CompletionRejects ==
    [][answer' = "sequence_completed" /\ lock # Free /\ lock' = Free
         => batch'.words = batch.words]_vars

(* tests/python/test_processor.py:                                           *)
(* test_base_exception_after_native_advance_poisons_the_processor.           *)
InterruptPoisons ==
    lock = Free /\ answer = "interrupted" /\ ~Over
      /\ batch.words # (IF text = NoInput THEN NewBatch.words
                        ELSE [row \in Rows |-> Read(text, row)])
    => poisoned
=============================================================================
