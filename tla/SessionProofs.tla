--------------------------- MODULE SessionProofs ----------------------------
(* What holds of every grammar, thread, request and text, however long.      *)
(*                                                                           *)
(* First what the calls of a native batch return.  Then that there is one    *)
(* session of a compiled grammar at most, that it is lost only where it says *)
(* why, that one thread at a time is inside the processor, and that a        *)
(* poisoned processor stays where it is.  Last that the masks of every       *)
(* answer fit the text they answer, and that the batch has read what the     *)
(* processor's history says, provided that an asynchronous exception comes   *)
(* before the native call or while the masker runs.                          *)
EXTENDS Session, SequenceTheorems, WellFoundedInduction, TLAPS

(* Every nonempty set of naturals has a least element, and every set of rows *)
(* a first row.                                                              *)
LEMMA LeastExists ==
    ASSUME NEW numbers, numbers \subseteq Nat, numbers # {}
    PROVE  \E k \in numbers : \A j \in numbers : k <= j
<1>1. PICK k \in numbers : \A j \in numbers : <<j, k>> \notin OpToRel(<, Nat)
    BY WFMin, NatLessThanWellFounded, Zenon
<1>2. \A j \in numbers : ~(j < k)
    BY <1>1, Zenon DEF OpToRel
<1> QED
    BY <1>2

LEMMA FirstRow ==
    ASSUME NEW rows, rows \subseteq Rows, rows # {}
    PROVE  FirstOf(rows) \in rows /\ \A other \in rows : FirstOf(rows) <= other
<1>1. rows \subseteq Nat
    BY BatchAssumption DEF Rows
<1>2. \E row \in rows : \A other \in rows : row <= other
    BY <1>1, LeastExists
<1> QED
    BY <1>2, Zenon DEF FirstOf

(* A row that has ended allows nothing.                                      *)
LEMMA EndedHasNoMask ==
    ASSUME NEW word \in Words, Ended(word)
    PROVE  Mask(word) = {}
<1> SUFFICES ASSUME NEW token \in Vocabulary, Append(word, token) \in Words PROVE FALSE
    BY DEF Mask
<1> DEFINE longer == Append(word, token)
<1>1. word \in Seq(Vocabulary)
    BY BatchAssumption
<1>2. longer # <<>> /\ SubSeq(longer, 1, Len(longer) - 1) = word
    BY <1>1
<1> QED
    BY <1>2, BatchAssumption
-----------------------------------------------------------------------------
Batches == [words : [Rows -> Words], active : [Rows -> Vocabulary \cup {NoToken}],
            poisoned : BOOLEAN]

LEMMA NewBatchTyped == NewBatch \in Batches
BY BatchAssumption DEF NewBatch, Batches

LEMMA InternalTyped ==
    ASSUME NEW b \in Batches
    PROVE  /\ InternalError(b).batch \in Batches
           /\ InternalError(b).batch.words = b.words
           /\ InternalError(b).error = "internal_error"
           /\ InternalError(b).masks \in [Rows -> SUBSET Vocabulary]
BY DEF InternalError, Returns, Batches, NoMasks

(* initial_masks: the batch reads nothing, and if there is an answer every   *)
(* row has a mask.                                                           *)
LEMMA InitialReturns ==
    ASSUME NEW b \in Batches, NEW result \in InitialMasks(b)
    PROVE  /\ result.batch \in Batches
           /\ result.batch.words = b.words
           /\ result.masks \in [Rows -> SUBSET Vocabulary]
           /\ result.batch.poisoned => result.error = "internal_error"
           /\ result.error = "none" =>
                /\ result.masks = [row \in Rows |-> Mask(b.words[row])]
                /\ \A row \in Rows : Mask(b.words[row]) # {}
<1> DEFINE error == MasksError(b.words)
<1>1. CASE result = InternalError(b)
    BY <1>1, InternalTyped DEF InternalError, Returns
<1>2. CASE ~b.poisoned /\ error # "none" /\ result = Returns(error, b, NoMasks)
    BY <1>2 DEF Returns, NoMasks
<1>3. CASE ~b.poisoned /\ error = "none"
           /\ result = Returns("none", b, [row \in Rows |-> Mask(b.words[row])])
    <2>1. \A row \in Rows : Mask(b.words[row]) # {}
        BY <1>3 DEF MasksError
    <2> QED
        BY <1>3, <2>1 DEF Returns, Mask
<1> QED
    BY <1>1, <1>2, <1>3 DEF InitialMasks

(* A token is taken for its row, or it says why not.                         *)
LEMMA TakenTokens ==
    ASSUME NEW word, NEW token, TokenError(word, token) = "none"
    PROVE  token \in Vocabulary /\ (Ended(word) => token = Pad)
<1>1. CASE token \notin Vocabulary
    BY <1>1, Zenon DEF TokenError
<1>2. CASE token \in Vocabulary /\ Ended(word) /\ token # Pad
    BY <1>2, Zenon DEF TokenError
<1> QED
    BY <1>1, <1>2

(* The words of a batch after a step by these tokens.                        *)
After(words, tokens) ==
    [row \in Rows |-> IF Ended(words[row]) THEN words[row] ELSE Append(words[row], tokens[row])]
MasksAfter(words) ==
    [row \in Rows |-> IF Ended(words[row]) THEN {Pad} ELSE Mask(words[row])]

LEMMA MatcherAccepts ==
    ASSUME NEW words, NEW active, MatcherError(words, active) = "none"
    PROVE  \A row \in Rows : Advanced(words, active)[row] \in Words
BY DEF MatcherError

(* advance_and_masks: it reads a token for each row that has not ended, or   *)
(* nothing; if there is an answer the masks are those of the new words, and  *)
(* if there is none although it has read, every row has ended.               *)
LEMMA AdvanceReturns ==
    ASSUME NEW b \in Batches, NEW tokens, NEW result \in AdvanceAndMasks(b, tokens)
    PROVE  /\ result.batch \in Batches
           /\ result.masks \in [Rows -> SUBSET Vocabulary]
           /\ result.batch.poisoned => result.error = "internal_error"
           /\ result.error = "none" =>
                /\ result.batch.words = After(b.words, tokens)
                /\ result.masks = MasksAfter(result.batch.words)
                /\ \E row \in Rows : ~Ended(result.batch.words[row])
           /\ result.error \notin {"none", "internal_error"} =>
                \/ result.batch.words = b.words
                \/ \A row \in Rows : Ended(result.batch.words[row])
<1> DEFINE refused == RefusedRows(b, tokens)
           ready == Ready(b, tokens)
           committed == [ready EXCEPT !.words = Advanced(b.words, ready.active)]
           error == MatcherError(b.words, ready.active)
<1>1. CASE result = InternalError(b)
    BY <1>1, InternalTyped
<1>2. CASE ~b.poisoned /\ result = Returns("sequence_discontinuity", b, NoMasks)
    BY <1>2 DEF Returns, NoMasks
<1>3. ready \in Batches /\ ready.words = b.words /\ ready.poisoned = b.poisoned
    <2>1. ASSUME NEW row \in Rows, refused = {} \/ row < FirstOf(refused)
          PROVE  ActiveToken(b.words[row], tokens[row]) \in Vocabulary \cup {NoToken}
        <3>1. row \notin refused
            BY <2>1, FirstRow DEF RefusedRows, Rows
        <3> QED
            BY <3>1, TakenTokens DEF RefusedRows, ActiveToken
    <2> QED
        BY <2>1 DEF Ready, Batches
<1>4. CASE /\ ~b.poisoned /\ refused # {}
           /\ result = Returns(TokenError(b.words[FirstOf(refused)], tokens[FirstOf(refused)]), ready, NoMasks)
    <2>1. FirstOf(refused) \in refused
        BY <1>4, FirstRow DEF RefusedRows
    <2> QED
        BY <1>3, <1>4, <2>1 DEF Returns, NoMasks, RefusedRows
<1>5. CASE ~b.poisoned /\ error # "none" /\ result \in {InternalError(ready), Returns(error, ready, NoMasks)}
    BY <1>3, <1>5, InternalTyped DEF Returns, NoMasks
<1>6. CASE /\ ~b.poisoned /\ refused = {} /\ error = "none"
           /\ result \in {InternalError(ready), InternalError(committed), Padded(committed)}
    <2>1. \A row \in Rows : TokenError(b.words[row], tokens[row]) = "none"
        BY <1>6 DEF RefusedRows
    <2>2. ready.active = [row \in Rows |-> ActiveToken(b.words[row], tokens[row])]
        BY <1>6 DEF Ready, Batches
    <2>3. committed.words = After(b.words, tokens)
        BY <1>3, <2>1, <2>2, TakenTokens, BatchAssumption DEF Advanced, After, ActiveToken, Batches
    <2>4. committed \in Batches /\ ~committed.poisoned
        BY <1>3, <1>6, MatcherAccepts DEF Batches, Advanced
    <2>5. CASE result \in {InternalError(ready), InternalError(committed)}
        BY <1>3, <2>4, <2>5, InternalTyped
    <2>6. CASE result = Padded(committed)
        <3> DEFINE ended == {row \in Rows : Ended(committed.words[row])}
        <3>1. CASE ended = Rows \/ (ended # {} /\ Pad = NoToken)
            <4>1. ended = Rows
                BY <3>1, BatchAssumption DEF Rows
            <4>2. result = Returns("sequence_completed", committed, NoMasks)
                BY <2>6, <3>1, Zenon DEF Padded
            <4> QED
                BY <2>4, <4>1, <4>2 DEF Returns, NoMasks
        <3>2. CASE ~(ended = Rows \/ (ended # {} /\ Pad = NoToken))
            <4>1. result = Returns("none", committed, MasksAfter(committed.words))
                BY <2>6, <3>2 DEF Padded, MasksAfter
            <4>2. MasksAfter(committed.words) \in [Rows -> SUBSET Vocabulary]
                BY <3>2, BatchAssumption DEF MasksAfter, Mask
            <4> QED
                BY <2>3, <2>4, <3>2, <4>1, <4>2 DEF Returns
        <3> QED
            BY <3>1, <3>2
    <2> QED
        BY <1>6, <2>5, <2>6
<1>7. CASE b.poisoned
    BY <1>1, <1>7, Zenon DEF AdvanceAndMasks
<1>8. CASE ~b.poisoned /\ Len(tokens) # RowCount
    BY <1>2, <1>8, Zenon DEF AdvanceAndMasks
<1>9. CASE ~b.poisoned /\ Len(tokens) = RowCount
    <2>1. result \in Stepped(b, tokens)
        BY <1>9, Zenon DEF AdvanceAndMasks
    <2> QED
        BY <1>4, <1>5, <1>6, <1>9, <2>1 DEF Stepped
<1> QED
    BY <1>7, <1>8, <1>9
-----------------------------------------------------------------------------
(* Ownership.                                                                *)

Held == {"entering", "checking", "making", "made"}

(* Where the grammar is.                                                     *)
Owned ==
    /\ prepared \in BOOLEAN
    /\ stage \in [Threads -> Stages]
    /\ asked \in [Threads -> Requests \cup {NoRequest}]
    /\ \A t \in Threads : stage[t] \in Held => asked[t] \in Requests
    /\ OneSession
    /\ prepared => Makers = {} /\ session = "none" /\ spoilt = "none"
    /\ spoilt # "none" => Makers = {}
    /\ RefusalsAreFree

LEMMA InitOwned == SessionInit => Owned
<1> SUFFICES ASSUME SessionInit PROVE Owned
    OBVIOUS
<1>1. prepared = TRUE /\ session = "none" /\ spoilt = "none"
    BY DEF SessionInit
<1>2. stage = [t \in Threads |-> "idle"] /\ asked = [t \in Threads |-> NoRequest]
    BY DEF SessionInit
<1>3. Makers = {}
    BY <1>2 DEF Makers
<1> QED
    BY <1>1, <1>2, <1>3 DEF Owned, OneSession, RefusalsAreFree, Stages, Held

(* The makers after the stage of one thread has changed.                     *)
LEMMA MakersAfter ==
    ASSUME stage \in [Threads -> Stages], NEW t \in Threads, NEW phase,
           stage' = [stage EXCEPT ![t] = phase]
    PROVE  Makers' = IF phase \in {"making", "made"} THEN Makers \cup {t} ELSE Makers \ {t}
BY DEF Makers, Stages

LEMMA ReadyNative ==
    ASSUME NEW r, NativeError(r) = "none"
    PROVE  prepared \in BOOLEAN => prepared
BY DEF NativeError

LEMMA NextOwned == Owned /\ [SessionNext]_allVars => Owned'
<1> SUFFICES ASSUME Owned, [SessionNext]_allVars PROVE Owned'
    OBVIOUS
<1> USE DEF Stages, Held
<1>1. ASSUME UNCHANGED ownership PROVE Owned'
    BY <1>1 DEF Owned, OneSession, RefusalsAreFree, Makers, ownership
<1>2. ASSUME NEW t \in Threads, NEW phase \in {"idle", "entering", "checking"},
             stage[t] \notin {"making", "made", "generating"},
             stage' = [stage EXCEPT ![t] = phase],
             asked' \in [Threads -> Requests \cup {NoRequest}],
             \A u \in Threads : stage'[u] \in Held => asked'[u] \in Requests,
             UNCHANGED <<prepared, session, spoilt>>
      PROVE  Owned'
    <2>1. Makers' = Makers
        BY <1>2, MakersAfter DEF Owned, Makers
    <2>2. \A u \in Threads : stage'[u] = "generating" <=> stage[u] = "generating"
        BY <1>2 DEF Owned
    <2>3. OneSession'
        BY <1>2, <2>1, <2>2 DEF Owned, OneSession
    <2> QED
        BY <1>2, <2>1, <2>3 DEF Owned, RefusalsAreFree
<1>3. ASSUME NEW t \in Threads, NEW r \in Requests, Ask(t, r) PROVE Owned'
    BY <1>2, <1>3 DEF Ask, Refused, Become, Forget, Owned
<1>4. ASSUME NEW t \in Threads, Borrow(t) PROVE Owned'
    BY <1>2, <1>4 DEF Borrow, Refused, Become, Forget, Owned
<1>5. ASSUME NEW t \in Threads, Refuse(t) PROVE Owned'
    BY <1>2, <1>5 DEF Refuse, Refused, Become, Forget, Owned
<1>6. ASSUME NEW t \in Threads, Take(t) PROVE Owned'
    <2>1. prepared /\ Makers = {} /\ session = "none" /\ spoilt = "none"
        BY <1>6, ReadyNative DEF Take, Owned
    <2>2. Makers' = {t}
        BY <1>6, <2>1, MakersAfter DEF Take, Become, Owned
    <2>3. \A u \in Threads : stage'[u] # "generating"
        BY <1>6, <2>1 DEF Take, Become, Owned, OneSession
    <2>4. OneSession'
        BY <1>6, <2>1, <2>2, <2>3 DEF Take, OneSession
    <2> QED
        BY <1>6, <2>1, <2>2, <2>4 DEF Take, Become, Owned, RefusalsAreFree
<1>7. ASSUME NEW t \in Threads, t \in Makers, NEW why,
             why \notin {"none", "configuration_error", "sequence_discontinuity", "already_borrowed"},
             stage' = [stage EXCEPT ![t] = "idle"], asked' = [asked EXCEPT ![t] = NoRequest],
             spoilt' = why, UNCHANGED <<prepared, session>>
      PROVE  Owned'
    <2>1. ~prepared /\ session = "none" /\ Makers = {t}
        BY <1>7 DEF Owned, OneSession
    <2>2. Makers' = {}
        BY <1>7, <2>1, MakersAfter DEF Owned
    <2>3. \A u \in Threads : stage'[u] # "generating"
        BY <1>7, <2>1 DEF Owned, OneSession
    <2>4. OneSession'
        BY <1>7, <2>1, <2>2, <2>3 DEF OneSession
    <2>5. RefusalsAreFree'
        BY <1>7, <2>1 DEF RefusalsAreFree
    <2>6. /\ stage' \in [Threads -> Stages]
          /\ asked' \in [Threads -> Requests \cup {NoRequest}]
          /\ \A u \in Threads : stage'[u] \in Held => asked'[u] \in Requests
        BY <1>7 DEF Owned
    <2> QED
        BY <1>7, <2>1, <2>2, <2>4, <2>5, <2>6 DEF Owned
<1>8. ASSUME NEW t \in Threads, MatcherFails(t) PROVE Owned'
    <2>1. t \in Makers
        BY <1>8 DEF MatcherFails, Makers
    <2>2. /\ stage' = [stage EXCEPT ![t] = "idle"] /\ asked' = [asked EXCEPT ![t] = NoRequest]
          /\ spoilt' = "internal_error" /\ UNCHANGED <<prepared, session>>
        BY <1>8 DEF MatcherFails, Refused, Become, Forget
    <2>3. "internal_error" \notin
             {"none", "configuration_error", "sequence_discontinuity", "already_borrowed"}
        OBVIOUS
    <2> QED
        BY <1>7, <2>1, <2>2, <2>3, Zenon
<1>9. ASSUME NEW t \in Threads, Make(t) PROVE Owned'
    <2>1. t \in Makers
        BY <1>9 DEF Make, Makers
    <2>2. Makers' = Makers
        BY <1>9, <2>1 DEF Make, Become, Owned, Makers
    <2>3. \A u \in Threads : stage'[u] = "generating" <=> stage[u] = "generating"
        BY <1>9 DEF Make, Become, Owned
    <2>4. OneSession'
        BY <1>9, <2>2, <2>3 DEF Make, Owned, OneSession
    <2> QED
        BY <1>9, <2>2, <2>4 DEF Make, Become, Owned, RefusalsAreFree
<1>10. ASSUME NEW t \in Threads, Deliver(t) PROVE Owned'
    <2>1. t \in Makers /\ asked[t].via \in Ways
        BY <1>10, SessionAssumption DEF Deliver, Makers, Owned, Request
    <2>2. ~prepared /\ session = "none" /\ Makers = {t} /\ spoilt = "none"
        BY <2>1 DEF Owned, OneSession
    <2>3. Makers' = {}
        BY <1>10, <2>2, MakersAfter DEF Deliver, Become, Owned
    <2>4. \A u \in Threads : stage'[u] = "generating" => u = t /\ session' = "generate"
        BY <1>10, <2>2 DEF Deliver, Become, Owned, OneSession
    <2>5. session' # "none"
        BY <1>10, <2>1 DEF Deliver, Ways
    <2> QED
        BY <1>10, <2>2, <2>3, <2>4, <2>5 DEF Deliver, Become, Forget, Owned, OneSession, RefusalsAreFree
<1>11. ASSUME NEW t \in Threads, Abandon(t) PROVE Owned'
    <2>1. t \in Makers
        BY <1>11 DEF Abandon, Makers
    <2>2. PICK error \in {"interrupted", "caller_error"} : Refused(t, error) /\ spoilt' = error
        BY <1>11 DEF Abandon
    <2> QED
        BY <1>7, <1>11, <2>1, <2>2 DEF Abandon, Refused, Become, Forget
<1>12. ASSUME NEW t \in Threads, Finish(t) PROVE Owned'
    <2>1. session = "generate" /\ ~prepared /\ spoilt = "none" /\ Makers = {}
        BY <1>12 DEF Finish, Owned, OneSession, Makers
    <2>2. Makers' = {}
        BY <1>12, <2>1, MakersAfter DEF Finish, Become, Owned
    <2>3. \A u \in Threads : stage'[u] # "generating"
        BY <1>12 DEF Finish, Become, Owned, OneSession
    <2> QED
        BY <1>12, <2>1, <2>2, <2>3 DEF Finish, Become, Owned, OneSession, RefusalsAreFree
<1>13. ASSUME NEW t \in Threads, Call(t) \/ Continue(t) PROVE Owned'
    BY <1>1, <1>13 DEF Call, Continue
<1> QED
    BY <1>1, <1>3, <1>4, <1>5, <1>6, <1>8, <1>9, <1>10, <1>11, <1>12, <1>13
       DEF SessionNext, Proceed, allVars, ownership

LEMMA AlwaysOwned == SessionSpec => []Owned
<1> QED
    BY InitOwned, NextOwned, PTL DEF SessionSpec

(* There is one session of a compiled grammar at most (NativeGrammar takes   *)
(* the prepared grammar), whatever the number of threads and requests.       *)
THEOREM SessionIsOne == SessionSpec => []OneSession
<1>1. Owned => OneSession
    BY DEF Owned
<1> QED
    BY <1>1, AlwaysOwned, PTL

(* A refused request leaves the grammar as it was.                           *)
THEOREM RefusalsLeaveTheGrammar == SessionSpec => []RefusalsAreFree
<1>1. Owned => RefusalsAreFree
    BY DEF Owned
<1> QED
    BY <1>1, AlwaysOwned, PTL
-----------------------------------------------------------------------------
(* The lock and the phases of the calls.  Before there is a session nobody   *)
(* calls and nothing was read; a poisoned processor is not inside a call     *)
(* that it has not refused yet.                                              *)
Fresh ==
    /\ batch = NewBatch /\ poisoned = FALSE /\ trusted = FALSE
    /\ previous = NoInput /\ previous_width = 0 /\ text = NoInput
Calling ==
    /\ pc \in [Threads -> Phases]
    /\ input \in [Threads -> Inputs \cup {NoInput}]
    /\ \A t \in Threads : pc[t] # "idle" => input[t] \in Inputs
    /\ OnlyTheHolder
    /\ session = "none" => Fresh /\ \A t \in Threads : pc[t] = "idle"
    /\ poisoned => \A t \in Threads : pc[t] \in {"idle", "checking"}

LEMMA InitCalling == SessionInit => Calling
BY DEF SessionInit, Init, Calling, Fresh, Phases, OnlyTheHolder

(* One call at a time: nobody else is inside one.                            *)
LEMMA Alone ==
    ASSUME Calling, NEW t \in Threads, pc[t] # "idle"
    PROVE  /\ \A u \in Threads : u # t => pc[u] = "idle"
           /\ session # "none"
           /\ lock = t
BY DEF Calling, OnlyTheHolder

(* The two ways in which a step of a call changes what the calls share.      *)
LEMMA EndsCalling ==
    ASSUME Calling, NEW t \in Threads, pc[t] # "idle", NEW error, End(t, error),
           UNCHANGED session
    PROVE  Calling'
<1>1. /\ session' # "none"
      /\ pc' = [pc EXCEPT ![t] = "idle"] /\ input' = [input EXCEPT ![t] = NoInput]
    BY Alone DEF End, Goto
<1>2. \A u \in Threads : pc'[u] = "idle"
    BY <1>1, Alone DEF Calling
<1> QED
    BY <1>1, <1>2 DEF Calling, Phases, OnlyTheHolder

LEMMA GoesCalling ==
    ASSUME Calling, NEW t \in Threads, pc[t] # "idle", NEW phase \in Phases, Goto(t, phase),
           UNCHANGED <<lock, input, session, poisoned>>,
           poisoned => phase = "checking"
    PROVE  Calling'
<1>1. session' # "none" /\ pc' = [pc EXCEPT ![t] = phase] /\ lock' = t
    BY Alone DEF Goto
<1>2. \A u \in Threads : pc'[u] = IF u = t THEN phase ELSE "idle"
    BY <1>1, Alone DEF Calling
<1> QED
    BY <1>1, <1>2 DEF Calling, Phases, OnlyTheHolder

LEMMA AdvanceCalling ==
    ASSUME Calling, NEW t \in Threads, Advance(t), UNCHANGED session
    PROVE  Calling'
<1>1. pc[t] # "idle"
    BY ProcessorAssumption
       DEF Advance, Check, RefuseScores, CallNative, StartMasking, MaskScores, MaskingFails, SetWidth,
           SetPrevious, Interrupt, Calling, Phases
<1>2. CASE Check(t)
    <2>1. CASE End(t, InputError(input[t]))
        BY <1>1, <2>1, EndsCalling
    <2>2. CASE InputError(input[t]) = "none" /\ Goto(t, "native") /\ UNCHANGED <<lock, input>>
        BY <1>1, <1>2, <2>2, GoesCalling DEF Check, InputError, Phases
    <2> QED
        BY <1>2, <2>1, <2>2 DEF Check
<1>3. CASE RefuseScores(t)
    BY <1>1, <1>3, EndsCalling DEF RefuseScores
<1>4. CASE CallNative(t)
    <2>1. CASE \E error : End(t, error)
        BY <1>1, <2>1, EndsCalling
    <2>2. CASE Goto(t, "packed") /\ UNCHANGED <<poisoned, lock, input>>
        BY <1>1, <1>4, <2>2, GoesCalling DEF CallNative, Phases, Calling
    <2> QED
        BY <1>4, <2>1, <2>2 DEF CallNative
<1>5. CASE StartMasking(t)
    BY <1>1, <1>5, GoesCalling DEF StartMasking, Phases, Calling
<1>6. CASE MaskScores(t)
    BY <1>1, <1>6, GoesCalling DEF MaskScores, Phases, Calling
<1>7. CASE MaskingFails(t)
    BY <1>1, <1>7, EndsCalling DEF MaskingFails
<1>8. CASE SetWidth(t)
    BY <1>1, <1>8, GoesCalling DEF SetWidth, Phases, Calling
<1>9. CASE SetPrevious(t)
    BY <1>1, <1>9, EndsCalling DEF SetPrevious
<1>10. CASE Interrupt(t)
    BY <1>1, <1>10, EndsCalling DEF Interrupt
<1> QED
    BY <1>2, <1>3, <1>4, <1>5, <1>6, <1>7, <1>8, <1>9, <1>10 DEF Advance

LEMMA CallOfSession ==
    ASSUME Owned, NEW t \in Threads, MayCall(t)
    PROVE  session # "none"
BY DEF MayCall, Owned, OneSession

LEMMA NextCalling == Owned /\ Calling /\ [SessionNext]_allVars => Calling'
<1> SUFFICES ASSUME Owned, Calling, [SessionNext]_allVars PROVE Calling'
    OBVIOUS
<1>1. ASSUME UNCHANGED <<batch, history, poisoned, lock, pc, input, text, session>> PROVE Calling'
    BY <1>1 DEF Calling, Fresh, history, OnlyTheHolder
<1>2. ASSUME NEW t \in Threads, (\E r \in Requests : Ask(t, r)) \/ Borrow(t) \/ Refuse(t)
                                \/ Take(t) \/ MatcherFails(t) \/ Abandon(t)
      PROVE  Calling'
    BY <1>1, <1>2 DEF Ask, Borrow, Refuse, Take, MatcherFails, Abandon, Refused, ProcessorUnchanged
<1>3. ASSUME NEW t \in Threads, Make(t) PROVE Calling'
    <2>1. session = "none"
        BY <1>3 DEF Make, Owned, OneSession, Makers
    <2>2. batch' = batch
        BY <1>3, <2>1 DEF Make, Calling, Fresh
    <2> QED
        BY <1>1, <1>3, <2>2 DEF Make
<1>4. ASSUME NEW t \in Threads, Deliver(t) PROVE Calling'
    <2>1. session = "none" /\ asked[t].via \in Ways
        BY <1>4, SessionAssumption DEF Deliver, Owned, OneSession, Makers, Held, Request
    <2>2. session' # "none"
        BY <1>4, <2>1 DEF Deliver, Ways
    <2> QED
        BY <1>4, <2>1, <2>2 DEF Deliver, Calling, OnlyTheHolder
<1>5. ASSUME NEW t \in Threads, Finish(t) PROVE Calling'
    BY <1>5 DEF Finish, vars, Calling, OnlyTheHolder
<1>6. ASSUME NEW t \in Threads, NEW i \in Inputs, MayCall(t), Enter(t, i), UNCHANGED session
      PROVE  Calling'
    <2>1. session # "none" /\ lock = Free
        BY <1>6, CallOfSession DEF Enter
    <2>2. \A u \in Threads : pc[u] = "idle"
        BY <2>1, ProcessorAssumption DEF Calling, OnlyTheHolder
    <2> QED
        BY <1>6, <2>1, <2>2 DEF Enter, Goto, Calling, OnlyTheHolder, Phases
<1>7. ASSUME NEW t \in Threads, Call(t) PROVE Calling'
    BY <1>1, <1>6, <1>7 DEF Call, Collide, ownership
<1>8. ASSUME NEW t \in Threads, Continue(t) PROVE Calling'
    BY <1>8, AdvanceCalling DEF Continue, ownership
<1>9. CASE UNCHANGED allVars
    BY <1>1, <1>9 DEF allVars, vars, history, ownership
<1> QED
    BY <1>2, <1>3, <1>4, <1>5, <1>7, <1>8, <1>9 DEF SessionNext, Proceed

LEMMA AlwaysCalling == SessionSpec => [](Owned /\ Calling)
<1> QED
    BY InitOwned, NextOwned, InitCalling, NextCalling, PTL DEF SessionSpec

(* Only the thread that took the lock is inside a call of the processor.     *)
THEOREM TheHolderIsAlone == SessionSpec => []OnlyTheHolder
<1>1. Calling => OnlyTheHolder
    BY DEF Calling
<1> QED
    BY <1>1, AlwaysCalling, PTL
-----------------------------------------------------------------------------
(* A poisoned processor is not made good again, nor moved, by any sequence   *)
(* of requests and calls.                                                    *)
LEMMA PoisonStays ==
    Owned /\ Calling /\ [SessionNext]_allVars
      => [poisoned => poisoned' /\ batch' = batch /\ text' = text]_vars
<1> SUFFICES ASSUME Owned, Calling, [SessionNext]_allVars, poisoned
             PROVE  poisoned' /\ batch' = batch /\ text' = text
    OBVIOUS
<1>1. \A t \in Threads : pc[t] \in {"idle", "checking"}
    BY DEF Calling
<1>2. session # "none"
    BY DEF Calling, Fresh
<1>3. ASSUME NEW t \in Threads, Make(t) PROVE FALSE
    BY <1>2, <1>3 DEF Make, Owned, OneSession, Makers
<1>4. ASSUME NEW t \in Threads, Proceed(t) \/ Finish(t) \/ \E r \in Requests : Ask(t, r)
      PROVE  poisoned' /\ batch' = batch /\ text' = text
    BY <1>3, <1>4 DEF Proceed, Finish, Ask, Borrow, Refuse, Take, MatcherFails, Deliver, Abandon,
                      Refused, ProcessorUnchanged, vars
<1>5. ASSUME NEW t \in Threads, Call(t) PROVE poisoned' /\ batch' = batch /\ text' = text
    BY <1>5 DEF Call, Enter, Collide
<1>6. ASSUME NEW t \in Threads, Continue(t) PROVE poisoned' /\ batch' = batch /\ text' = text
    BY <1>1, <1>6 DEF Continue, Advance, Check, RefuseScores, CallNative, StartMasking, MaskScores,
                      MaskingFails, SetWidth, SetPrevious, Interrupt
<1> QED
    BY <1>4, <1>5, <1>6 DEF SessionNext, allVars, vars

THEOREM PoisonIsForEver == SessionSpec => PoisonIsFinal
<1> QED
    BY AlwaysCalling, PoisonStays, PTL DEF SessionSpec, PoisonIsFinal
-----------------------------------------------------------------------------
(* History.                                                                  *)

ExceptionsHandled == Interruptible \subseteq {"checking", "native", "masking"}

LEMMA InputShape ==
    ASSUME NEW i \in Inputs \cup {Prompt}
    PROVE  /\ Width(i) \in Nat \ {0} /\ Len(i) \in Nat \ {0}
           /\ \A row \in 1..Len(i) : i[row] \in Seq(TokenIds) /\ Len(i[row]) = Width(i)
<1>1. IsArray(i)
    BY ProcessorAssumption
<1> QED
    BY <1>1 DEF IsArray, Width
-----------------------------------------------------------------------------
(* The types that ownership and calls leave open.                            *)
Typed ==
    /\ batch \in Batches
    /\ poisoned \in BOOLEAN /\ trusted \in BOOLEAN
    /\ previous \in Inputs \cup {NoInput} /\ text \in Inputs \cup {NoInput}
    /\ previous_width \in Nat
    /\ lock \in Threads \cup {Free} /\ borrower \in Threads \cup {Free}
    /\ packed \in [Threads -> [Rows -> SUBSET Vocabulary]]
    /\ session \in Ways \cup {"none", "over"}

LEMMA InitTyped == SessionInit => Typed
<1> SUFFICES ASSUME SessionInit PROVE Typed
    OBVIOUS
<1>1. batch \in Batches
    BY NewBatchTyped DEF SessionInit, Init
<1>2. packed \in [Threads -> [Rows -> SUBSET Vocabulary]]
    BY DEF SessionInit, Init, NoMasks
<1> QED
    BY <1>1, <1>2 DEF SessionInit, Init, Typed

LEMMA AdvanceTyped ==
    ASSUME Typed, Calling, NEW t \in Threads, Advance(t), UNCHANGED <<session, borrower>>
    PROVE  Typed'
<1>1. ASSUME NEW error, End(t, error), batch' \in Batches, poisoned' \in BOOLEAN,
             UNCHANGED trusted, previous' \in Inputs \cup {NoInput},
             text' \in Inputs \cup {NoInput}, previous_width' \in Nat
      PROVE  Typed'
    BY <1>1 DEF Typed, End, NoMasks
<1>2. CASE Check(t)
    BY <1>1, <1>2 DEF Check, Typed, history, End, NoMasks
<1>3. CASE RefuseScores(t) \/ MaskingFails(t) \/ Interrupt(t)
    BY <1>1, <1>3 DEF RefuseScores, MaskingFails, Interrupt, Typed, history
<1>4. CASE CallNative(t)
    <2>1. PICK result \in IF previous_width = 0 THEN InitialMasks(batch)
                          ELSE AdvanceAndMasks(batch, Lasts(input[t])) :
            /\ batch' = result.batch
            /\ \/ /\ result.error # "none"
                  /\ poisoned' = (poisoned \/ result.error = "internal_error")
                  /\ End(t, result.error)
               \/ /\ result.error = "none"
                  /\ packed' = [packed EXCEPT ![t] = result.masks]
                  /\ Goto(t, "packed")
                  /\ UNCHANGED <<poisoned, lock, input, answer>>
            /\ UNCHANGED <<history, text>>
        BY <1>4 DEF CallNative
    <2>2. batch \in Batches
        BY DEF Typed
    <2>3. result.batch \in Batches /\ result.masks \in [Rows -> SUBSET Vocabulary]
        BY <2>1, <2>2, InitialReturns, AdvanceReturns
    <2>4. CASE result.error # "none"
        BY <1>1, <2>1, <2>3, <2>4 DEF Typed, history
    <2>5. CASE result.error = "none"
        BY <2>1, <2>3, <2>5 DEF Typed, history
    <2> QED
        BY <2>4, <2>5
<1>5. CASE StartMasking(t) \/ MaskScores(t)
    BY <1>5 DEF StartMasking, MaskScores, Typed, history
<1>6. CASE SetWidth(t)
    <2>1. Width(input[t]) \in Nat
        BY <1>6, InputShape DEF SetWidth, Calling
    <2> QED
        BY <1>6, <2>1 DEF SetWidth, Typed
<1>7. CASE SetPrevious(t)
    BY <1>1, <1>7 DEF SetPrevious, Typed, Calling
<1> QED
    BY <1>2, <1>3, <1>4, <1>5, <1>6, <1>7 DEF Advance

LEMMA NextTyped == Owned /\ Calling /\ Typed /\ [SessionNext]_allVars => Typed'
<1> SUFFICES ASSUME Owned, Calling, Typed, [SessionNext]_allVars PROVE Typed'
    OBVIOUS
<1>1. ASSUME UNCHANGED <<batch, history, poisoned, lock, packed, text, session>>,
             borrower' \in Threads \cup {Free}
      PROVE  Typed'
    BY <1>1 DEF Typed, history
<1>2. ASSUME NEW t \in Threads, \/ \E r \in Requests : Ask(t, r)
                                \/ Borrow(t) \/ Refuse(t) \/ Take(t) \/ MatcherFails(t) \/ Abandon(t)
      PROVE  Typed'
    BY <1>1, <1>2 DEF Ask, Borrow, Refuse, Take, MatcherFails, Abandon, Refused,
                      ProcessorUnchanged, Typed
<1>3. ASSUME NEW t \in Threads, Make(t) PROVE Typed'
    BY <1>3, NewBatchTyped DEF Make, Typed, history
<1>4. ASSUME NEW t \in Threads, Deliver(t) PROVE Typed'
    <2>1. asked[t].via \in Ways
        BY <1>4, SessionAssumption DEF Deliver, Owned, Held, Request
    <2> QED
        BY <1>4, <2>1 DEF Deliver, Typed
<1>5. ASSUME NEW t \in Threads, Finish(t) PROVE Typed'
    BY <1>5 DEF Finish, vars, Typed
<1>6. ASSUME NEW t \in Threads, Call(t) PROVE Typed'
    BY <1>6 DEF Call, Enter, Collide, ownership, history, Typed
<1>7. ASSUME NEW t \in Threads, Continue(t) PROVE Typed'
    BY <1>7, AdvanceTyped DEF Continue, ownership
<1>8. CASE UNCHANGED allVars
    BY <1>1, <1>8 DEF allVars, vars, history, ownership, Typed
<1> QED
    BY <1>2, <1>3, <1>4, <1>5, <1>6, <1>7, <1>8 DEF SessionNext, Proceed

LEMMA AlwaysTyped == SessionSpec => [](Owned /\ Calling /\ Typed)
<1> QED
    BY AlwaysCalling, InitTyped, NextTyped, PTL DEF SessionSpec

(* Whatever is asked and called, the state keeps its shape.                  *)
THEOREM SessionIsTyped == SessionSpec => []SessionTypeOK
<1>1. Owned /\ Calling /\ Typed => SessionTypeOK
    BY DEF Owned, Calling, Typed, SessionTypeOK, TypeOK, Batches
<1> QED
    BY <1>1, AlwaysTyped, PTL
-----------------------------------------------------------------------------
(* What a row reads of a text that grows by one token.                       *)
LEMMA UpToEndGrows ==
    ASSUME NEW word \in Seq(TokenIds), NEW token \in TokenIds
    PROVE  UpToEnd(Append(word, token)) =
             IF Ended(UpToEnd(word)) THEN UpToEnd(word) ELSE Append(UpToEnd(word), token)
<1> DEFINE ends == {k \in 1..Len(word) : word[k] \in EosTokens}
           longer == Append(word, token)
           longerEnds == {k \in 1..Len(longer) : longer[k] \in EosTokens}
<1>1. /\ Len(longer) = Len(word) + 1 /\ longer[Len(word) + 1] = token
      /\ \A k \in 1..Len(word) : longer[k] = word[k]
      /\ Len(word) \in Nat /\ longer \in Seq(TokenIds)
    OBVIOUS
<1>2. CASE ends = {}
    <2>1. UpToEnd(word) = word
        BY <1>2, Zenon DEF UpToEnd
    <2>2. ~Ended(word)
        BY <1>2 DEF Ended
    <2>3. CASE token \in EosTokens
        <3>1. longerEnds = {Len(word) + 1}
            BY <1>1, <1>2, <2>3
        <3>2. (CHOOSE k \in longerEnds : \A j \in longerEnds : k <= j) = Len(word) + 1
            BY <1>1, <3>1
        <3>3. UpToEnd(longer) = SubSeq(longer, 1, Len(word) + 1)
            BY <3>1, <3>2 DEF UpToEnd
        <3>4. SubSeq(longer, 1, Len(word) + 1) = longer
            BY <1>1
        <3> QED
            BY <2>1, <2>2, <3>3, <3>4
    <2>4. CASE token \notin EosTokens
        <3>1. longerEnds = {}
            BY <1>1, <1>2, <2>4
        <3>2. UpToEnd(longer) = longer
            BY <3>1, Zenon DEF UpToEnd
        <3> QED
            BY <2>1, <2>2, <3>2
    <2> QED
        BY <2>3, <2>4
<1>3. CASE ends # {}
    <2>1. PICK first \in ends : \A j \in ends : first <= j
        <3>1. ends \subseteq Nat
            OBVIOUS
        <3> QED
            BY <1>3, <3>1, LeastExists
    <2>2. (CHOOSE k \in ends : \A j \in ends : k <= j) = first
        BY <2>1
    <2>3. first \in longerEnds /\ \A j \in longerEnds : first <= j
        BY <1>1, <2>1
    <2>4. (CHOOSE k \in longerEnds : \A j \in longerEnds : k <= j) = first
        BY <2>3
    <2>5. UpToEnd(word) = SubSeq(word, 1, first)
        BY <1>3, <2>2 DEF UpToEnd
    <2>6. UpToEnd(longer) = SubSeq(longer, 1, first)
        BY <2>3, <2>4 DEF UpToEnd
    <2>7. SubSeq(longer, 1, first) = SubSeq(word, 1, first)
        BY <1>1, <2>1
    <2>8. Ended(SubSeq(word, 1, first))
        BY <2>1 DEF Ended
    <2> QED
        BY <2>5, <2>6, <2>7, <2>8
<1> QED
    BY <1>2, <1>3

LEMMA RestGrows ==
    ASSUME NEW old \in Seq(TokenIds), NEW longer \in Seq(TokenIds), NEW n \in Nat, n <= Len(old),
           Len(longer) = Len(old) + 1, \A k \in 1..Len(old) : longer[k] = old[k]
    PROVE  SubSeq(longer, n + 1, Len(longer)) =
             Append(SubSeq(old, n + 1, Len(old)), longer[Len(longer)])
<1> DEFINE size == Len(old) - n
           rest == SubSeq(longer, n + 1, Len(longer))
           short == SubSeq(old, n + 1, Len(old))
           last == longer[Len(longer)]
           grown == Append(short, last)
<1>1. size \in Nat /\ Len(old) \in Nat /\ Len(longer) = n + size + 1 /\ last \in TokenIds
    OBVIOUS
<1>2. /\ \A k \in (n + 1)..Len(old) : old[k] \in TokenIds
      /\ \A k \in (n + 1)..Len(longer) : longer[k] \in TokenIds
    OBVIOUS
<1>3. /\ short \in Seq(TokenIds) /\ Len(short) = size
      /\ \A k \in 1..size : short[k] = old[n + k]
    <2>1. CASE n < Len(old)
        BY <1>1, <1>2, <2>1, SubSeqProperties
    <2>2. CASE n = Len(old)
        <3>1. short = <<>> /\ size = 0
            BY <1>1, <2>2, SubSeqEmpty
        <3> QED
            BY <3>1
    <2> QED
        BY <1>1, <2>1, <2>2
<1>4. /\ rest \in Seq(TokenIds) /\ Len(rest) = size + 1
      /\ \A k \in 1..(size + 1) : rest[k] = longer[n + k]
    BY <1>1, <1>2, SubSeqProperties
<1>5. /\ grown \in Seq(TokenIds) /\ Len(grown) = size + 1
      /\ \A k \in 1..size : grown[k] = short[k]
      /\ grown[size + 1] = last
    <2> HIDE DEF short, last, size
    <2> QED
        BY <1>1, <1>3, AppendProperties
<1>6. ASSUME NEW k \in 1..(size + 1) PROVE rest[k] = grown[k]
    <2> HIDE DEF rest, short, grown
    <2>1. rest[k] = longer[n + k]
        BY <1>4
    <2>2. CASE k = size + 1
        BY <1>1, <1>5, <2>1, <2>2
    <2>3. CASE k \in 1..size
        <3>1. n + k \in 1..Len(old)
            BY <1>1, <2>3
        <3> QED
            BY <1>3, <1>5, <2>1, <2>3, <3>1
    <2> QED
        BY <1>1, <2>2, <2>3
<1> QED
    <2> HIDE DEF rest, grown, size
    <2>1. rest = grown
        BY <1>4, <1>5, <1>6, SeqEqual
    <2> QED
        BY <2>1 DEF rest, grown

Fits(i) == Len(i) = RowCount /\ \A row \in Rows : Len(i[row]) >= Len(Prompt[row])
ReadOf(i) == [row \in Rows |-> Read(i, row)]

LEMMA PromptIsRead ==
    Fits(Prompt) /\ ReadOf(Prompt) = NewBatch.words
<1>1. ASSUME NEW row \in Rows PROVE Prompt[row] \in Seq(TokenIds) /\ Read(Prompt, row) = <<>>
    <2>1. Prompt[row] \in Seq(TokenIds)
        BY InputShape, ProcessorAssumption DEF Rows
    <2>2. Generated(Prompt, row) = <<>>
        BY <2>1 DEF Generated
    <2>3. {k \in 1..Len(<<>>) : <<>>[k] \in EosTokens} = {}
        OBVIOUS
    <2>4. UpToEnd(<<>>) = <<>>
        BY <2>3, Zenon DEF UpToEnd
    <2> QED
        BY <2>1, <2>2, <2>4 DEF Read
<1> QED
    BY <1>1, ProcessorAssumption DEF Fits, ReadOf, NewBatch

LEMMA ReadGrows ==
    ASSUME NEW old \in Inputs \cup {Prompt}, NEW i \in Inputs, Fits(old),
           Len(i) = RowCount, ExtendsByOne(i, old)
    PROVE  Fits(i) /\ ReadOf(i) = After(ReadOf(old), Lasts(i))
<1>1. ASSUME NEW row \in Rows
      PROVE  /\ Len(i[row]) >= Len(Prompt[row])
             /\ Read(i, row) = IF Ended(Read(old, row)) THEN Read(old, row)
                               ELSE Append(Read(old, row), Lasts(i)[row])
    <2>1. /\ i[row] \in Seq(TokenIds) /\ old[row] \in Seq(TokenIds) /\ Prompt[row] \in Seq(TokenIds)
          /\ Len(i[row]) = Width(i)
        BY InputShape, ProcessorAssumption DEF Fits, Rows
    <2>2. Lasts(i)[row] = i[row][Len(i[row])]
        BY <2>1 DEF Lasts, Rows
    <2>3. Len(i[row]) = Len(old[row]) + 1 /\ SubSeq(i[row], 1, Len(old[row])) = old[row]
        BY DEF ExtendsByOne
    <2>4. Len(old[row]) >= Len(Prompt[row])
        BY DEF Fits
    <2>5. Generated(old, row) \in Seq(TokenIds) /\ Lasts(i)[row] \in TokenIds
        BY <2>1, <2>2, <2>3, <2>4 DEF Generated
    <2>6. Generated(i, row) = Append(Generated(old, row), Lasts(i)[row])
        <3> DEFINE n == Len(Prompt[row])
        <3>1. n \in Nat /\ n <= Len(old[row])
            BY <2>1, <2>4
        <3> HIDE DEF n
        <3>2. SubSeq(i[row], n + 1, Len(i[row])) =
                Append(SubSeq(old[row], n + 1, Len(old[row])), i[row][Len(i[row])])
            <4>1. \A k \in 1..Len(old[row]) : i[row][k] = old[row][k]
                BY <2>1, <2>3
            <4> QED
                BY <2>1, <2>3, <3>1, <4>1, RestGrows, Zenon
        <3> QED
            BY <2>2, <3>2 DEF Generated, n
    <2>7. UpToEnd(Generated(i, row)) =
            IF Ended(UpToEnd(Generated(old, row))) THEN UpToEnd(Generated(old, row))
            ELSE Append(UpToEnd(Generated(old, row)), Lasts(i)[row])
        BY <2>5, <2>6, UpToEndGrows
    <2> QED
        BY <2>1, <2>3, <2>4, <2>7 DEF Read
<1> QED
    BY <1>1 DEF Fits, ReadOf, After
-----------------------------------------------------------------------------
(* What the batch has read: the text answered last, or, while an answer is   *)
(* made, the input of the call; unless the session is over.  An input is     *)
(* accepted only when it Continues.                                          *)
Late == {"packed", "masking", "masked", "measured"}
Continues(i) ==
    /\ Len(i) = RowCount
    /\ previous_width = 0 => i = Prompt
    /\ previous_width # 0 => /\ ~trusted => ExtendsByOne(i, previous)
                             /\ \A row \in Rows : Lasts(i)[row] \in Vocabulary
Now == IF text = NoInput THEN NewBatch.words ELSE ReadOf(text)
History ==
    /\ batch.poisoned => poisoned
    /\ text # NoInput => Fits(text)
    /\ ~trusted => previous = text
    /\ (\A t \in Threads : pc[t] # "measured")
         => previous_width = IF text = NoInput THEN 0 ELSE Width(text)
    /\ ~poisoned /\ (\A t \in Threads : pc[t] \notin Late) => Over \/ batch.words = Now
    /\ \A t \in Threads :
         /\ pc[t] # "idle" /\ trusted /\ text # NoInput => ExtendsByOne(input[t], text)
         /\ pc[t] = "native" => Continues(input[t])
         /\ pc[t] = "measured" => previous_width = Width(input[t])
         /\ pc[t] \in Late => /\ Fits(input[t]) /\ batch.words = ReadOf(input[t])
                              /\ packed[t] = MasksAfter(batch.words)

LEMMA HistoryMeans == Calling /\ History => InStep /\ MasksFitTheInput
<1> SUFFICES ASSUME Calling, History PROVE InStep /\ MasksFitTheInput
    OBVIOUS
<1>1. MasksFitTheInput
    <2> SUFFICES ASSUME NEW t \in Threads, pc[t] \in Late PROVE packed[t] = Expected(input[t])
        BY DEF MasksFitTheInput, Late
    <2>1. batch.words = ReadOf(input[t]) /\ packed[t] = MasksAfter(batch.words)
        BY DEF History
    <2>2. packed[t] = MasksAfter(ReadOf(input[t]))
        BY <2>1
    <2>3. \A row \in Rows : ReadOf(input[t])[row] = Read(input[t], row)
        BY DEF ReadOf
    <2>4. MasksAfter(ReadOf(input[t])) = Expected(input[t])
        BY <2>3 DEF MasksAfter, Expected
    <2> QED
        BY <2>2, <2>4
<1>2. ASSUME lock = Free, ~poisoned, ~Over
      PROVE  /\ batch.words = (IF text = NoInput THEN NewBatch.words
                               ELSE [row \in Rows |-> Read(text, row)])
             /\ previous_width = (IF text = NoInput THEN 0 ELSE Width(text))
             /\ ~trusted => previous = text
             /\ ~batch.poisoned
    <2>1. \A t \in Threads : pc[t] = "idle"
        BY <1>2, ProcessorAssumption DEF Calling, OnlyTheHolder
    <2> QED
        BY <1>2, <2>1 DEF History, Now, ReadOf, Late
<1> QED
    BY <1>1, <1>2 DEF InStep

LEMMA InitHistory == SessionInit => History
BY DEF SessionInit, Init, History, NewBatch, Now, Late

LEMMA Accepted ==
    ASSUME NEW i \in Inputs, InputError(i) = "none"
    PROVE  ~poisoned /\ Continues(i)
<1>1. ~poisoned
    <2> SUFFICES ASSUME poisoned PROVE FALSE
        OBVIOUS
    <2>1. InputError(i) = "internal_error"
        BY Zenon DEF InputError
    <2> QED
        BY <2>1
<1>2. Len(i) = RowCount
    <2> SUFFICES ASSUME Len(i) # RowCount PROVE FALSE
        OBVIOUS
    <2>1. InputError(i) = "sequence_discontinuity"
        BY <1>1, Zenon DEF InputError
    <2> QED
        BY <2>1
<1> DEFINE rest ==
           IF previous_width = 0
           THEN IF i = Prompt THEN "none" ELSE "sequence_discontinuity"
           ELSE IF ~trusted /\ previous = NoInput THEN "internal_error"
           ELSE IF \/ trusted /\ Width(i) # previous_width + 1
                   \/ ~trusted /\ ~ExtendsByOne(i, previous)
           THEN "sequence_discontinuity"
           ELSE IF \E row \in Rows : Lasts(i)[row] \notin Vocabulary
           THEN "constraint_violation" ELSE "none"
<1>3. InputError(i) = rest
    BY <1>1, <1>2, Zenon DEF InputError
<1> QED
    BY <1>1, <1>2, <1>3 DEF Continues

(* A call that ends without an answer leaves the history as it was.          *)
LEMMA EndsHistory ==
    ASSUME Calling, History, NEW t \in Threads, pc[t] \notin {"idle", "measured"},
           NEW error, End(t, error), UNCHANGED <<history, text>>,
           poisoned => poisoned', batch'.poisoned => poisoned',
           poisoned' \/ (pc[t] \notin Late /\ (batch'.words = batch.words \/ Over'))
    PROVE  History'
<1>1. \A u \in Threads : u # t => pc[u] = "idle"
    BY Alone
<1>2. \A u \in Threads : pc'[u] = "idle"
    BY <1>1 DEF End, Goto, Calling
<1>3. previous_width = IF text = NoInput THEN 0 ELSE Width(text)
    BY <1>1 DEF History
<1>4. ASSUME ~poisoned' PROVE Over' \/ batch'.words = Now'
    <2>1. Over \/ batch.words = Now
        BY <1>1, <1>4 DEF History, Late
    <2>2. Now' = Now
        BY DEF Now, NewBatch, ReadOf, Read, Generated, history
    <2> QED
        BY <1>4, <2>1, <2>2 DEF Over
<1> QED
    BY <1>2, <1>3, <1>4 DEF History, Late, history

(* One that goes on with neither the batch nor the history touched.          *)
LEMMA GoesHistory ==
    ASSUME Calling, History, NEW t \in Threads, NEW phase \in Phases \ {"measured"}, Goto(t, phase),
           pc[t] \notin {"idle", "measured"},
           (phase \in Late) = (pc[t] \in Late), phase = "native" => Continues(input[t]),
           UNCHANGED <<batch, history, poisoned, input, packed, text>>
    PROVE  History'
<1>1. \A u \in Threads : pc'[u] = IF u = t THEN phase ELSE "idle"
    BY Alone DEF Goto, Calling
<1>2. \A u \in Threads : pc[u] # "measured"
    BY Alone
<1>3. Continues(input[t])' = Continues(input[t]) /\ Now' = Now /\ Over' = Over
    BY DEF Continues, Now, Over, NewBatch, ReadOf, Read, Generated, history, ExtendsByOne, Lasts
<1>4. \A u \in Threads : pc[u] = IF u = t THEN pc[t] ELSE "idle"
    BY Alone
<1>5. (\A u \in Threads : pc'[u] \notin Late) => (\A u \in Threads : pc[u] \notin Late)
    BY <1>1, <1>4
<1>6. ASSUME NEW u \in Threads
      PROVE  /\ pc'[u] # "idle" /\ trusted' /\ text' # NoInput => ExtendsByOne(input'[u], text')
             /\ pc'[u] = "native" => Continues(input[u])'
             /\ pc'[u] = "measured" => previous_width' = Width(input'[u])
             /\ pc'[u] \in Late => /\ Fits(input'[u]) /\ batch'.words = ReadOf(input'[u])
                                   /\ packed'[u] = MasksAfter(batch'.words)
    <2>1. CASE u = t
        BY <1>1, <1>3, <2>1 DEF History, history
    <2>2. CASE u # t
        BY <1>1, <2>2 DEF Late
    <2> QED
        BY <2>1, <2>2
<1> QED
    BY <1>1, <1>2, <1>3, <1>5, <1>6 DEF History, history

(* When the native call answers, the batch has read the input, whether it is *)
(* the first call or another: a session that is over has no answer.          *)
LEMMA NativeAnswers ==
    ASSUME Calling, Typed, History, NEW t \in Threads, pc[t] = "native",
           NEW result \in IF previous_width = 0 THEN InitialMasks(batch)
                          ELSE AdvanceAndMasks(batch, Lasts(input[t])),
           result.error = "none"
    PROVE  /\ Fits(input[t]) /\ result.batch.words = ReadOf(input[t])
           /\ result.masks = MasksAfter(result.batch.words)
<1> DEFINE i == input[t]
<1>1. i \in Inputs /\ Continues(i) /\ ~poisoned
    BY DEF Calling, History
<1>2. batch \in Batches
    BY DEF Typed
<1>3. \A u \in Threads : pc[u] \notin Late
    BY Alone DEF Late
<1>4. /\ previous_width = IF text = NoInput THEN 0 ELSE Width(text)
      /\ Over \/ batch.words = Now
    BY <1>1, <1>3 DEF History, Late
<1>5. 1 \in Rows
    BY BatchAssumption DEF Rows
<1>6. CASE previous_width = 0
    <2>1. text = NoInput
        BY <1>4, <1>6, InputShape DEF Typed
    <2>2. i = Prompt
        BY <1>1, <1>6 DEF Continues
    <2>3. /\ result.batch.words = batch.words
          /\ result.masks = [row \in Rows |-> Mask(batch.words[row])]
          /\ \A row \in Rows : Mask(batch.words[row]) # {}
        BY <1>2, <1>6, InitialReturns
    <2>4. ~Over
        BY <1>2, <1>5, <2>3, EndedHasNoMask DEF Over, Batches
    <2>5. batch.words = NewBatch.words
        BY <1>4, <2>1, <2>4 DEF Now
    <2>6. \A row \in Rows : ~Ended(batch.words[row])
        BY <2>5 DEF NewBatch, Ended
    <2> QED
        BY <2>2, <2>3, <2>5, <2>6, PromptIsRead DEF MasksAfter
<1>7. CASE previous_width # 0
    <2>1. text \in Inputs /\ text # NoInput
        BY <1>4, <1>7 DEF Typed
    <2>2. Fits(text) /\ ExtendsByOne(i, text)
        BY <1>1, <1>7, <2>1 DEF History, Continues
    <2>3. Fits(i) /\ ReadOf(i) = After(ReadOf(text), Lasts(i))
        BY <1>1, <2>1, <2>2, ReadGrows DEF Continues
    <2>4. /\ result.batch.words = After(batch.words, Lasts(i))
          /\ result.masks = MasksAfter(result.batch.words)
          /\ \E row \in Rows : ~Ended(result.batch.words[row])
        BY <1>2, <1>7, AdvanceReturns
    <2>5. ~Over
        BY <2>4 DEF Over, After
    <2> QED
        BY <1>4, <2>1, <2>3, <2>4, <2>5 DEF Now
<1> QED
    BY <1>6, <1>7

LEMMA AdvanceHistory ==
    ASSUME ExceptionsHandled, Calling, Typed, History, NEW t \in Threads, Advance(t)
    PROVE  History'
<1>1. CASE Check(t)
    <2>1. pc[t] = "checking" /\ UNCHANGED <<batch, history, poisoned, text>> /\ input[t] \in Inputs
        BY <1>1 DEF Check, Calling
    <2>2. CASE End(t, InputError(input[t]))
        BY <2>1, <2>2, EndsHistory DEF Late, History
    <2>3. CASE InputError(input[t]) = "none" /\ Goto(t, "native") /\ UNCHANGED <<input, packed>>
        BY <2>1, <2>3, GoesHistory, Accepted DEF Late, Phases
    <2> QED
        BY <1>1, <2>2, <2>3 DEF Check
<1>2. CASE RefuseScores(t)
    BY <1>2, EndsHistory DEF RefuseScores, Late, History
<1>3. CASE CallNative(t)
    <2>1. PICK result \in IF previous_width = 0 THEN InitialMasks(batch)
                          ELSE AdvanceAndMasks(batch, Lasts(input[t])) :
            /\ batch' = result.batch
            /\ \/ /\ result.error # "none"
                  /\ poisoned' = (poisoned \/ result.error = "internal_error")
                  /\ End(t, result.error)
               \/ /\ result.error = "none"
                  /\ packed' = [packed EXCEPT ![t] = result.masks]
                  /\ Goto(t, "packed")
                  /\ UNCHANGED <<poisoned, lock, input, answer>>
            /\ UNCHANGED <<history, text>>
        BY <1>3 DEF CallNative
    <2>2. pc[t] = "native" /\ batch \in Batches
        BY <1>3 DEF CallNative, Typed
    <2>3. /\ result.batch.poisoned => result.error = "internal_error"
          /\ result.error \notin {"none", "internal_error"} =>
               \/ result.batch.words = batch.words
               \/ \A row \in Rows : Ended(result.batch.words[row])
        BY <2>1, <2>2, InitialReturns, AdvanceReturns
    <2>4. CASE result.error # "none"
        BY <2>1, <2>2, <2>3, <2>4, EndsHistory DEF Late, Over
    <2>5. CASE result.error = "none"
        <3>1. /\ Fits(input[t]) /\ batch'.words = ReadOf(input[t])
              /\ result.masks = MasksAfter(batch'.words) /\ ~batch'.poisoned
            BY <2>1, <2>2, <2>3, <2>5, NativeAnswers
        <3>2. \A u \in Threads : pc'[u] = IF u = t THEN "packed" ELSE "idle"
            BY <2>1, <2>2, <2>5, Alone DEF Goto, Calling
        <3>3. /\ previous_width = IF text = NoInput THEN 0 ELSE Width(text)
              /\ trusted /\ text # NoInput => ExtendsByOne(input[t], text)
            BY <2>2, Alone DEF History
        <3>4. packed'[t] = MasksAfter(batch'.words) /\ UNCHANGED <<history, text, poisoned, input>>
            BY <2>1, <2>5, <3>1 DEF Typed
        <3> QED
            BY <3>1, <3>2, <3>3, <3>4 DEF History, Late, history
    <2> QED
        BY <2>4, <2>5
<1>4. CASE StartMasking(t)
    BY <1>4, GoesHistory DEF StartMasking, Late, Phases
<1>5. CASE MaskScores(t)
    BY <1>5, GoesHistory DEF MaskScores, Late, Phases
<1>6. CASE MaskingFails(t)
    BY <1>6, EndsHistory DEF MaskingFails
<1>7. CASE SetWidth(t)
    <2>1. \A u \in Threads : pc'[u] = IF u = t THEN "measured" ELSE "idle"
        BY <1>7, Alone DEF SetWidth, Goto, Calling
    <2> QED
        BY <1>7, <2>1 DEF SetWidth, History, Late
<1>8. CASE SetPrevious(t)
    <2>1. \A u \in Threads : pc'[u] = "idle"
        BY <1>8, Alone DEF SetPrevious, End, Goto, Calling
    <2>2. input[t] \in Inputs /\ input[t] # NoInput
        BY <1>8, ProcessorAssumption DEF SetPrevious, Calling
    <2>3. Fits(input[t]) /\ batch.words = ReadOf(input[t]) /\ previous_width = Width(input[t])
        BY <1>8 DEF SetPrevious, History, Late
    <2>4. text' = input[t] /\ Now' = ReadOf(input[t])
        BY <1>8, <2>2 DEF SetPrevious, Now, ReadOf, Read, Generated
    <2> QED
        BY <1>8, <2>1, <2>2, <2>3, <2>4 DEF SetPrevious, History, Late
<1>9. CASE Interrupt(t)
    <2>1. pc[t] \in {"checking", "native", "masking"}
        BY <1>9 DEF Interrupt, ExceptionsHandled
    <2> QED
        BY <1>9, <2>1, EndsHistory DEF Interrupt, Late, History
<1> QED
    BY <1>1, <1>2, <1>3, <1>4, <1>5, <1>6, <1>7, <1>8, <1>9 DEF Advance

LEMMA NextHistory ==
    ExceptionsHandled /\ Owned /\ Calling /\ Typed /\ History /\ [SessionNext]_allVars => History'
<1> SUFFICES ASSUME ExceptionsHandled, Owned, Calling, Typed, History, [SessionNext]_allVars
             PROVE  History'
    OBVIOUS
<1>1. ASSUME UNCHANGED <<batch, history, poisoned, pc, input, packed, text>> PROVE History'
    BY <1>1 DEF History, history, Now, Over, NewBatch, ReadOf, Read, Generated, Continues, ExtendsByOne,
                Lasts, Fits
<1>2. ASSUME NEW t \in Threads, \/ \E r \in Requests : Ask(t, r)
                                \/ Borrow(t) \/ Refuse(t) \/ Take(t) \/ MatcherFails(t) \/ Abandon(t)
                                \/ Finish(t)
      PROVE  History'
    BY <1>1, <1>2 DEF Ask, Borrow, Refuse, Take, MatcherFails, Abandon, Finish, Refused,
                      ProcessorUnchanged, vars, history
<1>3. ASSUME NEW t \in Threads, Make(t) PROVE History'
    <2>1. session = "none"
        BY <1>3 DEF Make, Owned, OneSession, Makers
    <2>2. batch' = batch
        BY <1>3, <2>1 DEF Make, Calling, Fresh
    <2> QED
        BY <1>1, <1>3, <2>2 DEF Make
<1>4. ASSUME NEW t \in Threads, Deliver(t) PROVE History'
    <2>1. Fresh /\ \A u \in Threads : pc[u] = "idle"
        BY <1>4 DEF Deliver, Owned, OneSession, Makers, Calling
    <2> QED
        BY <1>4, <2>1 DEF Deliver, Fresh, History, Now, NewBatch, Late
<1>5. ASSUME NEW t \in Threads, NEW i \in Inputs, Enter(t, i) PROVE History'
    <2>1. \A u \in Threads : pc[u] = "idle"
        BY <1>5, ProcessorAssumption DEF Enter, Calling, OnlyTheHolder
    <2>2. \A u \in Threads : pc'[u] = IF u = t THEN "checking" ELSE "idle"
        BY <1>5, <2>1 DEF Enter, Goto, Calling
    <2>3. input'[t] = i /\ (trusted /\ text # NoInput => ExtendsByOne(i, text))
        BY <1>5 DEF Enter, Plausible, Calling
    <2>4. UNCHANGED <<batch, history, poisoned, packed, text>> /\ Now' = Now /\ Over' = Over
        BY <1>5 DEF Enter, Now, Over, NewBatch, ReadOf, Read, Generated
    <2> QED
        BY <2>1, <2>2, <2>3, <2>4 DEF History, history, Late
<1>6. ASSUME NEW t \in Threads, Call(t) PROVE History'
    BY <1>1, <1>5, <1>6 DEF Call, Collide
<1>7. ASSUME NEW t \in Threads, Continue(t) PROVE History'
    BY <1>7, AdvanceHistory DEF Continue
<1>8. CASE UNCHANGED allVars
    BY <1>1, <1>8 DEF allVars, vars, history
<1> QED
    BY <1>2, <1>3, <1>4, <1>6, <1>7, <1>8 DEF SessionNext, Proceed

(* Between calls the batch has read what the processor's history says, for   *)
(* any interleaving of requests and calls.                                   *)
THEOREM BatchIsInStep == ASSUME ExceptionsHandled PROVE SessionSpec => []InStep
<1>1. Calling /\ History => InStep
    BY HistoryMeans
<1> QED
    BY <1>1, AlwaysTyped, InitHistory, NextHistory, PTL DEF SessionSpec

(* The scores of every call are masked by what may follow its own input.     *)
THEOREM MasksFit == ASSUME ExceptionsHandled PROVE SessionSpec => []MasksFitTheInput
<1>1. Calling /\ History => MasksFitTheInput
    BY HistoryMeans
<1> QED
    BY <1>1, AlwaysTyped, InitHistory, NextHistory, PTL DEF SessionSpec
=============================================================================
