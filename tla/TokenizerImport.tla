--------------------------- MODULE TokenizerImport --------------------------
(* TokenizerManifest.from_transformers of python/greatgramma/compiler.py and *)
(* extract of crates/greatgramma-compile/src/tokenizer_json.rs: the bytes of *)
(* each token of a tokenizer.json, whose vocabulary is a map from pieces to  *)
(* ids or a list, to which added tokens are merged, under one budget of work *)
(* and one of decoded bytes.                                                 *)
(*                                                                           *)
(* An action is one stage, or one iteration of the loop of a stage.  What is *)
(* read is a document as the JSON library leaves it.                         *)
EXTENDS Checks

CONSTANTS
    Bytes, Characters,
    ByteOf,             \* the byte a character stands for, or Unmapped
    Unmapped,
    Utf8,               \* the bytes of a character in UTF-8
    NotText, NotAnId,   \* a field of another type, or missing
    Documents, EosLists,
    MaxJsonBytes, MaxVocabulary, MaxDecoded, MaxImportWork

(* A key of a JSON object is text, an id one of u32 or nothing.  Eos is told *)
(* from the bytes of a token.                                                *)
ASSUME ImportAssumption ==
    /\ IsFiniteSet(Bytes) /\ Eos \notin Seq(Bytes) /\ NotText \notin Seq(Characters)
    /\ ByteOf \in [Characters -> Bytes \cup {Unmapped}] /\ Unmapped \notin Bytes
    /\ \A c \in Characters : Utf8[c] \in Seq(Bytes) /\ Utf8[c] # <<>>
    /\ NotAnId \in Int \ Nat
    /\ {MaxJsonBytes, MaxVocabulary, MaxDecoded, MaxImportWork} \subseteq Nat
    /\ \A d \in Documents :
         LET text == Seq(Characters)
             id == Nat \cup {NotAnId}
         IN /\ d.bytes \in Nat /\ d.fields \in Nat
            /\ {d.utf8, d.json, d.decoder} \subseteq BOOLEAN
            /\ d.model \in {"map", "list", "other"}
            /\ d.model = "map" => d.vocabulary \in Seq([piece : text, id : id])
            /\ d.model = "list" => d.vocabulary \in Seq(text \cup {NotText})
            /\ d.added \in Seq([piece : text \cup {NotText}, id : id, special : {"yes", "no", "absent"}])
    /\ EosLists \subseteq Seq(Nat \cup {NotAnId})

VARIABLES
    document, eos_ids,  \* what is imported
    phase,              \* the stage
    reason,             \* why it was refused
    item,               \* the index of the stage's loop
    work, decoded,      \* ExtractionBudget
    pairs,              \* what was read of a vocabulary that is a map
    entries,            \* the pieces by id, NoEntry for a gap
    membership,         \* EosSet: how many ids it has a bit for
    tokens,             \* the manifest so far
    singleton           \* the bytes that are a token on their own

importVars == <<document, eos_ids, phase, reason, item, work, decoded, pairs, entries,
                membership, tokens, singleton>>

NoEntry == [piece |-> NotText, special |-> FALSE]

ImportInit ==
    /\ document \in Documents /\ eos_ids \in EosLists
    /\ phase \in {"called", "read"} /\ reason = "none"
    /\ phase = "read" => document.utf8 /\ NotAnId \notin Elements(eos_ids)
    /\ item = 1
    /\ work = 0 /\ decoded = 0
    /\ pairs = <<>> /\ entries = <<>>
    /\ membership = 0
    /\ tokens = <<>> /\ singleton = {}
-----------------------------------------------------------------------------
(* decode_byte_level: a piece all of whose characters stand for bytes is     *)
(* those bytes, any other is its own UTF-8.                                  *)
Flat(piece) == FlattenSeq([i \in 1..Len(piece) |-> Utf8[piece[i]]])
PieceBytes(piece) == IF piece = NotText THEN 0 ELSE Len(Flat(piece))
AllMapped(piece) == \A i \in 1..Len(piece) : ByteOf[piece[i]] # Unmapped
Decoded(piece) ==
    IF AllMapped(piece) THEN [i \in 1..Len(piece) |-> ByteOf[piece[i]]] ELSE Flat(piece)

(* A stage goes on if its tests hold, and pays for it, or ends the import    *)
(* with the first that fails.                                                *)
Affords(cost) == Test(work + cost <= MaxImportWork, "work_limit")

Goes(tests, cost, next, index) ==
    /\ Holds(tests)
    /\ work' = work + cost
    /\ phase' = next /\ item' = index
    /\ UNCHANGED <<document, eos_ids, reason>>

RefusesUnless(tests) ==
    /\ ~Holds(tests)
    /\ phase' = "refused" /\ reason' = FirstFailure(tests)
    /\ UNCHANGED <<document, eos_ids, item, work, decoded, pairs, entries, membership, tokens,
                   singleton>>
-----------------------------------------------------------------------------
(* from_transformers, and preflight_json_input of the native module.         *)
FromTransformers ==
    LET tests == << Test(Len(eos_ids) <= MaxVocabulary, "incompatible"),
                    Test(NotAnId \notin Elements(eos_ids), "incompatible"),
                    Test(Cardinality(Elements(eos_ids)) = Len(eos_ids), "incompatible"),
                    Test(eos_ids # <<>>, "missing_eos"), Test(document.utf8, "incompatible"),
                    Test(document.bytes <= MaxJsonBytes, "json_too_large") >>
    IN /\ phase = "called"
       /\ \/ /\ Goes(tests, 0, "read", 1)
             /\ UNCHANGED <<decoded, pairs, entries, membership, tokens, singleton>>
          \/ RefusesUnless(tests)

(* Up to the vocabulary: sizes, the JSON, the decoder, the type of model.    *)
Open ==
    LET tests == << Test(document.bytes <= MaxJsonBytes, "json_too_large"),
                    Test(eos_ids # <<>>, "missing_eos"),
                    Affords(document.bytes),
                    Test(document.json, "invalid_json"),
                    Affords(document.bytes + document.fields),
                    Test(document.decoder, "incompatible"),
                    Test(document.model \in {"map", "list"}, "incompatible"),
                    Test(Len(document.vocabulary) <= MaxVocabulary, "incompatible") >>
    IN /\ phase = "read"
       /\ \/ /\ Goes(tests, document.bytes + document.fields, "vocabulary", 1)
             /\ UNCHANGED <<decoded, pairs, entries, membership, tokens, singleton>>
          \/ RefusesUnless(tests)

(* object_vocabulary, whose pairs come in the order of the pieces.           *)
ReadPair ==
    LET pair == document.vocabulary[item]
        tests == << Affords(PieceBytes(pair.piece) + 1), Test(pair.id # NotAnId, "incompatible") >>
    IN /\ phase = "vocabulary" /\ document.model = "map" /\ item <= Len(document.vocabulary)
       /\ \/ /\ Goes(tests, PieceBytes(pair.piece) + 1, phase, item + 1)
             /\ pairs' = Append(pairs, pair)
             /\ UNCHANGED <<decoded, entries, membership, tokens, singleton>>
          \/ RefusesUnless(tests)

(* build_dense                                                               *)
BuildDense ==
    LET ids == {pair.id : pair \in Elements(pairs)}
        size == IF ids = {} THEN 0 ELSE Maximum(ids) + 1
        tests == << Affords(Len(pairs)), Test(size <= MaxVocabulary, "incompatible"),
                    Test(Cardinality(ids) = Len(pairs), "incompatible") >>
        held(id) == CHOOSE pair \in Elements(pairs) : pair.id = id
    IN /\ phase = "vocabulary" /\ document.model = "map" /\ item > Len(document.vocabulary)
       /\ \/ /\ Goes(tests, Len(pairs), "eos", 1)
             /\ entries' = [id \in 0..(size - 1) |->
                              IF id \in ids THEN [piece |-> held(id).piece, special |-> FALSE]
                              ELSE NoEntry]
             /\ pairs' = <<>>
             /\ UNCHANGED <<decoded, membership, tokens, singleton>>
          \/ RefusesUnless(tests)

(* unigram_vocabulary, whose ids are positions.                              *)
ReadPiece ==
    LET piece == document.vocabulary[item]
        tests == << Affords(1), Test(piece # NotText, "incompatible"),
                    Affords(1 + PieceBytes(piece)) >>
    IN /\ phase = "vocabulary" /\ document.model = "list" /\ item <= Len(document.vocabulary)
       /\ \/ /\ Goes(tests, 1 + PieceBytes(piece), phase, item + 1)
             /\ entries' = [id \in 0..(item - 1) |->
                              IF id = item - 1 THEN [piece |-> piece, special |-> FALSE]
                              ELSE entries[id]]
             /\ UNCHANGED <<decoded, pairs, membership, tokens, singleton>>
          \/ RefusesUnless(tests)

(* EosSet::new: a bit for each id up to the largest.                         *)
CollectEos ==
    LET count == Len(eos_ids)
        largest == Maximum(Elements(eos_ids))
        tests == << Test(count <= MaxVocabulary, "incompatible"), Affords(count),
                    Test(largest < MaxVocabulary, "incompatible"), Affords(2 * count),
                    Test(Cardinality(Elements(eos_ids)) = count, "incompatible"),
                    Affords(2 * count + largest + 1) >>
    IN /\ \/ phase = "eos"
          \/ phase = "vocabulary" /\ document.model = "list" /\ item > Len(document.vocabulary)
       /\ \/ /\ Goes(tests, 2 * count + largest + 1, "added", 1)
             /\ membership' = largest + 1
             /\ UNCHANGED <<decoded, pairs, entries, tokens, singleton>>
          \/ RefusesUnless(tests)
-----------------------------------------------------------------------------
IsEos(id) == id < membership /\ id \in Elements(eos_ids)
Held(id) == IF id \in DOMAIN entries THEN entries[id] ELSE NoEntry

(* What an added token makes of the entries: those up to its id, and a gap   *)
(* filled, or a special one marked.                                          *)
WithAdded(token) ==
    [id \in 0..Maximum({token.id, Cardinality(DOMAIN entries) - 1}) |->
        IF id # token.id THEN Held(id)
        ELSE [piece |-> token.piece, special |-> Held(id).special \/ token.special = "yes"]]

(* Mutant: an added token takes the place of another.                        *)
AddedTestsOverriding(token, entry) ==
    LET cost == entry + PieceBytes(token.piece)
    IN << Affords(entry), Test(token.id # NotAnId, "incompatible"),
          Test(token.id < MaxVocabulary, "incompatible"), Test(token.piece # NotText, "incompatible"),
          Affords(cost), Test(token.special # "absent", "incompatible"),
          Test(token.special = "yes" => IsEos(token.id), "incompatible") >>

(* Mutant: the id of an added token is not limited.                          *)
AddedTestsUnlimited(token, entry) ==
    LET cost == entry + PieceBytes(token.piece)
    IN << Affords(entry), Test(token.id # NotAnId, "incompatible"),
          Test(token.piece # NotText, "incompatible"), Affords(cost),
          Test(token.special # "absent", "incompatible"),
          Test(token.special = "yes" => IsEos(token.id), "incompatible"),
          Test(Held(token.id).piece \in {NotText, token.piece}, "incompatible") >>

AddedTests(token, entry) ==
    LET cost == entry + PieceBytes(token.piece)
    IN << Affords(entry), Test(token.id # NotAnId, "incompatible"),
          Test(token.id < MaxVocabulary, "incompatible"), Test(token.piece # NotText, "incompatible"),
          Affords(cost), Test(token.special # "absent", "incompatible"),
          Test(token.special = "yes" => IsEos(token.id), "incompatible"),
          Test(Held(token.id).piece \in {NotText, token.piece}, "incompatible") >>

(* merge_added_tokens                                                        *)
MergeAdded ==
    LET token == document.added[item]
        entry == IF item = 1 THEN Len(document.added) ELSE 0
        tests == AddedTests(token, entry)
    IN /\ phase = "added" /\ item <= Len(document.added)
       /\ \/ /\ Goes(tests, entry + PieceBytes(token.piece), phase, item + 1)
             /\ entries' = WithAdded(token)
             /\ UNCHANGED <<decoded, pairs, membership, tokens, singleton>>
          \/ RefusesUnless(tests)

(* The ends of sentence are looked for in order, each at a charge.           *)
CheckRange ==
    LET size == Cardinality(DOMAIN entries)
        inside == {id \in Elements(eos_ids) : id < size}
        outside == Elements(eos_ids) \ inside
        looked == Cardinality(inside) + (IF outside = {} THEN 0 ELSE 1)
        tests == << Test(size \in 1..MaxVocabulary, "incompatible"), Affords(looked),
                    Test(outside = {}, "incompatible") >>
    IN /\ phase = "added" /\ item > Len(document.added)
       /\ \/ /\ Goes(tests, looked, "tokens", 1)
             /\ UNCHANGED <<decoded, pairs, entries, membership, tokens, singleton>>
          \/ RefusesUnless(tests)

EmitToken ==
    LET id == item - 1
        entry == entries[id]
        bytes == IF entry = NoEntry THEN <<>> ELSE Decoded(entry.piece)
        listed == << Affords(1), Test(entry # NoEntry, "incompatible"),
                     Test(entry.special => IsEos(id), "incompatible") >>
        ordinary == << Affords(1 + Len(entry.piece)),
                       Test(decoded + Len(bytes) <= MaxDecoded, "too_much_output"),
                       Affords(1 + Len(entry.piece) + Len(bytes)),
                       Test(bytes # <<>>, "empty_token") >>
        tests == IF IsEos(id) THEN listed ELSE listed \o ordinary
    IN /\ phase = "tokens" /\ id \in DOMAIN entries
       /\ \/ /\ IsEos(id)
             /\ Goes(tests, 1, phase, item + 1)
             /\ tokens' = Append(tokens, Eos)
             /\ UNCHANGED <<decoded, pairs, entries, membership, singleton>>
          \/ /\ ~IsEos(id)
             /\ Goes(tests, 1 + Len(entry.piece) + Len(bytes), phase, item + 1)
             /\ tokens' = Append(tokens, bytes)
             /\ decoded' = decoded + Len(bytes)
             /\ singleton' = IF Len(bytes) = 1 THEN singleton \cup {bytes[1]} ELSE singleton
             /\ UNCHANGED <<pairs, entries, membership>>
          \/ RefusesUnless(tests)

(* Every byte must be a token on its own.                                    *)
CoverBytes ==
    LET tests == << Affords(Cardinality(Bytes)), Test(singleton = Bytes, "missing_byte") >>
    IN /\ phase = "tokens" /\ item - 1 \notin DOMAIN entries
       /\ \/ /\ Goes(tests, Cardinality(Bytes), "imported", item)
             /\ UNCHANGED <<decoded, pairs, entries, membership, tokens, singleton>>
          \/ RefusesUnless(tests)

ImportNext ==
    \/ FromTransformers \/ Open \/ ReadPair \/ BuildDense \/ ReadPiece \/ CollectEos
    \/ MergeAdded \/ CheckRange \/ EmitToken \/ CoverBytes
-----------------------------------------------------------------------------
ImportTypeOK ==
    /\ phase \in {"none", "called", "read", "vocabulary", "eos", "added", "tokens", "imported", "refused"}
    /\ {item, work, decoded, membership} \subseteq Nat
    /\ DOMAIN entries = 0..(Cardinality(DOMAIN entries) - 1)
    /\ \A i \in 1..Len(tokens) : tokens[i] = Eos \/ tokens[i] \in Seq(Bytes)
    /\ singleton \subseteq Bytes

(* What a document says: which piece an id has, and which ids are special.   *)
Listed(d) ==
    IF d.model = "map" THEN {<<pair.id, pair.piece>> : pair \in Elements(d.vocabulary)}
    ELSE {<<i - 1, d.vocabulary[i]>> : i \in 1..Len(d.vocabulary)}
Assigned(d) == Listed(d) \cup {<<token.id, token.piece>> : token \in Elements(d.added)}
Ids(d) == {pair[1] : pair \in Assigned(d)}
PieceOf(d, id) == (CHOOSE pair \in Assigned(d) : pair[1] = id)[2]
Ordinary(d, eos) == Ids(d) \ Elements(eos)

(* It is compatible if its ids are dense and each has one piece, if just     *)
(* ends of sentence are special, if no ordinary token is empty, and if every *)
(* byte is one.                                                              *)
Compatible(d, eos) ==
    /\ d.utf8 /\ d.json /\ d.decoder /\ d.model \in {"map", "list"}
    /\ NotAnId \notin Ids(d) /\ \A pair \in Assigned(d) : pair[2] # NotText
    /\ Cardinality(Listed(d)) = Len(d.vocabulary)
    /\ Ids(d) # {} /\ Ids(d) = 0..(Cardinality(Assigned(d)) - 1)
    /\ \A token \in Elements(d.added) :
         token.special \in {"yes", "no"} /\ (token.special = "yes" => token.id \in Elements(eos))
    /\ eos # <<>> /\ Elements(eos) \subseteq Ids(d) /\ Cardinality(Elements(eos)) = Len(eos)
    /\ \A id \in Ordinary(d, eos) : Decoded(PieceOf(d, id)) # <<>>
    /\ {<<b>> : b \in Bytes} \subseteq {Decoded(PieceOf(d, id)) : id \in Ordinary(d, eos)}

Limits == {"json_too_large", "work_limit", "too_much_output"}

(* What is imported is what a compatible document says, in whatever order it *)
(* lists its tokens; and a compatible one is refused for a limit only.       *)
ImportIsExact ==
    /\ phase = "imported" =>
         /\ Compatible(document, eos_ids)
         /\ tokens = [i \in 1..Cardinality(Ids(document)) |->
                        IF i - 1 \in Elements(eos_ids) THEN Eos
                        ELSE Decoded(PieceOf(document, i - 1))]
    /\ phase = "refused" /\ reason \notin Limits =>
         ~Compatible(document, eos_ids) \/ Cardinality(Ids(document)) > MaxVocabulary

(* Whatever a document says, its import never holds more than it may: the    *)
(* tables are no longer than a vocabulary may be, the bytes of the manifest  *)
(* are those that were paid for.                                             *)
ImportStaysInBounds ==
    /\ work <= MaxImportWork /\ decoded <= MaxDecoded
    /\ Cardinality(DOMAIN entries) <= MaxVocabulary /\ membership <= MaxVocabulary
    /\ Len(tokens) <= Cardinality(DOMAIN entries)
=============================================================================
