---------------------------------- MODULE Wire ----------------------------------
(* Messages on a connection and the durable image on disk.                         *)
(*                                                                                 *)
(* What module Framing carries from one side to the other are payloads that the    *)
(* encoders of the messages write and the decoders of their handlers read. The     *)
(* other medium is the state file: encode_durable_state writes it, a power failure *)
(* may leave a prefix of it, decode_durable_state reads it at the next start.      *)
EXTENDS Layouts, Framing, SequencesExt

CONSTANTS
  kMessages,        \* the message types exchanged, by ordinal
  kPipelined,       \* types of which more may follow before the first is handled
  kMaxSent,         \* how many messages are sent
  kFineGrained      \* a stream of at most so many cells is cut at every place

VARIABLES
  encoded,   \* the messages, or the one image, that were encoded, in order
  file,      \* the cells of the state file
  spoiled,   \* whether the file was damaged or cut off
  taken      \* what the handlers, or the loader, made of what they were given

vars == <<framing, encoded, file, spoiled, taken>>

Image == 18       \* the durable image beside the message types 1 to 17
Writer ==
  1 :> WriteHello @@ 2 :> WriteWelcome @@ 3 :> WriteRegisterPublisher
  @@ 4 :> WritePublisherAccepted @@ 5 :> WritePublication @@ 6 :> WritePublicationAccepted
  @@ 7 :> WriteQueryRequest @@ 8 :> WriteQueryResponse @@ 9 :> WriteFencePublisher
  @@ 10 :> WriteFenceAccepted @@ 13 :> WriteShutdown @@ 15 :> WriteErrorMessage
  @@ 16 :> WriteHeartbeat @@ Image :> WriteDurableState
Reader ==
  1 :> ReadHello @@ 2 :> ReadWelcome @@ 3 :> ReadRegisterPublisher
  @@ 4 :> ReadPublisherAccepted @@ 5 :> ReadPublication @@ 6 :> ReadPublicationAccepted
  @@ 7 :> ReadQueryRequest @@ 8 :> ReadQueryResponse @@ 9 :> ReadFencePublisher
  @@ 10 :> ReadFenceAccepted @@ 13 :> ReadShutdown @@ 15 :> ReadErrorMessage
  @@ 16 :> ReadHeartbeat @@ Image :> ReadDurableState
\* Payloads that nobody decodes (snapshot request, shutdown and heartbeat
\* acknowledgement) are left out.

--------------------------------------------------------------------------------
(* The messages tried: of every type one plain message, and one for every field and  *)
(* every way it can differ: another number, a text that is empty, at its bound and    *)
(* past it, the last enumerator, a list that is empty, full and over-full, every kind *)
(* of value, and conditions and records nested up to and past the depth that is read. *)

\* n conditions and n records, one within the other.
Chain[n \in 0 .. limits.max_record_depth + 3] ==
  IF n = 0 THEN << >> ELSE <<[kind |-> 17, key |-> 0, value |-> 1, children |-> <<Chain[n - 1]>>]>>
Nested[n \in 0 .. limits.max_record_depth + 1] ==
  IF n = 0 THEN <<1, TRUE>> ELSE <<12, <<[name |-> 1, value |-> <<Nested[n - 1]>>]>>>>

RECURSIVE Plain(_)
Plain(T) ==
  CASE T[1] = "uint" -> 1
    [] T[1] = "fixed" -> T[3]
    [] T[1] = "flag" -> FALSE
    [] T[1] = "enum" -> 0
    [] T[1] \in {"str", "token"} -> 1
    [] T[1] = "many" -> <<Plain(T[3])>>
    [] T[1] \in {"maybe", "marked"} -> <<Plain(T[2])>>
    [] T[1] = "struct" ->
         [f \in {T[2][i][1] : i \in DOMAIN T[2]} |->
            Plain(T[2][CHOOSE i \in DOMAIN T[2] : T[2][i][1] = f][2])]
    [] T[1] = "choice" -> <<1, Plain(T[2][1])>>
    [] T[1] = "condition" -> << >>
    [] T[1] = "value" -> <<0, << >>>>

\* The values of T that differ from the plain one in one place. With foreign, the places
\* are the ordinals, raised past the last enumerator the code knows.
RECURSIVE Varied(_, _)
Varied(T, foreign) ==
  CASE T[1] = "uint" -> IF foreign THEN {} ELSE {2}
    [] T[1] = "fixed" -> IF foreign /\ T[3] # 0 THEN {T[3] + 1} ELSE {}
    [] T[1] = "flag" -> IF foreign THEN {} ELSE {TRUE}
    [] T[1] = "enum" -> IF foreign THEN {T[2] + 1} ELSE {T[2]}
    [] T[1] = "str" -> IF foreign THEN {} ELSE {0, T[2], T[2] + 1}
    [] T[1] = "token" -> IF foreign THEN {} ELSE {0, T[2]}
    [] T[1] = "many" ->
         {<<v>> : v \in Varied(T[3], foreign)}
         \union (IF foreign THEN {} ELSE {[i \in 1 .. n |-> Plain(T[3])] : n \in {0, T[2], T[2] + 1}})
    [] T[1] \in {"maybe", "marked"} ->
         {<<v>> : v \in Varied(T[2], foreign)} \union (IF foreign THEN {} ELSE {<< >>})
    [] T[1] = "struct" ->
         UNION {{[Plain(T) EXCEPT ![T[2][i][1]] = v] : v \in Varied(T[2][i][2], foreign)} :
                i \in DOMAIN T[2]}
    [] T[1] = "choice" ->
         UNION {{<<k, v>> : v \in Varied(T[2][k], foreign)
                                  \union (IF foreign THEN {} ELSE {Plain(T[2][k])})} :
                k \in DOMAIN T[2]}
    [] T[1] = "condition" ->
         IF T[2] > 1 THEN {}
         ELSE {<<v>> : v \in Varied(WriteConditionNode(1), foreign)}
              \union (IF foreign THEN {} ELSE {Chain[n] : n \in DOMAIN Chain})
    [] T[1] = "value" ->
         IF T[2] > 1 THEN {}
         ELSE UNION {{<<k, v>> : v \in Varied(WriteValueBody(k, 1), foreign)
                                       \union (IF foreign THEN {} ELSE {Plain(WriteValueBody(k, 1))})} :
                     k \in 0 .. 14}
              \union (IF foreign THEN {}
                      ELSE {Nested[n] : n \in DOMAIN Nested} \union {<<14, Chain[n]>> : n \in DOMAIN Chain})

PlainOf == [t \in kMessages |-> Plain(Writer[t])]
Whole == [t \in kMessages |-> {PlainOf[t]} \union Varied(Writer[t], FALSE)]
Foreign == [t \in kMessages |-> Varied(Writer[t], TRUE)]

\* No text and no list of v is longer than what is written of it.
RECURSIVE Fits(_, _)
Fits(T, v) == /\ T[1] = "str" => v <= T[2]
              /\ T[1] = "many" => Len(v) <= T[2]
              /\ LET parts == Parts(T, v)
                 IN  \A i \in DOMAIN parts : Fits(parts[i][1], parts[i][2])
RECURSIVE WithinDepth(_, _)
WithinDepth(T, v) ==
  /\ ~TooDeep(T) \/ (T[1] = "condition" /\ v = << >>)
  /\ LET parts == Parts(T, v)
     IN  \A i \in DOMAIN parts : WithinDepth(parts[i][1], parts[i][2])

--------------------------------------------------------------------------------
(* Encoders. *)

\* encode_publication, encode_query_response and encode_durable_state refuse a clamped
\* text; the other encoders do not look.
Guarded == {5, 8, Image}
Encodable(t, v) ==
  LET size == Len(Write(Writer[t], v))
  IN  /\ t \in Guarded => ~Truncated(Writer[t], v)
      /\ IF t = Image THEN size + 6 <= limits.max_persistence_bytes
                      ELSE size <= max_frame_bytes

kStatePrefixSize == 6
encode_image(payload, digest) ==
  << <<4, 5353>>, <<2, 1>>, <<2, 0>>, <<4, Len(payload)>>, <<4, crc32(payload)>>, <<8, digest>> >>
  \o payload

\* A payload as it is written, one cell short (a peer whose structure lacks a field) or
\* one cell long.
Shaped(shape, payload) ==
  CASE shape = "whole" -> payload
    [] shape = "short" -> Front(payload)
    [] shape = "long" -> Append(payload, <<1, 0>>)

Message(t, v, shape, foreign) ==
  [type |-> t, value |-> v, shape |-> shape, foreign |-> foreign,
   payload |-> Shaped(shape, Write(Writer[t], v))]

\* What is sent and saved: of every type the whole messages, those of a peer that knows
\* more enumerators, and the plain one with a cell too few or too many.
Offered ==
  [t \in kMessages |->
     {Message(t, v, "whole", FALSE) : v \in Whole[t]}
     \union {Message(t, v, "whole", TRUE) : v \in Foreign[t]}
     \union {Message(t, PlainOf[t], shape, FALSE) : shape \in {"short", "long"}}]

PlainMessage(m) == m.shape = "whole" /\ m.value = PlainOf[m.type]

Tried == UNION {{Framed(m) : m \in Offered[t]} : t \in kMessages \ {Image}}

--------------------------------------------------------------------------------
(* Actions. *)

\* Coordinators send answers to clients, and clients requests to the coordinator.
SendMessage(m) ==
  /\ file = << >>
  /\ reader = IF m.type \in Requests THEN "session" ELSE "client"
  /\ Encodable(m.type, m.value)
  /\ Send(Framed(m))
  /\ encoded' = Append(encoded, m)
  /\ UNCHANGED <<file, spoiled, taken>>

SendFirst ==
  encoded = << >> /\ \E t \in kMessages \ {Image} : \E m \in Offered[t] : SendMessage(m)

SendNext ==
  /\ Len(encoded) \in 1 .. kMaxSent - 1
  /\ encoded[1].type \in kPipelined /\ encoded[1].shape = "whole" /\ ~damaged
  /\ \E t \in kPipelined : \E m \in Offered[t] : PlainMessage(m) /\ SendMessage(m)

\* Where a read may end. A long stream is cut in the header, in the payload, or not at all.
Cuts == IF Len(stream) <= kFineGrained THEN 1 .. Len(stream)
        ELSE {Len(stream)} \union (IF buffer = << >> THEN {3, Len(stream) - 1} ELSE {})

Arrive(n) == n \in Cuts /\ Deliver(n) /\ UNCHANGED <<encoded, file, spoiled, taken>>

\* The handler of the message decodes the payload.
Dispatch ==
  /\ Len(taken) < Len(frames)
  /\ LET f == frames[Len(taken) + 1]
     IN  taken' = Append(taken, Decode(Reader[f.type], f.payload))
  /\ UNCHANGED <<framing, encoded, file, spoiled>>

\* Connections are cut and damaged under plain messages; every other one arrives whole.
Probed == sent # << >> /\ PlainMessage(encoded[1]) /\ Len(stream) <= kFineGrained

Break(n) == Probed /\ Close(n) /\ UNCHANGED <<encoded, file, spoiled, taken>>
Finish == End /\ UNCHANGED <<encoded, file, spoiled, taken>>

\* One cell goes bad before any of the stream is read.
Corrupt(i) ==
  /\ Probed /\ ~damaged /\ buffer = << >> /\ frames = << >>
  /\ \E by \in {1, 4} : Damage(i, IF i \in InFrames({6}) THEN 0 ELSE stream[i][2] + by)
  /\ UNCHANGED <<encoded, file, spoiled, taken>>

\* FileStateStore::save: the image replaces the state file.
Save(m) ==
  /\ encoded = << >> /\ reader = "session"
  /\ m.shape = "whole" /\ Encodable(Image, m.value)
  /\ encoded' = <<m>>
  /\ file' = encode_image(m.payload, m.value.canonical_digest)
  /\ UNCHANGED <<framing, spoiled, taken>>

\* A cell that went bad. A bad checksum fits no payload, see crc32.
Bad(cell, checksum) == <<cell[1], IF checksum THEN NoPayload ELSE cell[2] + 1>>

\* A power failure leaves part of the file (save does not sync it), or a cell goes bad.
Spoil ==
  /\ file # << >> /\ PlainMessage(encoded[1]) /\ taken = << >> /\ ~spoiled
  /\ \/ \E n \in 0 .. Len(file) - 1 : file' = SubSeq(file, 1, n)
     \/ \E i \in DOMAIN file : file' = [file EXCEPT ![i] = Bad(@, i = 5)]
  /\ spoiled' = TRUE
  /\ UNCHANGED <<framing, encoded, taken>>

\* decode_durable_state: the prefix, then the payload.
PrefixValid(in) ==
  /\ Len(in) >= kStatePrefixSize
  /\ in[1][2] = 5353 /\ in[2][2] = 1 /\ in[3][2] = 0
  /\ in[4][2] = Len(in) - kStatePrefixSize
  /\ crc32(SubSeq(in, kStatePrefixSize + 1, Len(in))) = in[5][2]
  /\ Len(in) <= limits.max_persistence_bytes
\* A loader that looks at neither the prefix nor the checksum.
DecodedTrusting(in) ==
  IF Len(in) < kStatePrefixSize THEN [ok |-> FALSE, value |-> << >>]
  ELSE Decode(Reader[Image], SubSeq(in, kStatePrefixSize + 1, Len(in)))
DecodedImage(in) ==
  LET state == Decode(Reader[Image], SubSeq(in, kStatePrefixSize + 1, Len(in)))
  IN  IF PrefixValid(in) /\ state.ok /\ (in[6][2] = 0 \/ in[6][2] = state.value.canonical_digest)
      THEN state ELSE [ok |-> FALSE, value |-> << >>]
Load ==
  /\ encoded # << >> /\ sent = << >> /\ taken = << >>
  /\ taken' = <<DecodedImage(file)>>
  /\ UNCHANGED <<framing, encoded, file, spoiled>>

Init == FramingInit /\ encoded = << >> /\ file = << >> /\ spoiled = FALSE /\ taken = << >>

Next ==
  \/ SendFirst \/ SendNext
  \/ \E n \in Cuts : Arrive(n)
  \/ Dispatch
  \/ \E n \in 0 .. Len(stream) : Break(n)
  \/ Finish
  \/ \E i \in DOMAIN stream : Corrupt(i)
  \/ \E m \in Offered[Image] : Save(m)
  \/ Spoil
  \/ Load

Spec == Init /\ [][Next]_vars

--------------------------------------------------------------------------------
(* Properties. *)

\* What a handler or the loader decodes is what was encoded, for every field of every
\* message and of the image, up to every bound; and what an encoder cut at a bound is
\* still read to the end (codec.cpp: every reader against its writer). Nesting past what
\* the readers take is excepted.
ReadAsWritten ==
  \A i \in DOMAIN taken :
    LET m == encoded[i]
        T == Writer[m.type]
    IN  m.shape = "whole" /\ ~m.foreign /\ ~damaged /\ ~spoiled /\ WithinDepth(T, m.value) =>
          taken[i].ok /\ (Fits(T, m.value) => taken[i].value = m.value)

\* A decoder takes nothing but whole messages of its own version: a payload with a field
\* missing or bytes left over, and an enumerator it does not know, are refused in every
\* message (README.md:336, "trailing bytes, unknown enumerations"). The staleness flags of
\* two answers, a bit set that is cast unchecked, are a number here.
StrictDecoding ==
  \A i \in DOMAIN taken : encoded[i].shape # "whole" \/ encoded[i].foreign => ~taken[i].ok

\* encode_publication's comment: "A field that would have to be truncated is refused
\* outright: the registry never receives silently shortened data."  The code does not keep
\* it: README, section 3.
NeverShortened ==
  \A i \in DOMAIN taken :
    encoded[i].type = 5 /\ encoded[i].shape = "whole" /\ ~damaged /\ taken[i].ok =>
      taken[i].value = encoded[i].value

\* A state file cut short or damaged anywhere is refused or read as it was saved, never
\* as another state (decode_durable_state).
ImageIntact ==
  spoiled => \A i \in DOMAIN taken : taken[i].ok => taken[i].value = encoded[i].value

================================================================================
