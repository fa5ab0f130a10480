--------------------------------- MODULE Framing ---------------------------------
(* Frames on a connection, whatever their payloads are.                            *)
(*                                                                                 *)
(* One side frames messages and hands the bytes to TCP; the bytes arrive in pieces *)
(* of any size, may be damaged, and may stop in the middle of a frame. The other   *)
(* side is a session of the coordinator, which takes every frame a read completes, *)
(* or a client, which waits for one answer at a time.                              *)
(*                                                                                 *)
(* Bytes are grouped into cells <<width, value>>, one per integer written.         *)
EXTENDS Integers, Sequences

CONSTANTS
  Messages,                  \* what may be sent: records with a type and a payload
  max_frame_bytes,           \* limits.max_frame_bytes, in cells
  max_pending_publications   \* limits.max_pending_publications

Cells == (Nat \ {0}) \X Nat
MessageTypes == 1 .. 17

\* A session that may take no frame at all serves nobody.
ASSUME FramingConstants ==
  /\ \A m \in Messages : m.type \in MessageTypes /\ m.payload \in Seq(Cells)
  /\ max_frame_bytes \in Nat
  /\ max_pending_publications \in Nat \ {0}

VARIABLES
  reader,    \* "session" or "client": who reads
  sent,      \* messages encoded and sent, in order
  stream,    \* cells on their way
  buffer,    \* FrameDecoder::buffer_
  frames,    \* every frame the decoder has completed and its caller has taken
  link,      \* "open", "refused" by the reader, "closed" by the writer, then how it ended
  damaged    \* whether a cell of the stream was damaged

framing == <<reader, sent, stream, buffer, frames, link, damaged>>

--------------------------------------------------------------------------------
(* encode_frame. Checksums are ideal: the checksum of a payload is the payload, and a *)
(* checksum that was damaged fits no payload.                                        *)

crc32(payload) == payload
NoPayload == << <<0, -1>> >>

kFrameHeaderSize == 7
kKnownFrameFlags == 0 .. 3

\* The types a coordinator dispatches; the others are its answers.
Requests == {1, 3, 5, 7, 9, 13, 16}
\* The acknowledgement flag of every answer but errors.
Flags(t) == IF t \in Requests \union {15} THEN 0 ELSE 2

Header(m) == << <<4, 4242>>, <<2, 1>>, <<2, m.type>>, <<4, Flags(m.type)>>,
                <<4, Len(m.payload)>>, <<4, crc32(m.payload)>>, <<8, 1>> >>
encode_frame(m) == Header(m) \o m.payload

\* What a frame gives back of a message.
Framed(m) == [type |-> m.type, payload |-> m.payload]

\* How many cells were sent before each message, and after the last.
Starts(messages) ==
  LET Start[k \in 1 .. Len(messages) + 1] ==
        IF k = 1 THEN 0 ELSE Start[k - 1] + kFrameHeaderSize + Len(messages[k - 1].payload)
  IN  Start

\* The cells under way that have one of the given places in their frame.
InFrames(places) ==
  {i \in DOMAIN stream : \E k \in DOMAIN sent, place \in places :
     Starts(sent)[Len(sent) + 1] - Len(stream) + i = Starts(sent)[k] + place}

--------------------------------------------------------------------------------
(* FrameDecoder::feed: what is found from a place of its buffer on. *)

HeaderValid(in, at) == /\ in[at + 1] = <<4, 4242>>
                       /\ in[at + 2] = <<2, 1>>
                       /\ in[at + 3][2] \in MessageTypes
                       /\ in[at + 4][2] \in kKnownFrameFlags
                       /\ in[at + 5][2] \in 0 .. max_frame_bytes
Length(in, at) == in[at + 5][2]
Payload(in, at) == SubSeq(in, at + kFrameHeaderSize + 1, at + kFrameHeaderSize + Length(in, at))
Frame(in, at) == [type |-> in[at + 3][2], payload |-> Payload(in, at)]

Waiting(at) == [ok |-> TRUE, frames |-> << >>, consumed |-> at]
Refusal == [ok |-> FALSE, frames |-> << >>, consumed |-> 0]

\* A turn of the loop; from says what is found from the later places on. A refusal
\* discards the frames completed before it.
Turn(in, at, from) ==
  IF Len(in) - at < kFrameHeaderSize THEN Waiting(at)
  ELSE IF ~HeaderValid(in, at) THEN Refusal
  ELSE IF Len(in) - at < kFrameHeaderSize + Length(in, at) THEN Waiting(at)
  ELSE IF crc32(Payload(in, at)) # in[at + 6][2] THEN Refusal
  ELSE LET rest == from[at + kFrameHeaderSize + Length(in, at)]
       IN  IF rest.ok THEN [ok |-> TRUE, frames |-> <<Frame(in, at)>> \o rest.frames,
                            consumed |-> rest.consumed]
           ELSE Refusal

Parsed(in) ==
  LET From[at \in 0 .. Len(in)] == Turn(in, at, From)
  IN  From

\* Mutant of Feed: no checks, and one frame at a time.
FeedUnchecked(in) ==
  IF Len(in) < kFrameHeaderSize \/ Len(in) < kFrameHeaderSize + Length(in, 0) THEN Waiting(0)
  ELSE [ok |-> TRUE, frames |-> <<Frame(in, 0)>>, consumed |-> kFrameHeaderSize + Length(in, 0)]
\* Mutant of Feed: the bound forgets the header.
FeedTight(in) == IF Len(in) > max_frame_bytes THEN Refusal ELSE Parsed(in)[0]

\* The size of the buffer with the data it would get is checked before anything is parsed.
Feed(in) == IF Len(in) > max_frame_bytes + kFrameHeaderSize THEN Refusal ELSE Parsed(in)[0]

--------------------------------------------------------------------------------
(* Actions. *)

\* send_frame: the frame is encoded and handed to the connection. The coordinator has
\* one answer under way to a client, which asks for one thing at a time.
Send(m) ==
  /\ link = "open"
  /\ Len(m.payload) <= max_frame_bytes
  /\ reader = "client" => Len(frames) = Len(sent)
  /\ sent' = Append(sent, m)
  /\ stream' = stream \o encode_frame(m)
  /\ UNCHANGED <<reader, buffer, frames, link, damaged>>

\* recv_some and FrameDecoder::feed: in read_session, which closes the session when the
\* decoder refuses or completes too many frames at once, and in receive_frame, which
\* keeps the first frame completed. What is refused leaves the frames as they were.
Taken(fed) ==
  CASE reader = "client" -> IF fed.frames = << >> THEN << >> ELSE <<fed.frames[1]>>
    [] reader = "session" -> fed.frames
Admitted(fed) == fed.ok /\ (reader = "session" => Len(fed.frames) <= max_pending_publications)
Deliver(n) ==
  /\ link \in {"open", "closed"} /\ n \in 1 .. Len(stream)
  /\ stream' = SubSeq(stream, n + 1, Len(stream))
  /\ \E in \in {buffer \o SubSeq(stream, 1, n)} : \E fed \in {Feed(in)} :
       \/ /\ Admitted(fed)
          /\ buffer' = SubSeq(in, fed.consumed + 1, Len(in))
          /\ frames' = frames \o Taken(fed)
          /\ UNCHANGED link
       \/ /\ ~Admitted(fed)
          /\ link' = "refused"
          /\ UNCHANGED <<buffer, frames>>
  /\ UNCHANGED <<reader, sent, damaged>>

\* The writer goes away and the connection loses what it had not delivered.
Close(n) ==
  /\ link = "open" /\ n \in 0 .. Len(stream)
  /\ stream' = SubSeq(stream, 1, n)
  /\ link' = "closed"
  /\ UNCHANGED <<reader, sent, buffer, frames, damaged>>

\* The reader sees the end. A client asks FrameDecoder::finish, which refuses half a
\* frame; a session does not.
End ==
  /\ link = "closed" /\ stream = << >>
  /\ link' = IF reader = "client" /\ buffer # << >> THEN "incomplete" ELSE "ended"
  /\ UNCHANGED <<reader, sent, stream, buffer, frames, damaged>>

\* The value of a cell changes on its way; not the type or the correlation of a frame,
\* which no check covers.
Damage(i, value) ==
  /\ link = "open" /\ i \in DOMAIN stream \ InFrames({3, 7})
  /\ stream' = [stream EXCEPT ![i] = <<@[1], IF i \in InFrames({6}) THEN NoPayload ELSE value>>]
  /\ damaged' = TRUE
  /\ UNCHANGED <<reader, sent, buffer, frames, link>>

FramingInit ==
  /\ reader \in {"session", "client"}
  /\ sent = << >> /\ stream = << >> /\ buffer = << >> /\ frames = << >>
  /\ link = "open" /\ damaged = FALSE

FramingNext ==
  \/ \E m \in Messages : Send(m)
  \/ \E n \in 1 .. Len(stream) : Deliver(n)
  \/ \E n \in 0 .. Len(stream) : Close(n)
  \/ End
  \/ \E i \in DOMAIN stream, value \in Nat : Damage(i, value)

FramingSpec == FramingInit /\ [][FramingNext]_framing

--------------------------------------------------------------------------------
(* Properties. *)

\* Whatever the pieces the bytes arrive in, wherever they stop and whichever covered
\* cells of them are damaged: the frames a reader takes are the first ones sent, in
\* order, with their type and payload (FrameDecoder::feed, protocol.cpp).
DeliveredIntact ==
  /\ Len(frames) <= Len(sent)
  /\ \A i \in DOMAIN frames : frames[i] = Framed(sent[i])

\* An intact connection holds nothing back: once the bytes have arrived every frame is
\* complete, and a frame an encoder was willing to send is never refused while it is the
\* only one under way, up to the largest (the bounds of encode_frame and
\* FrameDecoder::feed agree).
LegalFramesComplete ==
  ~damaged =>
    /\ link = "open" /\ stream = << >> => Len(frames) = Len(sent)
    /\ link = "refused" => Len(sent) - Len(frames) > 1

================================================================================
