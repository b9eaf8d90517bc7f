------------------------------- MODULE Wire -------------------------------
(***************************************************************************)
(* A message on its way from one node to another: a struct as SSZ bytes, a *)
(* gossip message, an RPC request or an RPC response                       *)
(* (network/messages/src/codec.rs and lib.rs, libp2p-rpc/src/protocol.rs). *)
(* A request or a response crosses a substream, whose bytes reach the      *)
(* reader in pieces of any length; after each piece Framed calls the       *)
(* codec's decode on what has been read and not yet consumed.              *)
(***************************************************************************)
EXTENDS BeaconTypes

CONSTANTS
  Bodies(_),   \* the values of a type that are sent
  ErrorCodes   \* codes other than zero that a response may carry

VARIABLES
  sent,      \* what is sent, with the way it goes
  bytes,     \* its encoding
  unread,    \* the bytes of a substream that are still to be read
  src,       \* the bytes read and not yet consumed by the codec
  uvi,       \* the length UviBytes has read of a frame not yet complete
  reads,     \* number of pieces read, counted up to two
  outcome    \* what the reader hands up

vars == <<sent, bytes, unread, src, uvi, reads, outcome>>

-----------------------------------------------------------------------------
\* Outcomes of a reader.

Waiting == [kind |-> "waiting"]

Item(typ, code, body) ==
  [kind |-> "item", typ |-> typ, code |-> code, body |-> body]

Failed(error) == [kind |-> IF error = "panic" THEN "panic" ELSE "error"]

HandUp(typ, code, result) ==
  IF result.ok THEN Item(typ, code, result.value) ELSE Failed(result.error)

-----------------------------------------------------------------------------
\* UviBytes: a frame is its length, seven bits to a byte with the high bit
\* set on all but the last, and its bytes.

NoLen == -1

MaxFrame == 2^27

UviEncode(payload) ==
  LET n == Len(payload)
  IN  (IF n < 128 THEN <<n>> ELSE <<128 + (n % 128), n \div 128>>) \o payload

\* Takes a frame off the buffer when it is all there.  A length is kept
\* between calls once it has been read.
UviDecode(buffer, len) ==
  LET ends == {i \in DOMAIN buffer : buffer[i] < 128}
      n == IF len = NoLen THEN Min(ends) ELSE 0
      size == IF len # NoLen THEN len
              ELSE IF n > 4 THEN MaxFrame + 1
              ELSE MapThenSumSet(LAMBDA i : (buffer[i] % 128) * 128^(i - 1), 1..n)
      rest == SubSeq(buffer, n + 1, Len(buffer))
  IN  IF len = NoLen /\ ends = {}
      THEN [frame |-> <<>>, src |-> buffer, uvi |-> len, refused |-> FALSE]
      ELSE IF size > Len(rest)
      THEN [frame |-> <<>>, src |-> rest, uvi |-> size, refused |-> size > MaxFrame]
      ELSE [frame |-> <<SubSeq(rest, 1, size)>>, uvi |-> NoLen,
            src |-> SubSeq(rest, size + 1, Len(rest)), refused |-> FALSE]

\* A decoder's answer: what it hands up, and the state it leaves.
Answer(result, read) == [outcome |-> result, src |-> read.src, uvi |-> read.uvi]

-----------------------------------------------------------------------------
\* Requests: OutboundCodec::encode and InboundCodec::decode.

RequestType(typ) ==
  CASE typ = "Hello" -> HelloMessage
    [] typ = "Goodbye" -> Uint
    [] typ = "BeaconBlocks" -> BeaconBlocksRequest
    [] typ = "RecentBeaconBlocks" -> RecentBeaconBlocksRequest

\* GoodbyeReason from a number: the reasons are 1..3, and 0 for any other.
GoodbyeReason(id) == IF id \in 1..3 THEN id ELSE 0

EncodeRequest(request) ==
  UviEncode(Encode(RequestType(request.typ), request.body))

\* Faulty variant: a new UviBytes for every call, which forgets a length it has read.
DecodeRequestAnew(typ, buffer, len) ==
  LET read == UviDecode(buffer, NoLen)
  IN  IF read.frame = <<>> \/ read.refused THEN Answer(Waiting, read)
      ELSE Answer(HandUp(typ, 0, Decode(RequestType(typ), read.frame[1])), read)

\* Hands up the request once its whole frame is there.
DecodeRequest(typ, buffer, len) ==
  LET read == UviDecode(buffer, len)
      result == Decode(RequestType(typ), read.frame[1])
  IN  IF read.refused THEN Answer(Failed("len > max"), read)
      ELSE IF read.frame = <<>> THEN Answer(Waiting, read)
      ELSE IF typ = "Goodbye" /\ result.ok
      THEN Answer(Item(typ, 0, GoodbyeReason(result.value)), read)
      ELSE Answer(HandUp(typ, 0, result), read)

-----------------------------------------------------------------------------
\* Responses: InboundCodec::encode and OutboundCodec::decode.

BlockTypes == {"BeaconBlocks", "RecentBeaconBlocks"}

\* A code byte, then one frame; the blocks are one list in it.
EncodeResponse(response) ==
  <<response.code>>
  \o UviEncode(IF response.typ = "Unknown" THEN response.body
               ELSE IF response.typ = "Hello"
               THEN Encode(HelloMessage, response.body)
               ELSE Encode(Vec(BeaconBlock), response.body))


\* The code byte is consumed on every call, also when its frame is not yet
\* complete and decode is to be called again.
DecodeOne(typ, buffer, len) ==
  LET code == Head(buffer)
      read == UviDecode(Tail(buffer), len)
  IN  IF read.refused THEN Answer(Failed("len > max"), read)
      ELSE IF read.frame = <<>> THEN Answer(Waiting, read)
      ELSE IF typ = "Hello" /\ code = 0
      THEN Answer(HandUp(typ, 0, Decode(HelloMessage, read.frame[1])), read)
      ELSE Answer(Item("Unknown", code, read.frame[1]), read)

\* Blocks, one to a frame, until the buffer is empty, a code is not zero or a
\* frame is incomplete.
RECURSIVE DecodeBlocks(_, _, _, _)
DecodeBlocks(typ, buffer, len, result) ==
  LET read == UviDecode(Tail(buffer), len)
      block == Decode(BeaconBlock, read.frame[1])
      here == [src |-> buffer, uvi |-> len]
  IN  IF buffer = <<>> THEN Answer(Item(typ, 0, result), here)
      ELSE IF Head(buffer) # 0
      THEN Answer(Item(typ, 0, result), [here EXCEPT !.src = Tail(buffer)])
      ELSE IF read.refused THEN Answer(Failed("len > max"), read)
      ELSE IF read.frame = <<>> THEN Answer(Item(typ, 0, result), read)
      ELSE IF ~block.ok THEN Answer(Failed(block.error), read)
      ELSE DecodeBlocks(typ, read.src, read.uvi, Append(result, block.value))

DecodeResponse(typ, buffer, len) ==
  IF buffer = <<>> THEN Answer(Waiting, [src |-> buffer, uvi |-> len])
  ELSE IF typ \in BlockTypes THEN DecodeBlocks(typ, buffer, len, <<>>)
  ELSE DecodeOne(typ, buffer, len)

-----------------------------------------------------------------------------
\* Gossip: PubsubMessage::ssz_data under the topic of its type, and
\* from_ssz_data for the type of the topic.

PubsubTypes ==
  [Block |-> BeaconBlock, Attestation |-> Attestation,
   VoluntaryExit |-> VoluntaryExit, ProposerSlashing |-> ProposerSlashing,
   AttesterSlashing |-> AttesterSlashing]

gossipsub_topic ==
  [Block |-> "beacon_block", Attestation |-> "beacon_attestation",
   VoluntaryExit |-> "voluntary_exit", ProposerSlashing |-> "proposer_slashing",
   AttesterSlashing |-> "attester_slashing"]

from_gossipsub_topic(topic) ==
  CHOOSE typ \in DOMAIN PubsubTypes : gossipsub_topic[typ] = topic

-----------------------------------------------------------------------------
\* Sending: the codec writes the whole message to the substream.

RPCTypes == {"Hello", "Goodbye", "BeaconBlocks", "RecentBeaconBlocks"}

Reasons == 0..3

\* What a node sends: structs, gossip messages, requests, the answers of the
\* node, and the answers with another code that other implementations give.
Sent(way, protocol, typ, code, body) ==
  [way |-> way, protocol |-> protocol, typ |-> typ, code |-> code, body |-> body]

Sending ==
  \/ \E t \in Structs : \E body \in Bodies(t) :
       sent = Sent("value", t, "value", 0, body)
  \/ \E typ \in DOMAIN PubsubTypes : \E body \in Bodies(PubsubTypes[typ]) :
       sent = Sent("gossip", typ, typ, 0, body)
  \/ \E typ \in RPCTypes :
     \E body \in IF typ = "Goodbye" THEN Reasons ELSE Bodies(RequestType(typ)) :
       sent = Sent("request", typ, typ, 0, body)
  \/ \E body \in Bodies(HelloMessage) : sent = Sent("response", "Hello", "Hello", 0, body)
  \/ \E typ \in BlockTypes : \E body \in Bodies(Vec(BeaconBlock)) :
       sent = Sent("response", typ, typ, 0, body)
  \/ \E typ \in RPCTypes, code \in ErrorCodes : \E body \in Bodies(Vec(UintOf(1))) :
       sent = Sent("response", typ, "Unknown", code, body)

Encoded(s) ==
  CASE s.way = "value" -> Encode(s.protocol, s.body)
    [] s.way = "gossip" -> Encode(PubsubTypes[s.typ], s.body)
    [] s.way = "request" -> EncodeRequest(s)
    [] s.way = "response" -> EncodeResponse(s)

Init ==
  /\ Sending
  /\ bytes = Encoded(sent)
  /\ unread = bytes
  /\ src = <<>> /\ uvi = NoLen /\ reads = 0
  /\ outcome = Waiting

-----------------------------------------------------------------------------
\* A struct and a gossip message are decoded from all their bytes at once.

decode ==
  /\ sent.way = "value" /\ outcome = Waiting
  /\ outcome' = HandUp("value", 0, Decode(sent.protocol, bytes))
  /\ unread' = <<>>
  /\ UNCHANGED <<sent, bytes, src, uvi, reads>>

from_ssz_data ==
  /\ sent.way = "gossip" /\ outcome = Waiting
  /\ LET typ == from_gossipsub_topic(gossipsub_topic[sent.typ])
     IN  outcome' = HandUp(typ, 0, Decode(PubsubTypes[typ], bytes))
  /\ unread' = <<>>
  /\ UNCHANGED <<sent, bytes, src, uvi, reads>>

-----------------------------------------------------------------------------
\* Framed over a substream.

Streamed == sent.way \in {"request", "response"}

\* Framed calls the codec of the protocol the substream was opened for.
CodecDecode(buffer) ==
  IF sent.way = "request" THEN DecodeRequest(sent.protocol, buffer, uvi)
  ELSE DecodeResponse(sent.protocol, buffer, uvi)

\* The next piece arrives and is decoded.
poll_read(n) ==
  /\ Streamed /\ outcome = Waiting
  /\ \E answer \in {CodecDecode(src \o SubSeq(unread, 1, n))} :
       /\ outcome' = answer.outcome
       /\ src' = answer.src
       /\ uvi' = answer.uvi
  /\ unread' = SubSeq(unread, n + 1, Len(unread))
  /\ reads' = Min({reads + 1, 2})
  /\ UNCHANGED <<sent, bytes>>

\* The peer closes the substream, whether or not all of it was read: the rest
\* is decoded once more, and what then remains is an error.
poll_eof ==
  /\ Streamed /\ outcome = Waiting
  /\ \E answer \in {CodecDecode(src)} :
       /\ outcome' = IF answer.outcome # Waiting THEN answer.outcome
                     ELSE IF answer.src = <<>> THEN [kind |-> "ended"]
                     ELSE Failed("bytes remaining on stream")
       /\ src' = answer.src
       /\ uvi' = answer.uvi
  /\ UNCHANGED <<sent, bytes, unread, reads>>

\* REQUEST_TIMEOUT of the inbound upgrade, or the handler's own for a
\* response.
timeout ==
  /\ Streamed /\ outcome = Waiting
  /\ outcome' = [kind |-> "timeout"]
  /\ UNCHANGED <<sent, bytes, unread, src, uvi, reads>>

Next ==
  \/ decode
  \/ from_ssz_data
  \/ \E n \in 1..Len(unread) : poll_read(n)
  \/ poll_eof
  \/ timeout

Spec == Init /\ [][Next]_vars

-----------------------------------------------------------------------------
\* Properties.

HandedUp == outcome.kind = "item"

HandsUpSent ==
  /\ HandedUp
  /\ outcome.typ = sent.typ /\ outcome.code = sent.code
  /\ outcome.body = sent.body

\* Every struct of the chain and every gossip message survives the wire: the
\* derived Decode, cutting fixed fields out by their sizes and variable ones
\* by the offsets Series::encode wrote, gives back the value that was encoded.
ValuesSurvive ==
  sent.way \in {"value", "gossip"} /\ outcome # Waiting => HandsUpSent

\* The size a type declares is the number of bytes its values take, for every
\* struct the code has: derive(Codec) adds up the plain sizes of the fields,
\* Decode cuts at the compact ones, and a list of structs is cut by the former.
SizesAgree ==
  sent.way = "value" /\ IsFixed(sent.protocol)
    => Len(bytes) = Size(sent.protocol)

\* However its bytes are split, a request is handed up as it was sent, at the
\* moment its last byte is read and never before.
RequestIntact ==
  sent.way = "request" =>
    /\ HandedUp <=> unread = <<>>
    /\ HandedUp => HandsUpSent

=============================================================================
