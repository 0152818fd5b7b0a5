----------------------------- MODULE ReadFrame -----------------------------
(***************************************************************************)
(* read_frame of source.cc: the phone's byte stream is cut into packets    *)
(* for the decoder.  A message is a header (timestamp and length) and a    *)
(* body.  A message without timestamp is a codec configuration, which the  *)
(* next frame carries in front of it.  Bodies go into recycled buffers.    *)
(*                                                                         *)
(* A byte is known by its position in the stream, so what a buffer holds   *)
(* is a sequence of positions.  Any recv may come back short: the peer     *)
(* closed, or nothing came for 5 seconds.  Memory is there when asked for. *)
(***************************************************************************)
EXTENDS Naturals, Sequences

CONSTANTS HeaderSize,    \* HEADER_SIZE (12)
          MaxConfig,     \* MAXCONFIG (1024)
          MaxPacket,     \* MAXPACKET (16 MiB)
          Lens,          \* lengths that occur in headers
          MaxMessages    \* bound: messages the phone sends on the connection

ASSUME HeaderSizeAssumption == HeaderSize \in Nat \ {0}
ASSUME LimitsAssumption == MaxConfig \in Nat /\ MaxPacket \in Nat
ASSUME LensAssumption == Lens \subseteq Nat
ASSUME MaxMessagesAssumption == MaxMessages \in Nat

Headers == [config : BOOLEAN, len : Lens]

VARIABLES sent,          \* the messages the phone has sent, headers with a start
          pos,           \* bytes of the stream received so far
          pc,            \* what is received next; "closed" after a NULL
          header,        \* pts (whether it is NO_PTS) and len
          config,        \* config[0 .. config_len - 1]
          buffer,        \* data of the data_packet in hand, size long
          free,          \* buffers of the packets in recieveQueue
          busy,          \* buffers of the packets on their way through the decoder
          read,          \* history: headers read
          delivered      \* history: packets returned, used bytes of each

vars == <<sent, pos, pc, header, config, buffer, free, busy, read, delivered>>

Init == /\ sent = <<>> /\ pos = 0
        /\ pc = "header"
        /\ header = [config |-> FALSE, len |-> 0]
        /\ config = <<>> /\ buffer = <<>>
        /\ free = <<>> /\ busy = <<>>
        /\ read = 0 /\ delivered = <<>>
-----------------------------------------------------------------------------
BodyStart(i) == sent[i].start + HeaderSize

End(i) == IF i = 0 THEN 0 ELSE BodyStart(i) + sent[i].len

\* The app sends its next message.
Send(h) == /\ Len(sent) < MaxMessages
           /\ sent' = Append(sent, [config |-> h.config, len |-> h.len,
                                    start |-> End(Len(sent))])
           /\ UNCHANGED <<pos, pc, header, config, buffer, free, busy, read, delivered>>

\* The n bytes after position p.
Bytes(p, n) == [k \in 1..n |-> p + k]

\* net_recv_all succeeds: recv with MSG_WAITALL returns when all is there.
recv_all(n) == /\ pos + n <= End(Len(sent))
               /\ pos' = pos + n

\* What buffer_read64be and buffer_read32be make of the bytes at the current
\* position: a header where one begins, anything elsewhere.
HeadersHere ==
  LET begun == {i \in 1..Len(sent) : sent[i].start = pos}
  IN IF begun = {} THEN Headers
     ELSE {[config |-> sent[i].config, len |-> sent[i].len] : i \in begun}

\* Empty or too large, a second configuration, one that is too large.
Rejects(h) == \/ h.len = 0 \/ h.len > MaxPacket
              \/ h.config /\ (config # <<>> \/ h.len > MaxConfig)

RecvHeader(h) == /\ pc = "header"
                 /\ recv_all(HeaderSize)
                 /\ h \in HeadersHere
                 /\ header' = h
                 /\ read' = read + 1
                 /\ UNCHANGED <<sent, config, delivered, busy>>

HeaderRejected(h) == /\ RecvHeader(h) /\ Rejects(h)
                     /\ pc' = "closed"
                     /\ UNCHANGED <<buffer, free>>

HeaderOfConfig(h) == /\ RecvHeader(h) /\ ~Rejects(h) /\ h.config
                     /\ pc' = "config"
                     /\ UNCHANGED <<buffer, free>>

\* DataPacket::resize; the bytes gained are whatever was in memory.
resize(data, size) == IF Len(data) < size
                      THEN data \o [k \in 1..(size - Len(data)) |-> 0]
                      ELSE data

\* memcpy or recv of bytes into data from offset on.
Store(data, offset, bytes) ==
  [k \in 1..Len(data) |-> IF k \in (offset + 1)..(offset + Len(bytes))
                          THEN bytes[k - offset] ELSE data[k]]

\* Mutant: a recycled packet is made large enough for the frame only.
pull_small(len) == IF free = <<>> THEN resize(<<>>, Len(config) + len)
                   ELSE resize(Head(free), len)

\* pull_empty_packet(config_len + len)
pull_empty_packet(len) == IF free = <<>> THEN resize(<<>>, Len(config) + len)
                          ELSE resize(Head(free), Len(config) + len)

HeaderOfFrame(h) == /\ RecvHeader(h) /\ ~Rejects(h) /\ ~h.config
                    /\ pc' = "body"
                    /\ buffer' = Store(pull_empty_packet(h.len), 0, config)
                    /\ free' = (IF free = <<>> THEN free ELSE Tail(free))

RecvConfig == /\ pc = "config"
              /\ recv_all(header.len)
              /\ config' = Bytes(pos, header.len)
              /\ pc' = "header"
              /\ UNCHANGED <<sent, header, buffer, free, busy, read, delivered>>

\* Mutant: config_len survives the call.
RecvBodyKeepsConfig ==
  /\ pc = "body"
  /\ recv_all(header.len)
  /\ LET filled == Store(buffer, Len(config), Bytes(pos, header.len))
     IN /\ busy' = Append(busy, filled)
        /\ delivered' = Append(delivered,
             [from |-> read, bytes |-> SubSeq(filled, 1, Len(config) + header.len)])
  /\ buffer' = <<>>
  /\ pc' = "header"
  /\ UNCHANGED <<sent, header, config, free, read>>

\* The packet is returned to recv_video_frame, and read_frame called again.
RecvBody == /\ pc = "body"
            /\ recv_all(header.len)
            /\ LET filled == Store(buffer, Len(config), Bytes(pos, header.len))
               IN /\ busy' = Append(busy, filled)
                  /\ delivered' = Append(delivered,
                       [from |-> read,
                        bytes |-> SubSeq(filled, 1, Len(config) + header.len)])
            /\ config' = <<>> /\ buffer' = <<>>
            /\ pc' = "header"
            /\ UNCHANGED <<sent, header, free, read>>

Wanted == IF pc = "header" THEN HeaderSize ELSE header.len

\* Mutant: a short read is tried again from the start.
RecvShortRetried ==
  /\ pc \in {"header", "config", "body"}
  /\ \E k \in 0..(Wanted - 1) : pos + k <= End(Len(sent)) /\ pos' = pos + k
  /\ UNCHANGED <<sent, pc, header, config, buffer, free, busy, read, delivered>>

\* Timeout or error: the caller closes the connection.
RecvShort == /\ pc \in {"header", "config", "body"}
             /\ \E k \in 0..(Wanted - 1) : pos + k <= End(Len(sent)) /\ pos' = pos + k
             /\ free' = (IF pc = "body" THEN Append(free, buffer) ELSE free)
             /\ buffer' = <<>>
             /\ pc' = "closed"
             /\ UNCHANGED <<sent, header, config, busy, read, delivered>>

\* The decoder is done with a packet (the rest of source.cc).
Recycle == /\ busy # <<>>
           /\ free' = Append(free, Head(busy)) /\ busy' = Tail(busy)
           /\ UNCHANGED <<sent, pos, pc, header, config, buffer, read, delivered>>

read_frame == \/ \E h \in Headers : HeaderRejected(h) \/ HeaderOfConfig(h) \/ HeaderOfFrame(h)
              \/ RecvConfig \/ RecvBody \/ RecvShort

Closed == pc = "closed" /\ UNCHANGED vars

Next == read_frame \/ Recycle \/ Closed \/ \E h \in Headers : Send(h)

Spec == Init /\ [][Next]_vars

\* recv returns: with the bytes, or short after 5 seconds.
FairSpec == Spec /\ WF_vars(read_frame)
-----------------------------------------------------------------------------
Body(i) == Bytes(BodyStart(i), sent[i].len)

\* The configuration sent just before the i-th message, if any.
ConfigBefore(i) == IF i > 1 /\ sent[i - 1].config THEN Body(i - 1) ELSE <<>>

\* What the decoder should get for the i-th message, a frame.
Expected(i) == ConfigBefore(i) \o Body(i)

Frames == {i \in 1..Len(sent) : ~sent[i].config}

(* Every packet handed to the decoder is one frame of the phone, whole and *)
(* exact, with the configuration sent just before it in front and nothing  *)
(* of what its recycled buffer held earlier; frames come in order and none *)
(* is skipped.                                                             *)
FramesIntact ==
  \A k \in 1..Len(delivered) :
    /\ delivered[k].from \in Frames
    /\ delivered[k].bytes = Expected(delivered[k].from)
    /\ \A i \in Frames : i < delivered[k].from
                           <=> \E j \in 1..(k - 1) : delivered[j].from = i

(* A frame and its configuration fit into the buffer they are received     *)
(* into, also when the buffer is a recycled smaller one; a configuration   *)
(* fits into config.                                                       *)
InBounds == /\ pc = "body" => Len(config) + header.len <= Len(buffer)
            /\ Len(config) <= MaxConfig

(* Every frame that was sent is handed over, or the connection is given up *)
(* (to be made anew).                                                      *)
FramesArrive == \A i \in 1..MaxMessages :
  i \in Frames ~> (pc = "closed" \/ \E k \in 1..Len(delivered) : delivered[k].from = i)
-----------------------------------------------------------------------------
(* Every variable has its type.                                            *)
TypeOK ==
  /\ sent \in Seq([config : BOOLEAN, len : Lens, start : Nat])
  /\ pos \in Nat /\ read \in 0..Len(sent)
  /\ pc \in {"header", "config", "body", "closed"}
  /\ header \in [config : BOOLEAN, len : Nat]
  /\ config \in Seq(Nat) /\ buffer \in Seq(Nat)
  /\ free \in Seq(Seq(Nat)) /\ busy \in Seq(Seq(Nat))
  /\ delivered \in Seq([from : Nat, bytes : Seq(Nat)])

\* Messages follow each other without gaps or overlaps.
Chained == \A i \in 1..Len(sent) :
  /\ sent[i].start = End(i - 1)
  /\ \A j \in 1..(i - 1) : End(j) <= sent[i].start

\* The reader is where it thinks it is.
Aligned ==
  /\ pc = "header" => pos = End(read) /\ config = ConfigBefore(read + 1)
  /\ pc \in {"config", "body"} =>
       /\ read > 0 /\ pos = BodyStart(read)
       /\ header = [config |-> sent[read].config, len |-> sent[read].len]
       /\ header.config <=> pc = "config"
  /\ pc = "config" => config = <<>> /\ header.len <= MaxConfig
  /\ pc = "body" => config = ConfigBefore(read)

\* The configuration is in front of the buffer.
Prefixed == pc = "body" => \A k \in 1..Len(config) : buffer[k] = config[k]

\* Every frame up to the one being received was handed over.
AllDelivered == \A i \in Frames :
  /\ pc \in {"header", "config"} =>
       (i <= read <=> \E k \in 1..Len(delivered) : delivered[k].from = i)
  /\ pc = "body" => (i < read <=> \E k \in 1..Len(delivered) : delivered[k].from = i)

(* The inductive invariant of read_frame.                                  *)
IInv == /\ TypeOK /\ Chained /\ Aligned /\ InBounds /\ Prefixed
        /\ AllDelivered /\ FramesIntact
=============================================================================
