------------------------------ MODULE Decoder ------------------------------
(***************************************************************************)
(* struct Decoder of decoder.h with the packet policy of its two           *)
(* implementations (ffmpeg_decode.cc, mjpeg_decode.cc).  Packets are       *)
(* recycled: a DataPacket is allocated when recieveQueue has none to       *)
(* offer, filled by the video thread, handed over in decodeQueue, and      *)
(* returned to recieveQueue by the decode thread.  A packet is named by    *)
(* the order of its allocation, 1..alloc_count; what it carries is the     *)
(* number of the frame within the connection and the type of its first NAL *)
(* unit.                                                                   *)
(*                                                                         *)
(* The queue operations under items_lock are single steps here: module     *)
(* Queue shows that they implement a FIFO.  What the lock does not protect *)
(* are the plain reads of items.size(), see SizeRead.                      *)
(***************************************************************************)
EXTENDS Naturals, Sequences

CONSTANTS Formats,       \* the VideoFormats configured: some of "AVC" "HEVC" "MJPG"
          Nals,          \* NAL unit types the phone sends first in a packet
          CatchupLimit,  \* decodeQueue longer than this starts a catch-up (30)
          MaxFrames,     \* bound: frames completely received per connection
          TornReads      \* whether a size() racing with a push or erase can tear

ASSUME FormatsAssumption == Formats \subseteq {"AVC", "HEVC", "MJPG"}
ASSUME NalsAssumption == Nals \subseteq 0..63
ASSUME CatchupLimitAssumption == CatchupLimit \in Nat \ {0}
ASSUME MaxFramesAssumption == MaxFrames \in Nat
ASSUME TornReadsAssumption == TornReads \in BOOLEAN

VARIABLES video_format,  \* plugin->video_format, fixed by the configuration
          recieveQueue,  \* packets free for the next frame
          decodeQueue,   \* packets holding frames to decode
          data,          \* data[p]: what packet p carries; alloc_count long
          ready,         \* the codec was initialised
          failed,        \* the codec could not be initialised or a frame not decoded
          catchup        \* FFMpegDecoder: dropping frames until the queue drained

decoderVars == <<recieveQueue, decodeQueue, data, ready, failed, catchup>>

Frames == [seq : 1..MaxFrames, nal : Nals]

\* Contents of a packet nothing has been received into.
Blank == [seq |-> 0, nal |-> 0]

alloc_count == Len(data)

Packets == 1..alloc_count

\* The constructors; there is no decoder before the first connection.
NewDecoder == /\ recieveQueue' = <<>>
              /\ decodeQueue' = <<>>
              /\ data' = <<>>
              /\ ready' = FALSE
              /\ failed' = FALSE
              /\ catchup' = FALSE

DecoderInit == /\ video_format \in Formats
               /\ recieveQueue = <<>>
               /\ decodeQueue = <<>>
               /\ data = <<>>
               /\ ready = FALSE
               /\ failed = FALSE
               /\ catchup = FALSE

(***************************************************************************)
(* What an unlocked items.size() of a deque of n items can return.  While  *)
(* another thread moves the deque's node pointers the result is undefined: *)
(* nothing, the truth, or a huge number.                                   *)
(***************************************************************************)
SizeRead(n, racing) ==
  {n} \cup (IF TornReads /\ racing THEN {0, alloc_count + CatchupLimit + 2} ELSE {})

\* pull_empty_packet: take a free packet, or allocate one when the (possibly
\* torn) size said there was none.
PullFree(p) == /\ recieveQueue # <<>>
               /\ p = Head(recieveQueue)
               /\ recieveQueue' = Tail(recieveQueue)
               /\ UNCHANGED data

PullAlloc(p, racing) == /\ 0 \in SizeRead(Len(recieveQueue), racing)
                        /\ p = alloc_count + 1
                        /\ data' = Append(data, Blank)
                        /\ UNCHANGED recieveQueue

push_empty_packet(p) == recieveQueue' = Append(recieveQueue, p)

\* Slices of pictures that depend on others: not a point to resume decoding at.
Dependent(nal) == \/ video_format = "AVC" /\ nal < 5
                  \/ video_format = "HEVC" /\ nal < 10

\* Mutant: a catch-up ends at any picture.
DiscardsByLength(p, n) == (video_format = "MJPG" \/ catchup) /\ n > 1

\* push_ready_packet sends the packet straight back when n frames wait.
Discards(p, n) == IF video_format = "MJPG"
                  THEN n > 1
                  ELSE catchup /\ (n > 1 \/ Dependent(data[p].nal))

DecoderTypeOK == /\ video_format \in Formats
                 /\ data \in Seq(Frames \cup {Blank})
                 /\ recieveQueue \in Seq(Packets)
                 /\ decodeQueue \in Seq(Packets)

DecoderFlagsOK == ready \in BOOLEAN /\ failed \in BOOLEAN /\ catchup \in BOOLEAN
=============================================================================
