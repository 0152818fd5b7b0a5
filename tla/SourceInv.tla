----------------------------- MODULE SourceInv -----------------------------
(***************************************************************************)
(* The inductive invariant of the capture session: what has to be known of *)
(* the two threads' program counters, pointers and packets for the         *)
(* properties of module Source to follow.                                  *)
(***************************************************************************)
EXTENDS Source

\* The decode thread is taking, holding or returning a packet.
DBusy == {"popping", "chk", "decode", "push", "ret"}

\* Threads exist exactly when their creation succeeded, and main frees only
\* what the joins have made its own.
ThreadsInv ==
  /\ vpc = "off" <=> video_thread # "valid"
  /\ dpc = "off" <=> video_decode_thread # "valid"
  /\ main = "start_video" => vpc = "off" /\ dpc = "off"
  /\ main = "start_decode" => dpc = "off"
  /\ main \in {"start_video", "start_decode", "running", "stop"} => ~stop_requested
  /\ main \in {"join_decode", "teardown", "done"} /\ ~crashed => vpc \in {"off", "done"}
  /\ main \in {"teardown", "done"} /\ ~crashed => dpc \in {"off", "done"}

\* The socket is open only between a connect and the close that follows it.
SocketInv ==
  /\ fds = (IF sock = NULL THEN {} ELSE {sock})
  /\ vpc \in {"off", "connect", "slow", "release", "delete", "null", "done"} => sock = NULL
  /\ vpc = "loop" /\ ~video_running => sock = NULL

\* plugin->video_decoder designates the allocated decoder, except between
\* delete and the assignment of NULL.
PointerInv ==
  /\ video_decoder # live => vpc = "null" /\ live = NULL
  /\ live = NULL => /\ recieveQueue = <<>> /\ decodeQueue = <<>> /\ data = <<>>
                    /\ ~ready /\ ~failed
  /\ vpc \in VReceiving => live # NULL
  /\ vpc = "delete" => live # NULL
  /\ vpc \in {"off", "connect", "request", "null"} => live = NULL
  /\ vpc = "loop" /\ ~video_running => live = NULL
  /\ vpc \in VReceiving \cup {"recv"} => video_running
  /\ video_running => vpc \in VReceiving \cup {"loop", "recv", "end"}
  /\ vpc \in {"ready", "queue", "mark"} => ready
  /\ main = "done" => live = NULL

\* A decoder allocated later never has the name the decode thread remembers.
FreshName == (video_running \/ vpc = "request") /\ live = NULL => dptr < connects

\* A thread holds a packet at exactly the steps where its code does, and the
\* packet is one of the decoder's.
HoldInv ==
  /\ vpkt # NULL <=> vpc \in VHolding
  /\ vpkt # NULL => vpkt \in Packets
  /\ dpkt # NULL <=> dpc \in DHolding
  /\ dpkt # NULL /\ dptr = live => dpkt \in Packets
  /\ dpc \in DInDecoder => dptr # NULL

\* A frame is begun only within the bound, and pushed only after a picture.
FrameInv == /\ vpc \in {"pull", "body"} => received < MaxFrames
            /\ dpc = "push" => frame_size # NULL

ControlInv == ThreadsInv /\ SocketInv /\ PointerInv /\ FreshName /\ HoldInv /\ FrameInv

\* Having seen items, the decode thread still finds one when it has the lock.
PopInv == dpc = "popping" /\ dptr = live => decodeQueue # <<>>

\* The wait of release_decoder has ended for the right reason.
DrainedInv == vpc = "delete" /\ ~stop_requested => Len(recieveQueue) = alloc_count

\* From the connect to the first frame given to the codec the decode thread
\* has nothing to do, whether or not a stop is requested meanwhile.
QuietInv ==
  /\ ~ready
  /\ \/ vpc \in VReceiving \cup {"connect", "request", "recv"}
     \/ vpc = "loop" /\ video_running
  => decodeQueue = <<>> /\ dpc \notin DBusy

KeptInv == ~TornReads => PopInv /\ DrainedInv /\ QuietInv

(* The inductive invariant of the capture session.                         *)
IInv == /\ TypeOK /\ ControlInv /\ PacketsConserved
        /\ KeptInv /\ DecoderKeptWhileHeld
-----------------------------------------------------------------------------
\* NoSharedPacket, place by place.
Distinct(s) == \A a, b \in DOMAIN s : a # b => s[a] # s[b]
Apart(s, t) == \A a \in DOMAIN s, b \in DOMAIN t : s[a] # t[b]
Lacks(s, p) == \A a \in DOMAIN s : s[a] # p

PlacesInv ==
  /\ Distinct(recieveQueue) /\ Distinct(decodeQueue) /\ Apart(recieveQueue, decodeQueue)
  /\ vpkt # NULL => Lacks(recieveQueue, vpkt) /\ Lacks(decodeQueue, vpkt)
  /\ dpkt # NULL /\ dptr = live =>
       Lacks(recieveQueue, dpkt) /\ Lacks(decodeQueue, dpkt) /\ dpkt # vpkt

\* Between two looks at decodeQueue only the decode thread changes it, so a
\* catch-up that has not begun means that there is room for one more frame.
BoundInv ==
  ~TornReads =>
    /\ video_format = "MJPG" => Len(decodeQueue) <= (IF vpc = "queue" THEN 1 ELSE 2)
    /\ video_format # "MJPG" =>
         Len(decodeQueue) <= CatchupLimit + (IF catchup \/ vpc = "mark" THEN 1 ELSE 0)
    /\ vpc = "queue" => ~catchup

\* Nothing of a decoder is queued or in hand before its codec is ready, and a
\* frame about to be decoded is not one of a failed decoder.
ReadyInv ==
  /\ ~ready => decodeQueue = <<>> /\ ~(dpc \in DHolding /\ dptr = live)
  /\ dpc = "decode" /\ dptr = live => ~failed

\* The decode thread has taken a frame that it has not yet decoded.
InHand == dpc \in {"chk", "decode"} /\ dptr = live

\* The frame before the first one in decodeQueue, and the last one accepted.
FrontSeq == IF InHand THEN data[dpkt].seq ELSE fed
LastSeq == IF decodeQueue = <<>> THEN FrontSeq ELSE data[decodeQueue[Len(decodeQueue)]].seq

\* Packet p may be decoded next after frame number n.
Follows(p, n) == /\ data[p].seq > n
                 /\ data[p].seq = n + 1 \/ ~Dependent(data[p].nal)

\* The last frame received is still to be accepted or discarded.
Undecided == vpc \in {"check", "ready", "queue"}

\* Every frame on its way to the codec may follow the one before it.
Chain ==
  /\ InHand => Follows(dpkt, fed)
  /\ decodeQueue # <<>> => Follows(decodeQueue[1], FrontSeq)
  /\ \A k \in 1..(Len(decodeQueue) - 1) :
       Follows(decodeQueue[k + 1], data[decodeQueue[k]].seq)

WayInv ==
  live # NULL /\ ~failed =>
    /\ Chain
    /\ vpc = "queue" => Follows(vpkt, LastSeq)

\* No frame was dropped unless a catch-up is under way.
DropInv ==
  live # NULL /\ ~failed =>
    /\ Undecided => data[vpkt].seq = received /\ LastSeq < received
    /\ ~Undecided => LastSeq <= received
    /\ ~catchup /\ video_format # "MJPG" =>
         /\ vpc \in {"check", "ready"} => LastSeq = received - 1
         /\ ~Undecided => LastSeq = received

\* The first decoder of a connection is created before its first frame.
FirstInv == (video_running \/ vpc = "request") /\ live = NULL => received = 0

(* What is known of the frames on their way from the phone to the codec.   *)
FeedInv == PlacesInv /\ BoundInv /\ ReadyInv /\ FirstInv /\ WayInv /\ DropInv
=============================================================================
