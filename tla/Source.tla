------------------------------- MODULE Source -------------------------------
(***************************************************************************)
(* source.cc: the capture session.  droidcam_source_start creates two      *)
(* threads that share one Decoder through plugin->video_decoder:           *)
(* video_thread connects to the phone, receives frames, and releases the   *)
(* decoder after a lost connection; video_decode_thread polls the decoder, *)
(* decodes, and feeds the RTSP encoder.  droidcam_source_stop sets         *)
(* stop_requested, joins both and frees everything.  No lock protects      *)
(* video_decoder: release_decoder relies on counting packets instead.      *)
(*                                                                         *)
(* Sleeps are the times at which a thread takes no step.  A decoder is     *)
(* named by the connection it was created for.                             *)
(***************************************************************************)
EXTENDS Decoder, FiniteSets

CONSTANTS Sizes,         \* picture sizes, positive numbers
          ConfigSize,    \* config->width x height
          MaxConnects    \* bound: successful connections

ASSUME SizesAssumption == Sizes \subseteq Nat \ {0}
ASSUME ConfigSizeAssumption == ConfigSize \in Sizes
ASSUME MaxConnectsAssumption == MaxConnects \in Nat

NULL == 0

VARIABLES
  main,                  \* pc of the thread that calls start and stop
  vpc,                   \* pc of video_thread
  dpc,                   \* pc of video_decode_thread
  crashed,               \* undefined behaviour ended the process
  stop_requested,
  video_thread,          \* pthread_t: "null", "valid", or "stale" (creation failed)
  video_decode_thread,
  video_running,
  video_decoder,         \* plugin->video_decoder: NULL or a decoder
  live,                  \* the decoder whose memory is allocated, or NULL
  sock,                  \* video_thread's socket, NULL for INVALID_SOCKET
  fds,                   \* sockets open in the process
  vpkt,                  \* video_thread's data_packet, NULL for none
  dptr,                  \* video_decode_thread's decoder
  dpkt,                  \* video_decode_thread's data_packet
  video_size,            \* plugin->video_width x video_height
  frame_size,            \* plugin->video_frame.width x height
  encoder,               \* NULL or the size the RTSP encoder was opened for
  connects,              \* successful connections so far
  received,              \* frames received on this connection
  fed,                   \* history: number of the last frame given to decode_video
  requested              \* history: size in the last /video request, or NULL

mainVars == <<main, stop_requested, video_thread, video_decode_thread>>
netVars == <<video_running, sock, fds, connects, received, requested>>
outVars == <<video_size, frame_size, encoder>>
ptrVars == <<video_decoder, live>>
dtVars == <<dpc, dptr, dpkt>>
vtVars == <<vpc, vpkt>>

vars == <<mainVars, netVars, outVars, ptrVars, dtVars, vtVars,
          decoderVars, video_format, crashed, fed>>

Init ==
  /\ DecoderInit
  /\ main = "start_video" /\ vpc = "off" /\ dpc = "off"
  /\ crashed = FALSE /\ stop_requested = FALSE
  /\ video_thread = "null" /\ video_decode_thread = "null"
  /\ video_running = FALSE
  /\ video_decoder = NULL /\ live = NULL
  /\ sock = NULL /\ fds = {}
  /\ vpkt = NULL /\ dptr = NULL /\ dpkt = NULL
  /\ video_size = ConfigSize /\ frame_size = NULL /\ encoder = NULL
  /\ connects = 0 /\ received = 0 /\ fed = 0 /\ requested = NULL
-----------------------------------------------------------------------------
(* video_thread: connecting.                                               *)

VGoto(from, to) == ~crashed /\ vpc = from /\ vpc' = to

\* What no step of video_thread touches; a step that is all control flow; a
\* step that concerns the connection only.
VKeeps == UNCHANGED <<mainVars, outVars, dtVars, video_format, crashed>>
VOnlyMoves == VKeeps /\ UNCHANGED <<netVars, ptrVars, vpkt, decoderVars, fed>>
VOnlyNet == VKeeps /\ UNCHANGED <<ptrVars, vpkt, decoderVars, fed>>

\* while (SOURCE_EXISTS()) and the two ways into its body.
VLoopEnd == /\ VGoto("loop", "end") /\ stop_requested
            /\ VOnlyMoves

VLoopRecv == /\ VGoto("loop", "recv") /\ ~stop_requested /\ video_running
             /\ VOnlyMoves

VLoopConnect == /\ VGoto("loop", "connect") /\ ~stop_requested /\ ~video_running
                /\ VOnlyMoves

VConnect == /\ VGoto("connect", "request")
            /\ connects < MaxConnects
            /\ connects' = connects + 1
            /\ sock' = connects + 1
            /\ fds' = fds \cup {connects + 1}
            /\ received' = 0
            /\ UNCHANGED <<video_running, requested>>
            /\ VOnlyNet

VConnectFail == /\ VGoto("connect", "slow")
                /\ sock' = NULL
                /\ UNCHANGED <<video_running, fds, connects, received, requested>>
                /\ VOnlyNet

\* The request carries plugin->video_width and video_height.
VRequest == /\ VGoto("request", "loop")
            /\ requested' = video_size
            /\ video_running' = TRUE
            /\ UNCHANGED <<sock, fds, connects, received>>
            /\ VOnlyNet

VRequestFail == /\ VGoto("request", "slow")
                /\ requested' = video_size
                /\ fds' = fds \ {sock}
                /\ sock' = NULL
                /\ UNCHANGED <<video_running, connects, received>>
                /\ VOnlyNet
-----------------------------------------------------------------------------
(* video_thread: recv_video_frame and read_frame.                          *)

\* The decode thread is inside add_item of recieveQueue and owns its lock.
RecieveLocked == dpc \in {"adding", "unlock"} /\ dptr = live

VNewDecoder == /\ VGoto("recv", "header")
               /\ IF video_decoder = NULL
                  THEN /\ NewDecoder
                       /\ live' = connects /\ video_decoder' = connects
                       /\ fed' = 0
                  ELSE UNCHANGED <<decoderVars, ptrVars, fed>>
               /\ VKeeps /\ UNCHANGED <<netVars, vpkt>>

\* A frame header (and a config packet before it, if any) was read.
VHeader == /\ VGoto("header", "pull")
           /\ received < MaxFrames
           /\ VOnlyMoves

\* Mutant: the failed socket is not closed.
HangupLeaks == /\ video_running' = FALSE
               /\ sock' = NULL
               /\ UNCHANGED fds

\* read_frame returned NULL: the socket is closed.
Hangup == /\ video_running' = FALSE
          /\ fds' = fds \ {sock}
          /\ sock' = NULL

VHeaderFail == /\ VGoto("header", "slow")
               /\ Hangup
               /\ UNCHANGED <<connects, received, requested>>
               /\ VOnlyNet

VPull == /\ VGoto("pull", "body")
         /\ \/ ~RecieveLocked /\ PullFree(vpkt')
            \/ PullAlloc(vpkt', dpc = "adding")
         /\ UNCHANGED <<decodeQueue, ready, failed, catchup>>
         /\ VKeeps /\ UNCHANGED <<netVars, ptrVars, fed>>

VBody == /\ VGoto("body", "check")
         /\ \E nal \in Nals :
              data' = [data EXCEPT ![vpkt] = [seq |-> received + 1, nal |-> nal]]
         /\ received' = received + 1
         /\ UNCHANGED <<video_running, sock, fds, connects, requested>>
         /\ UNCHANGED <<recieveQueue, decodeQueue, ready, failed, catchup>>
         /\ VKeeps /\ UNCHANGED <<ptrVars, vpkt, fed>>

\* Mutant: the packet is not pushed back after a failed read.
VBodyFailLeaks == /\ VGoto("body", "slow")
                  /\ vpkt' = NULL
                  /\ Hangup
                  /\ UNCHANGED <<connects, received, requested>>
                  /\ VKeeps /\ UNCHANGED <<ptrVars, decoderVars, fed>>

VBodyFail == /\ VGoto("body", "slow")
             /\ ~RecieveLocked
             /\ push_empty_packet(vpkt) /\ vpkt' = NULL
             /\ Hangup
             /\ UNCHANGED <<connects, received, requested>>
             /\ UNCHANGED <<decodeQueue, data, ready, failed, catchup>>
             /\ VKeeps /\ UNCHANGED <<ptrVars, fed>>

\* if (decoder->failed): the frame is discarded, the connection goes on.
VCheckFailed == /\ VGoto("check", "loop")
                /\ failed
                /\ ~RecieveLocked
                /\ push_empty_packet(vpkt) /\ vpkt' = NULL
                /\ UNCHANGED <<decodeQueue, data, ready, failed, catchup>>
                /\ VKeeps /\ UNCHANGED <<netVars, ptrVars, fed>>

\* if (!decoder->ready): the codec is opened and plugin->video_frame, which
\* the decode thread also uses, is reset (FrameNotShared).
VCheckInit == /\ ~crashed /\ vpc = "check"
              /\ ~failed /\ ~ready
              /\ \/ /\ ready' = TRUE /\ vpc' = "ready"
                    /\ UNCHANGED failed
                 \/ /\ failed' = TRUE /\ vpc' = "check"
                    /\ UNCHANGED ready
              /\ UNCHANGED <<recieveQueue, decodeQueue, data, catchup>>
              /\ VKeeps /\ UNCHANGED <<netVars, ptrVars, vpkt, fed>>

VCheckReady == /\ VGoto("check", "ready")
               /\ ~failed /\ ready
               /\ VOnlyMoves

\* Mutant: no return after the discard.
VDiscardFallsThrough ==
  /\ VGoto("ready", "queue")
  /\ ~RecieveLocked
  /\ \E n \in SizeRead(Len(decodeQueue), dpc = "popping") : Discards(vpkt, n)
  /\ push_empty_packet(vpkt)
  /\ UNCHANGED <<decodeQueue, data, ready, failed, catchup, vpkt>>
  /\ VKeeps /\ UNCHANGED <<netVars, ptrVars, fed>>

\* push_ready_packet: the unlocked look at decodeQueue decides.
VDiscard == /\ VGoto("ready", "loop")
            /\ ~RecieveLocked
            /\ \E n \in SizeRead(Len(decodeQueue), dpc = "popping") : Discards(vpkt, n)
            /\ push_empty_packet(vpkt) /\ vpkt' = NULL
            /\ UNCHANGED <<decodeQueue, data, ready, failed, catchup>>
            /\ VKeeps /\ UNCHANGED <<netVars, ptrVars, fed>>

VAccept == /\ VGoto("ready", "queue")
           /\ \E n \in SizeRead(Len(decodeQueue), dpc = "popping") : ~Discards(vpkt, n)
           /\ catchup' = FALSE
           /\ UNCHANGED <<recieveQueue, decodeQueue, data, ready, failed>>
           /\ VKeeps /\ UNCHANGED <<netVars, ptrVars, vpkt, fed>>

VQueue == /\ VGoto("queue", "mark")
          /\ decodeQueue' = Append(decodeQueue, vpkt)
          /\ vpkt' = NULL
          /\ UNCHANGED <<recieveQueue, data, ready, failed, catchup>>
          /\ VKeeps /\ UNCHANGED <<netVars, ptrVars, fed>>

\* Mutant: one frame too many before a catch-up.
VMarkLate == /\ VGoto("mark", "loop")
             /\ catchup' = (catchup \/ (video_format # "MJPG"
                                         /\ Len(decodeQueue) > CatchupLimit + 1))
             /\ UNCHANGED <<recieveQueue, decodeQueue, data, ready, failed>>
             /\ VKeeps /\ UNCHANGED <<netVars, ptrVars, vpkt, fed>>

\* The second look at decodeQueue starts a catch-up (FFMpegDecoder only).
VMark == /\ VGoto("mark", "loop")
         /\ \E n \in SizeRead(Len(decodeQueue), dpc = "popping") :
              catchup' = (catchup \/ (video_format # "MJPG" /\ n > CatchupLimit))
         /\ UNCHANGED <<recieveQueue, decodeQueue, data, ready, failed>>
         /\ VKeeps /\ UNCHANGED <<netVars, ptrVars, vpkt, fed>>
-----------------------------------------------------------------------------
(* video_thread: SLOW_LOOP, LOOP and release_decoder.                      *)

\* Mutant: release_decoder is not called after a lost connection.
VSlowKeepsDecoder == /\ VGoto("slow", "loop")
                     /\ video_running' = FALSE
                     /\ fds' = fds \ {sock}
                     /\ sock' = NULL
                     /\ UNCHANGED <<connects, received, requested>>
                     /\ VOnlyNet

VSlow == /\ VGoto("slow", "release")
         /\ video_running' = FALSE
         /\ fds' = fds \ {sock}
         /\ sock' = NULL
         /\ UNCHANGED <<connects, received, requested>>
         /\ VOnlyNet

VReleaseNone == /\ VGoto("release", "loop")
                /\ video_decoder = NULL
                /\ VOnlyMoves

\* Mutant: the wait ends one packet early.
AllButOneReturned ==
  \E n \in SizeRead(Len(recieveQueue), dpc = "adding") : n + 1 >= alloc_count

\* The wait ends when every packet is back in recieveQueue, or on a stop.
AllReturned == \E n \in SizeRead(Len(recieveQueue), dpc = "adding") : n >= alloc_count

\* Mutants: no wait at all; a wait that a stop does not end.
VReleaseAtOnce == /\ VGoto("release", "delete")
                  /\ video_decoder # NULL
                  /\ VOnlyMoves

VReleaseDeaf == /\ VGoto("release", "delete")
                /\ video_decoder # NULL
                /\ AllReturned
                /\ VOnlyMoves

VRelease == /\ VGoto("release", "delete")
            /\ video_decoder # NULL
            /\ AllReturned \/ stop_requested
            /\ VOnlyMoves

\* delete plugin->video_decoder: packets in the queues go with it.
VDelete == /\ VGoto("delete", "null")
           /\ NewDecoder
           /\ live' = NULL
           /\ VKeeps /\ UNCHANGED <<netVars, video_decoder, vpkt, fed>>

VNull == /\ VGoto("null", "loop")
         /\ video_decoder' = NULL
         /\ VKeeps /\ UNCHANGED <<netVars, live, vpkt, decoderVars, fed>>

VEnd == /\ VGoto("end", "done")
        /\ video_running' = FALSE
        /\ fds' = fds \ {sock}
        /\ sock' = NULL
        /\ UNCHANGED <<connects, received, requested>>
        /\ VOnlyNet

VideoThread ==
  \/ VLoopEnd \/ VLoopRecv \/ VLoopConnect \/ VConnect \/ VConnectFail
  \/ VRequest \/ VRequestFail \/ VNewDecoder \/ VHeader \/ VHeaderFail
  \/ VPull \/ VBody \/ VBodyFail \/ VCheckFailed \/ VCheckInit \/ VCheckReady
  \/ VDiscard \/ VAccept \/ VQueue \/ VMark \/ VSlow \/ VReleaseNone
  \/ VRelease \/ VDelete \/ VNull \/ VEnd
-----------------------------------------------------------------------------
(* video_decode_thread.                                                    *)

DGoto(from, to) == ~crashed /\ dpc = from /\ dpc' = to

DUnchanged == UNCHANGED <<mainVars, netVars, ptrVars, vtVars, video_format>>
DOnlyMoves == DUnchanged /\ UNCHANGED <<outVars, decoderVars, dptr, dpkt, crashed, fed>>

DEnd == /\ DGoto("top", "done")
        /\ stop_requested
        /\ DOnlyMoves

\* decoder = plugin->video_decoder; nothing keeps it allocated from here on.
DLoad == /\ DGoto("top", "pull")
         /\ ~stop_requested
         /\ video_decoder # NULL
         /\ dptr' = video_decoder
         /\ DUnchanged /\ UNCHANGED <<outVars, decoderVars, dpkt, crashed, fed>>

\* pull_ready_packet, first half: the unlocked size check of next_item.
DSawNone == /\ DGoto("pull", "top")
            /\ dptr = live
            /\ 0 \in SizeRead(Len(decodeQueue), vpc = "queue")
            /\ DOnlyMoves

DSawItems == /\ DGoto("pull", "popping")
             /\ dptr = live
             /\ \E n \in SizeRead(Len(decodeQueue), vpc = "queue") : n > 0
             /\ DOnlyMoves

\* Second half: a push in progress holds the lock until its item is there.
DPop == /\ DGoto("popping", "chk")
        /\ dptr = live
        /\ decodeQueue # <<>>
        /\ dpkt' = Head(decodeQueue)
        /\ decodeQueue' = Tail(decodeQueue)
        /\ UNCHANGED <<recieveQueue, data, ready, failed, catchup>>
        /\ DUnchanged /\ UNCHANGED <<outVars, dptr, crashed, fed>>

\* Mutant: the loop continues without giving the packet back.
DCheckFailedLeaks == /\ DGoto("chk", "top")
                     /\ dptr = live
                     /\ failed
                     /\ dpkt' = NULL
                     /\ DUnchanged /\ UNCHANGED <<outVars, decoderVars, dptr, crashed, fed>>

DCheckFailed == /\ DGoto("chk", "ret")
                /\ dptr = live
                /\ failed
                /\ DOnlyMoves

DCheckOk == /\ DGoto("chk", "decode")
            /\ dptr = live
            /\ ~failed
            /\ DOnlyMoves

\* decode_video reports an error, no picture yet, or a picture.
DDecode == /\ ~crashed /\ dpc = "decode"
           /\ dptr = live
           /\ fed' = data[dpkt].seq
           /\ \/ /\ failed' = TRUE /\ dpc' = "ret"
                 /\ UNCHANGED frame_size
              \/ /\ dpc' = "ret"
                 /\ UNCHANGED <<failed, frame_size>>
              \/ /\ frame_size' \in Sizes /\ dpc' = "push"
                 /\ UNCHANGED failed
           /\ UNCHANGED <<recieveQueue, decodeQueue, data, ready, catchup>>
           /\ UNCHANGED <<video_size, encoder>>
           /\ DUnchanged /\ UNCHANGED <<dptr, dpkt, crashed>>

\* push_video_frame: the conversion may fail; a missing encoder or one of
\* another size is replaced, which may fail; then the picture is encoded.
DPush == /\ DGoto("push", "ret")
         /\ dptr = live
         /\ \/ UNCHANGED <<video_size, encoder>>
            \/ /\ encoder = NULL \/ video_size # frame_size
               /\ video_size' = frame_size
               /\ encoder' \in {NULL, frame_size}
         /\ UNCHANGED frame_size
         /\ DUnchanged /\ UNCHANGED <<decoderVars, dptr, dpkt, crashed, fed>>

\* push_empty_packet: lock, push, unlock.
DLock == /\ DGoto("ret", "adding")
         /\ dptr = live
         /\ DOnlyMoves

\* Mutant: data_packet is cleared before it is pushed.
DAddCleared == /\ DGoto("adding", "unlock")
               /\ dptr = live
               /\ push_empty_packet(NULL) /\ dpkt' = NULL
               /\ UNCHANGED <<decodeQueue, data, ready, failed, catchup>>
               /\ DUnchanged /\ UNCHANGED <<outVars, dptr, crashed, fed>>

DAdd == /\ DGoto("adding", "unlock")
        /\ dptr = live
        /\ push_empty_packet(dpkt) /\ dpkt' = NULL
        /\ UNCHANGED <<decodeQueue, data, ready, failed, catchup>>
        /\ DUnchanged /\ UNCHANGED <<outVars, dptr, crashed, fed>>

DUnlock == /\ DGoto("unlock", "top")
           /\ dptr = live
           /\ DOnlyMoves

\* Steps of the decode thread that reach into the decoder or its pictures.
DInDecoder == {"pull", "popping", "chk", "decode", "push", "ret", "adding", "unlock"}

\* The decoder is gone.  The freed memory may still look like an empty or an
\* undamaged decoder (the packet in hand is lost), or the process dies.
DFreed == /\ ~crashed /\ dpc \in DInDecoder /\ dptr # live
          /\ \/ dpc' = "top" /\ dpkt' = NULL /\ UNCHANGED crashed
             \/ crashed' = TRUE /\ UNCHANGED <<dpc, dpkt>>
          /\ DUnchanged /\ UNCHANGED <<outVars, decoderVars, dptr, fed>>

\* A new decoder was allocated at the address that was loaded.
DReused == /\ ~crashed /\ dpc = "pull" /\ dptr # live /\ live # NULL
           /\ dptr' = live
           /\ DUnchanged /\ UNCHANGED <<outVars, decoderVars, dpc, dpkt, crashed, fed>>

DecodeThread ==
  \/ DEnd \/ DLoad \/ DSawNone \/ DSawItems \/ DPop \/ DCheckFailed \/ DCheckOk
  \/ DDecode \/ DPush \/ DLock \/ DAdd \/ DUnlock \/ DFreed \/ DReused
-----------------------------------------------------------------------------
(* droidcam_source_start and droidcam_source_stop.                         *)

MGoto(from, to) == ~crashed /\ main = from /\ main' = to

MUnchanged == UNCHANGED <<netVars, vpkt, dptr, dpkt, video_size, frame_size,
                          video_format, fed>>

\* pthread_create of video_thread; after a failure the id is undefined.
MStartVideo == /\ ~crashed /\ main = "start_video"
               /\ \/ main' = "start_decode" /\ vpc' = "loop" /\ video_thread' = "valid"
                  \/ main' = "stop" /\ vpc' = vpc /\ video_thread' \in {"null", "stale"}
               /\ MUnchanged
               /\ UNCHANGED <<dpc, stop_requested, video_decode_thread, encoder,
                              ptrVars, decoderVars, crashed>>

MStartDecode == /\ ~crashed /\ main = "start_decode"
                /\ \/ main' = "running" /\ dpc' = "top" /\ video_decode_thread' = "valid"
                   \/ main' = "stop" /\ dpc' = dpc /\ video_decode_thread' \in {"null", "stale"}
                /\ MUnchanged
                /\ UNCHANGED <<vpc, stop_requested, video_thread, encoder,
                               ptrVars, decoderVars, crashed>>

\* The signal handler or the GUI asks for a stop.
MUserStop == /\ MGoto("running", "stop")
             /\ MUnchanged
             /\ UNCHANGED <<vpc, dpc, stop_requested, video_thread, video_decode_thread,
                            encoder, ptrVars, decoderVars, crashed>>

MStop == /\ MGoto("stop", "join_video")
         /\ stop_requested' = TRUE
         /\ MUnchanged
         /\ UNCHANGED <<vpc, dpc, video_thread, video_decode_thread,
                        encoder, ptrVars, decoderVars, crashed>>

\* pthread_join of an undefined id returns an error or crashes.
Join(id, ended) == \/ id = "null" /\ UNCHANGED crashed
                   \/ id = "valid" /\ ended /\ UNCHANGED crashed
                   \/ id = "stale" /\ crashed' \in BOOLEAN

MJoinVideo == /\ MGoto("join_video", "join_decode")
              /\ Join(video_thread, vpc = "done")
              /\ MUnchanged
              /\ UNCHANGED <<vpc, dpc, stop_requested, video_thread, video_decode_thread,
                             encoder, ptrVars, decoderVars>>

\* Mutant: the decode thread is not joined.
MJoinDecodeSkipped ==
  /\ MGoto("join_decode", "teardown")
  /\ MUnchanged
  /\ UNCHANGED <<vpc, dpc, stop_requested, video_thread, video_decode_thread,
                 encoder, ptrVars, decoderVars, crashed>>

MJoinDecode == /\ MGoto("join_decode", "teardown")
               /\ Join(video_decode_thread, dpc = "done")
               /\ MUnchanged
               /\ UNCHANGED <<vpc, dpc, stop_requested, video_thread, video_decode_thread,
                              encoder, ptrVars, decoderVars>>

\* release_decoder does not wait after a stop; encoder and plugin are freed.
MTeardown == /\ MGoto("teardown", "done")
             /\ NewDecoder
             /\ live' = NULL /\ video_decoder' = NULL
             /\ encoder' = NULL
             /\ MUnchanged
             /\ UNCHANGED <<vpc, dpc, stop_requested, video_thread, video_decode_thread, crashed>>

Main == \/ MStartVideo \/ MStartDecode \/ MUserStop \/ MStop
        \/ MJoinVideo \/ MJoinDecode \/ MTeardown

\* The process has ended.
Terminated == (crashed \/ main = "done") /\ UNCHANGED vars

Next == VideoThread \/ DecodeThread \/ Main \/ Terminated

(***************************************************************************)
(* Threads are scheduled, sockets time out (5 s on recv, 2 s on connect),  *)
(* codec and RTSP calls return.  Nobody is obliged to ask for a stop.      *)
(***************************************************************************)
Fairness == /\ WF_vars(VideoThread)
            /\ WF_vars(DecodeThread)
            /\ WF_vars(MStartVideo \/ MStartDecode \/ MStop
                       \/ MJoinVideo \/ MJoinDecode \/ MTeardown)

Spec == Init /\ [][Next]_vars

FairSpec == Spec /\ Fairness
-----------------------------------------------------------------------------
MainSteps == {"start_video", "start_decode", "running", "stop",
              "join_video", "join_decode", "teardown", "done"}
VideoSteps == {"off", "loop", "connect", "request", "recv", "header", "pull",
               "body", "check", "ready", "queue", "mark", "slow", "release",
               "delete", "null", "end", "done"}
DecodeSteps == DInDecoder \cup {"off", "top", "done"}
ThreadIds == {"null", "valid", "stale"}

\* Steps of video_thread at which it holds a packet / owns a decoder.
VHolding == {"body", "check", "ready", "queue"}
VReceiving == VHolding \cup {"header", "pull", "mark"}

\* Steps of video_decode_thread at which it holds a packet.
DHolding == {"chk", "decode", "push", "ret", "adding"}

FlagsOK == /\ DecoderFlagsOK
           /\ crashed \in BOOLEAN
           /\ stop_requested \in BOOLEAN
           /\ video_running \in BOOLEAN

PlainTypeOK ==
  /\ main \in MainSteps /\ vpc \in VideoSteps /\ dpc \in DecodeSteps
  /\ video_thread \in ThreadIds /\ video_decode_thread \in ThreadIds
  /\ connects \in 0..MaxConnects
  /\ video_decoder \in 0..connects /\ live \in 0..connects /\ dptr \in 0..connects
  /\ sock \in 0..connects /\ fds \in SUBSET (1..connects)
  /\ vpkt \in Nat /\ dpkt \in Nat
  /\ video_size \in Sizes
  /\ frame_size \in Sizes \cup {NULL} /\ encoder \in Sizes \cup {NULL}
  /\ received \in 0..MaxFrames /\ fed \in 0..MaxFrames
  /\ requested \in Sizes \cup {NULL}

(* Every variable has its type; queued packets are allocated ones.         *)
TypeOK == DecoderTypeOK /\ FlagsOK /\ PlainTypeOK

Holds(pkt) == IF pkt = NULL THEN 0 ELSE 1

\* Packets of the current decoder that the decode thread has in hand.
DHolds == IF dptr = live THEN Holds(dpkt) ELSE 0

(* Packets are conserved: while a decoder exists, every packet it          *)
(* allocated is in one of its queues or in the hands of a thread, on every *)
(* error path of read_frame, recv_video_frame and the decode loop.  The    *)
(* count in release_decoder relies on it: a lost packet would block it.    *)
PacketsConserved ==
  live # NULL =>
    alloc_count = Len(recieveQueue) + Len(decodeQueue) + Holds(vpkt) + DHolds

\* The packets of the current decoder, one entry for each place they are in.
Places == recieveQueue \o decodeQueue
            \o (IF vpkt = NULL THEN <<>> ELSE <<vpkt>>)
            \o (IF dpkt = NULL \/ dptr # live THEN <<>> ELSE <<dpkt>>)

(* No packet is in two places: the video thread never receives into a      *)
(* buffer that is queued for decoding or being decoded.                    *)
NoSharedPacket ==
  \A i, j \in 1..Len(Places) : i # j => Places[i] # Places[j]

(* Until a stop is requested, release_decoder never deletes the decoder    *)
(* under a decode thread that is taking, holding or returning a packet:    *)
(* counting packets is as good as a lock there, as long as size() does not *)
(* tear.                                                                   *)
DecoderKeptWhileHeld ==
  ~TornReads /\ ~stop_requested /\ dpc \in {"popping", "chk", "decode", "push", "ret"}
    => dptr = live

(* plugin->video_frame and the picture size are shared without a lock: the *)
(* video thread touches them (decoder init, /video request) only when the  *)
(* decode thread is not using them, as long as size() does not tear.       *)
FrameNotShared ==
  ~TornReads /\ (vpc = "request" \/ (vpc = "check" /\ ~ready /\ ~failed))
    => dpc \notin {"decode", "push"}

(* A connection starts without a decoder: no packet or codec state of a    *)
(* lost connection is carried over into the next one.                      *)
FreshDecoder ==
  vpc \in {"connect", "request"} => video_decoder = NULL /\ live = NULL

(* When droidcam_source_stop frees encoder, decoder and plugin, neither    *)
(* thread is running, also when a thread could not be created.             *)
TeardownAlone ==
  main \in {"teardown", "done"} /\ ~crashed =>
    vpc \in {"off", "done"} /\ dpc \in {"off", "done"}

(* No socket is leaked: one at most is open, the one in "sock", and none   *)
(* when video_thread has ended or is about to connect.                     *)
NoSocketLeak ==
  /\ fds = (IF sock = NULL THEN {} ELSE {sock})
  /\ vpc \in {"connect", "release", "done"} => fds = {}

(* With whole size reads decodeQueue stays bounded: one more than the      *)
(* catch-up limit for AVC and HEVC, two for MJPG.                          *)
QueueBounded ==
  ~TornReads => Len(decodeQueue) <= (IF video_format = "MJPG" THEN 2 ELSE CatchupLimit + 1)

(* Frames reach decode_video in the order they were received, none twice,  *)
(* and for AVC and HEVC a gap (frames dropped to catch up) always ends at  *)
(* a picture that can be decoded without the dropped ones.                 *)
FeedOrder ==
  [][fed' # fed /\ fed' # 0 =>
       /\ fed' > fed
       /\ fed' = fed + 1 \/ ~Dependent(data[dpkt].nal)]_vars

(* release_decoder does not wait for ever: the decode thread gives every   *)
(* packet back, also those of a failed decoder.                            *)
ReleaseTerminates == vpc = "release" ~> vpc # "release" \/ crashed

(* A lost or refused connection is always followed by another attempt,     *)
(* unless a stop is requested or the process died.                         *)
Reconnects == vpc = "slow" ~> vpc = "connect" \/ stop_requested \/ crashed

(* A requested stop completes: both joins return, whatever the threads     *)
(* were doing.                                                             *)
StopCompletes == stop_requested ~> main = "done" \/ crashed
-----------------------------------------------------------------------------
(* README.md:36 "handles WiFi drops gracefully": losing and re-making the  *)
(* connection never brings the process down.                               *)
DropsHandled == ~stop_requested => ~crashed

(* source.cc:428 "waiting for decode thread": release_decoder deletes the  *)
(* decoder only after the decode thread has given its packet back.         *)
WaitedForDecodeThread == dpkt # NULL => dptr = live

(* README.md:76 "--width WIDTH Video width": the phone is asked for the    *)
(* configured picture size on every connection.                            *)
RequestAsConfigured == requested \in {NULL, ConfigSize}
=============================================================================
