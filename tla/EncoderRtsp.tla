---------------------------- MODULE EncoderRtsp ----------------------------
(***************************************************************************)
(* encoder_rtsp.c: the H.264 encoder and the RTSP session it publishes on. *)
(* All calls come from one thread at a time (video_decode_thread, then the *)
(* thread that tears down), so what interleaves with the code is the RTSP  *)
(* server, which may go away and come back between any two library calls.  *)
(* A picture is known by its timestamp.                                    *)
(***************************************************************************)
EXTENDS Integers, Sequences

CONSTANTS Second,       \* timestamp units per second in the stream (1000000)
          Fps,          \* ctx->fps
          Pts,          \* timestamps the phone sends; negative means none
          Delay,        \* pictures the codec keeps back
          MaxTicks      \* bound: timestamps given to the codec by one encoder

ASSUME SecondAssumption == Second \in Nat \ {0}
ASSUME FpsAssumption == Fps \in Nat \ {0}
ASSUME PtsAssumption == Pts \subseteq Int
ASSUME DelayAssumption == Delay \in Nat
ASSUME MaxTicksAssumption == MaxTicks \in Nat

None == -1              \* no packet, nothing sent yet
Blank == -2             \* a packet whose contents the muxer has taken

VARIABLES pc,           \* "none": no EncoderRtspCtx; "idle": between calls
          flushing,     \* inside encoder_rtsp_close
          next_pts,
          codec,        \* timestamps of the pictures inside codec_ctx
          packet,       \* ctx->packet
          fmt_ctx,      \* an AVFormatContext is allocated
          stream,       \* it has a stream
          output_open,
          contexts,     \* history: AVFormatContexts not yet freed
          up,           \* the RTSP server accepts sessions, memory is there
          upThrough,    \* history: up since the current call began
          wrote,        \* history: write_packet was reached in this call
          sent          \* history: last timestamp this encoder published

outputVars == <<fmt_ctx, stream, output_open, contexts>>
historyVars == <<upThrough, wrote>>
vars == <<pc, flushing, next_pts, codec, packet, outputVars, up, historyVars, sent>>

Init == /\ pc = "none" /\ flushing = FALSE
        /\ next_pts = 0 /\ codec = <<>> /\ packet = None
        /\ fmt_ctx = FALSE /\ stream = FALSE /\ output_open = FALSE
        /\ contexts = 0
        /\ up \in BOOLEAN /\ upThrough = FALSE /\ wrote = FALSE
        /\ sent = None
-----------------------------------------------------------------------------
(* close_output and open_output.                                           *)

\* Mutant: the context is not freed.
AfterCloseLeaks == contexts

\* What close_output leaves of the number of allocated contexts.
AfterClose == IF fmt_ctx THEN contexts - 1 ELSE contexts

close_output == /\ contexts' = AfterClose
                /\ fmt_ctx' = FALSE /\ stream' = FALSE
                /\ output_open' = FALSE

OpenOk == /\ up
          /\ contexts' = AfterClose + 1
          /\ fmt_ctx' = TRUE /\ stream' = TRUE
          /\ output_open' = TRUE

\* No context; no connection or no header: the new context is freed again.
OpenFailFreed == ~up /\ close_output

\* Mutant: output_open is set before the header is written.
OpenFailMarkedOpen == /\ ~up
                      /\ contexts' = AfterClose + 1
                      /\ fmt_ctx' = TRUE /\ stream' \in BOOLEAN
                      /\ output_open' = TRUE

\* Returned in the middle: the context stays, with or without a stream.
OpenFailKept == /\ ~up
                /\ contexts' = AfterClose + 1
                /\ fmt_ctx' = TRUE /\ stream' \in BOOLEAN
                /\ output_open' = FALSE

OpenFail == OpenFailFreed \/ OpenFailKept
-----------------------------------------------------------------------------
\* encoder_rtsp_init: an output that cannot be opened yet is not an error.
encoder_rtsp_init ==
  /\ pc = "none"
  /\ pc' = "idle"
  /\ next_pts' = 0 /\ codec' = <<>> /\ packet' = None /\ sent' = None
  /\ OpenOk \/ OpenFail
  /\ upThrough' = FALSE /\ wrote' = FALSE
  /\ UNCHANGED <<flushing, up>>

\* av_rescale_q(pts, 1/1000000, 1/fps), rounding to the nearest tick.
Ticks(pts) == (2 * pts * Fps + Second) \div (2 * Second)

\* Mutant: the phone's clock is trusted.
FramePtsUnclamped(pts) == IF pts >= 0 THEN Ticks(pts) ELSE next_pts

\* Never lower than what was used before, whatever the phone's clock says.
FramePts(pts) == IF pts >= 0 /\ Ticks(pts) >= next_pts THEN Ticks(pts) ELSE next_pts

\* Mutant: nothing is drained while the output is closed.
encode_frame_undrained(pts) ==
  /\ pc = "idle"
  /\ FramePts(pts) < MaxTicks
  /\ next_pts' = FramePts(pts) + 1
  /\ codec' = Append(codec, FramePts(pts))
  /\ pc' = (IF output_open THEN "drain" ELSE "idle")
  /\ upThrough' = up /\ wrote' = FALSE
  /\ UNCHANGED <<flushing, packet, outputVars, up, sent>>

\* encoder_rtsp_encode_frame up to avcodec_send_frame, which may refuse the
\* picture after the timestamp has been used up.
encode_frame(pts) ==
  /\ pc = "idle"
  /\ FramePts(pts) < MaxTicks
  /\ next_pts' = FramePts(pts) + 1
  /\ \/ codec' = Append(codec, FramePts(pts)) /\ pc' = "drain"
     \/ codec' = codec /\ pc' = "idle"
  /\ upThrough' = up /\ wrote' = FALSE
  /\ UNCHANGED <<flushing, packet, outputVars, up, sent>>

\* while (avcodec_receive_packet(...) == 0)
Receive ==
  /\ pc = "drain"
  /\ Len(codec) > (IF flushing THEN 0 ELSE Delay)
  /\ packet' = Head(codec) /\ codec' = Tail(codec)
  /\ pc' = "write"
  /\ UNCHANGED <<flushing, next_pts, outputVars, up, historyVars, sent>>

Drained ==
  /\ pc = "drain" /\ ~flushing
  /\ Len(codec) <= Delay
  /\ pc' = "idle"
  /\ UNCHANGED <<flushing, next_pts, codec, packet, outputVars, up, historyVars, sent>>

\* Mutant: a write error also ends the flush.
ResumeReturns(ok) == /\ packet' = None
                     /\ pc' = (IF ok THEN "drain" ELSE "idle")

\* The caller's loop goes on after write_packet and av_packet_unref, except
\* that encode_frame returns on an error with pictures left in the codec.
Resume(ok) == /\ packet' = None
              /\ pc' = (IF ok \/ flushing THEN "drain" ELSE "idle")

\* write_packet opens a missing output first; encoder_rtsp_close does not
\* call it for one.
WriteOpens ==
  /\ pc = "write" /\ ~output_open
  /\ wrote' = TRUE
  /\ \/ flushing /\ Resume(TRUE) /\ UNCHANGED outputVars
     \/ ~flushing /\ OpenOk /\ pc' = "write" /\ UNCHANGED packet
     \/ ~flushing /\ OpenFail /\ Resume(FALSE)
  /\ UNCHANGED <<flushing, next_pts, codec, up, upThrough, sent>>

\* av_interleaved_write_frame: a session the server has dropped may swallow
\* a few packets before the error shows.
WriteOk ==
  /\ pc = "write" /\ output_open
  /\ wrote' = TRUE
  /\ sent' = packet
  /\ Resume(TRUE)
  /\ UNCHANGED <<flushing, next_pts, codec, outputVars, up, upThrough>>

\* "RTSP write failed; reconnecting": the muxer has emptied the packet.
WriteError ==
  /\ pc = "write" /\ output_open
  /\ wrote' = TRUE
  /\ packet' = Blank
  /\ pc' = "reopen"
  /\ close_output
  /\ UNCHANGED <<flushing, next_pts, codec, up, upThrough, sent>>

\* Mutant: the output is closed after an error and not opened again.
ReopenNever ==
  /\ pc = "reopen"
  /\ Resume(FALSE)
  /\ UNCHANGED <<flushing, next_pts, codec, outputVars, up, historyVars, sent>>

Reopen ==
  /\ pc = "reopen"
  /\ \/ OpenOk /\ pc' = "resend" /\ UNCHANGED packet
     \/ OpenFail /\ Resume(FALSE)
  /\ UNCHANGED <<flushing, next_pts, codec, up, historyVars, sent>>

\* The second av_interleaved_write_frame gets the emptied packet.
Resend ==
  /\ pc = "resend"
  /\ \E ok \in BOOLEAN : Resume(ok)
  /\ UNCHANGED <<flushing, next_pts, codec, outputVars, up, historyVars, sent>>

\* encoder_rtsp_close: flush the codec, then free everything.
encoder_rtsp_close ==
  /\ pc = "idle"
  /\ pc' = "drain" /\ flushing' = TRUE
  /\ upThrough' = up /\ wrote' = FALSE
  /\ UNCHANGED <<next_pts, codec, packet, outputVars, up, sent>>

Closed ==
  /\ pc = "drain" /\ flushing /\ codec = <<>>
  /\ pc' = "none" /\ flushing' = FALSE
  /\ close_output
  /\ UNCHANGED <<next_pts, codec, packet, up, historyVars, sent>>

\* The server goes away or comes back.
ServerDown == /\ up
              /\ up' = FALSE /\ upThrough' = FALSE
              /\ UNCHANGED <<pc, flushing, next_pts, codec, packet, outputVars,
                             wrote, sent>>

ServerUp == /\ ~up
            /\ up' = TRUE
            /\ UNCHANGED <<pc, flushing, next_pts, codec, packet, outputVars,
                           historyVars, sent>>

Encoder == \/ encoder_rtsp_init \/ (\E pts \in Pts : encode_frame(pts))
           \/ Receive \/ Drained \/ WriteOpens \/ WriteOk \/ WriteError
           \/ Reopen \/ Resend \/ encoder_rtsp_close \/ Closed

Next == Encoder \/ ServerDown \/ ServerUp

\* A call that has begun goes on: the library calls return.
Fairness == WF_vars(Receive \/ Drained \/ WriteOpens \/ WriteOk \/ WriteError
                    \/ Reopen \/ Resend \/ Closed)

Spec == Init /\ [][Next]_vars

FairSpec == Spec /\ Fairness
-----------------------------------------------------------------------------
FlagsOK == /\ flushing \in BOOLEAN
           /\ fmt_ctx \in BOOLEAN /\ stream \in BOOLEAN /\ output_open \in BOOLEAN
           /\ up \in BOOLEAN /\ upThrough \in BOOLEAN /\ wrote \in BOOLEAN

ValuesOK == /\ pc \in {"none", "idle", "drain", "write", "reopen", "resend"}
            /\ next_pts \in 0..MaxTicks
            /\ codec \in Seq(0..MaxTicks)
            /\ packet \in 0..MaxTicks \cup {None, Blank}
            /\ contexts \in Nat
            /\ sent \in 0..MaxTicks \cup {None}

(* Every variable has its type.                                            *)
TypeOK == FlagsOK /\ ValuesOK

(* write_packet dereferences ctx->stream only when there is one, and never *)
(* writes to an output whose header was not written, whichever step of     *)
(* open_output failed earlier.                                             *)
StreamPresent ==
  /\ output_open => fmt_ctx /\ stream
  /\ pc = "resend" => output_open

(* No AVFormatContext is leaked: the half-open one an early return leaves  *)
(* behind is freed by the next open_output or by encoder_rtsp_close.       *)
NoContextLeak ==
  /\ contexts = (IF fmt_ctx THEN 1 ELSE 0)
  /\ pc = "none" => contexts = 0

(* A server that is away does not make latency grow: although encode_frame *)
(* returns early on a write error, it never leaves more pictures in the    *)
(* codec than the codec keeps back anyway.                                 *)
NoBacklog == Len(codec) <= (IF pc = "drain" THEN Delay + 1 ELSE Delay)

(* encoder_rtsp.c:136 "will retry on frames": a call that got as far as    *)
(* write_packet while the server was there throughout leaves the output    *)
(* open, whatever state an earlier outage left it in.                      *)
RetriedOnFrames == pc = "idle" /\ wrote /\ upThrough => output_open

\* Inside the codec timestamps are in order, new ones are added above them
\* and the packet in hand is below them.
InOrder ==
  /\ \A i, j \in 1..Len(codec) : i < j => codec[i] < codec[j]
  /\ \A i \in 1..Len(codec) : codec[i] < next_pts /\ sent < codec[i]
  /\ sent < next_pts
  /\ pc = "write" => /\ packet \in 0..MaxTicks
                     /\ sent < packet /\ packet < next_pts
                     /\ \A i \in 1..Len(codec) : packet < codec[i]

\* Once write_packet was reached with the server there, the output is open.
RetryInv ==
  /\ upThrough => up
  /\ pc \in {"idle", "drain", "write"} /\ ~flushing /\ wrote /\ upThrough => output_open
  /\ flushing => pc \notin {"none", "idle"}

(* The inductive invariant of the encoder.                                 *)
IInv == TypeOK /\ StreamPresent /\ NoContextLeak /\ NoBacklog /\ InOrder /\ RetryInv

(* The timestamps one encoder publishes strictly increase, across          *)
(* reconnections and restarts of the phone's clock, with errors at any     *)
(* step, and through the flush of encoder_rtsp_close.                      *)
TimestampsIncrease == [][sent' # sent /\ sent' # None => sent' > sent]_vars

(* encoder_rtsp_close finishes, also when the server is away.              *)
CloseFinishes == flushing ~> pc = "none"
=============================================================================
