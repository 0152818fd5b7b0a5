------------------------------ MODULE Picture ------------------------------
(***************************************************************************)
(* From packet to picture: the codecs of ffmpeg_decode.cc and              *)
(* mjpeg_decode.cc, the video_frame they fill, and frame_to_bgr and        *)
(* push_video_frame of source.cc, which convert it and hand it on.  A      *)
(* decoder lives as long as its connection; video_frame, the conversion    *)
(* context, the BGR buffer and the encoder outlive it, and that is what    *)
(* can go wrong here.  Two threads are involved, but never at once: module *)
(* Source shows that the reset of video_frame and the release of a decoder *)
(* do not overlap a decode (FrameNotShared, DecoderKeptWhileHeld).  A size *)
(* stands for width, height and the bytes they need.                       *)
(***************************************************************************)
EXTENDS Naturals

CONSTANTS Formats,      \* VideoFormats configured: some of "AVC", "HEVC", "MJPG"
          PixFmts,      \* pixel formats a stream can have
          Sizes         \* sizes of its pictures

ASSUME PictureFormats == Formats \subseteq {"AVC", "HEVC", "MJPG"}
ASSUME PictureSizes == Sizes \subseteq Nat \ {0}

VARIABLES format, use_hw,        \* the configuration
          decoder,               \* "none", "new", "ready" or "failed"
          hw, mSubsamp,          \* of FFMpegDecoder; of MJpegDecoder: not 0
          objects,               \* what the codecs allocated and not yet freed
          stream, changed,       \* what the phone sends; its format changed under way
          frame,                 \* plugin->video_frame
          out,                   \* the picture it describes, as the codec made it
          to_bgr,                \* plugin->to_bgr and to_bgr_format, _width, _height
          bgr_frame, bgr_frame_size,
          encoder, video_size,   \* size of the encoder, 0 for none; video_width, _height
          pc                     \* the decode thread

codecVars == <<decoder, hw, mSubsamp, objects>>
streamVars == <<stream, changed>>
bgrVars == <<to_bgr, bgr_frame, bgr_frame_size>>
encVars == <<encoder, video_size>>
config == <<format, use_hw>>
vars == <<config, codecVars, streamVars, frame, out, bgrVars, encVars, pc>>

\* accel: the hardware can decode it, if it is used.
Streams == [pix : PixFmts, accel : BOOLEAN, size : Sizes]

convert_pixel_format(f) ==
  CASE f \in {"YUV420P", "YUVJ420P"} -> "I420"
    [] f = "NV12" -> "NV12"
    [] f = "YUYV422" -> "YUY2"
    [] f = "UYVY422" -> "UYVY"
    [] f \in {"YUV422P", "YUVJ422P"} -> "I422"
    [] f = "YUV420P10LE" -> "I010"
    [] f = "P010LE" -> "P010"
    [] f = "YUV422P10LE" -> "I210"
    [] OTHER -> "NONE"

frame_pix_fmt(f) ==
  CASE f = "I420" -> "YUV420P"
    [] f = "NV12" -> "NV12"
    [] f = "YUY2" -> "YUYV422"
    [] f = "UYVY" -> "UYVY422"
    [] f = "I422" -> "YUV422P"
    [] f = "I010" -> "YUV420P10LE"
    [] f = "P010" -> "P010LE"
    [] f = "I210" -> "YUV422P10LE"
    [] OTHER -> "NONE"

Init == /\ format \in Formats /\ use_hw \in BOOLEAN
        /\ decoder = "none" /\ hw = FALSE /\ mSubsamp = FALSE /\ objects = {}
        /\ stream \in Streams /\ changed = FALSE
        /\ frame = [format |-> "NONE", size |-> 0, data |-> "null"]
        /\ out = [pix |-> "NONE", size |-> 0]
        /\ to_bgr = [made |-> FALSE, format |-> "NONE", size |-> 0]
        /\ bgr_frame = 0 /\ bgr_frame_size = 0
        /\ encoder = 0 /\ video_size = 0
        /\ pc = "pull"

-----------------------------------------------------------------------------
\* Mutant: a new MJpegDecoder takes the last one's header for its own.
NewDecoderKeepsHeader ==
  /\ decoder = "none" /\ decoder' = "new"
  /\ stream' \in Streams /\ changed' = FALSE
  /\ hw' = FALSE
  /\ UNCHANGED <<config, mSubsamp, objects, frame, out, bgrVars, encVars, pc>>

\* A connection starts: a decoder is made for the first frame.
NewDecoder ==
  /\ decoder = "none" /\ decoder' = "new"
  /\ stream' \in Streams /\ changed' = FALSE
  /\ hw' = FALSE /\ mSubsamp' = FALSE
  /\ UNCHANGED <<config, objects, frame, out, bgrVars, encVars, pc>>

\* Mutant: the frame keeps the format of the last connection.
InitDoneKeepsFormat(ok) ==
  /\ decoder' = IF ok THEN "ready" ELSE "failed"
  /\ UNCHANGED <<config, mSubsamp, streamVars, frame, out, bgrVars, encVars, pc>>

\* The rest of recv_video_frame's initialisation, whatever init returned.
InitDone(ok) ==
  /\ decoder' = IF ok THEN "ready" ELSE "failed"
  /\ frame' = [frame EXCEPT !.format = "NONE"]
  /\ UNCHANGED <<config, mSubsamp, streamVars, out, bgrVars, encVars, pc>>

\* A device for the codec was found and opened, where one may be used.
init_hw_decoder == {FALSE, use_hw}

\* FFMpegDecoder::init gets so many steps far: 0, there is no such codec;
\* 1, it cannot be opened; 2, 3, a frame or a packet cannot be allocated.
Far == 0..4

\* dev: init_hw_decoder found a device; fhw: there is a frame for it.
init_ffmpeg ==
  /\ decoder = "new" /\ format # "MJPG"
  /\ \E far \in Far, dev \in init_hw_decoder : \E fhw \in {FALSE, dev} :
       /\ objects' = (IF far >= 1 THEN {"context"} ELSE {})
                     \cup (IF far >= 1 /\ dev THEN {"hw_ctx"} ELSE {})
                     \cup (IF far >= 3 THEN {"frame"} ELSE {})
                     \cup (IF far >= 3 /\ fhw THEN {"frame_hw"} ELSE {})
                     \cup (IF far = 4 THEN {"packet"} ELSE {})
       /\ hw' = (far >= 1 /\ (IF far >= 3 THEN fhw ELSE dev))
       /\ InitDone(far = 4)

init_mjpeg == /\ decoder = "new" /\ format = "MJPG"
              /\ \E ok \in BOOLEAN : objects' = (IF ok THEN {"tj"} ELSE {}) /\ InitDone(ok)
              /\ UNCHANGED hw

\* Mutant: the reference to the hardware device is not given back.
DestroyLeaks == objects' = objects \ {"context", "frame", "frame_hw", "packet", "tj", "frameBuf"}

\* The destructors.
Destroy == objects' = objects \ {"context", "hw_ctx", "frame", "frame_hw", "packet", "tj", "frameBuf"}

\* The connection is over: release_decoder.  video_frame still points at the
\* planes of the decoder that is gone.
Release == /\ decoder # "none" /\ pc = "pull"
           /\ decoder' = "none" /\ Destroy
           /\ frame' = [frame EXCEPT !.data = IF @ = "live" THEN "gone" ELSE @]
           /\ UNCHANGED <<config, hw, mSubsamp, streamVars, out, bgrVars, encVars, pc>>

\* The phone changes size or, which no code expects, pixel format.
StreamChanges == /\ decoder = "ready"
                 /\ \E s \in Streams : /\ s.accel = stream.accel
                                       /\ stream' = s
                                       /\ changed' = (changed \/ s.pix # stream.pix)
                 /\ UNCHANGED <<config, codecVars, frame, out, bgrVars, encVars, pc>>

-----------------------------------------------------------------------------
\* decode_video returns false: the decoder has failed for good.  (It returns
\* true without a picture when the codec wants more data: nothing changes.)
DecodeFails == /\ decoder = "ready" /\ pc = "pull"
               /\ decoder' = "failed"
               /\ UNCHANGED <<config, hw, mSubsamp, objects, streamVars, frame, out, bgrVars, encVars, pc>>

\* What the frame has in it: a picture in hardware memory is only copied out
\* if there is a frame to receive it in.
Received == IF "hw_ctx" \in objects /\ stream.accel /\ ~hw THEN "HW" ELSE stream.pix

\* FFMpegDecoder::decode_video with a picture; a failed copy is DecodeFails.
decode_ffmpeg ==
  /\ decoder = "ready" /\ pc = "pull" /\ format # "MJPG"
  /\ out' = [pix |-> Received, size |-> stream.size]
  /\ LET f == IF frame.format = "NONE" THEN convert_pixel_format(Received) ELSE frame.format IN
     IF f = "NONE"
     THEN /\ decoder' = "failed" /\ frame' = [frame EXCEPT !.data = "live"]
          /\ UNCHANGED pc
     ELSE /\ frame' = [format |-> f, size |-> stream.size, data |-> "live"]
          /\ pc' = "decoded" /\ UNCHANGED decoder
  /\ UNCHANGED <<config, hw, mSubsamp, objects, streamVars, bgrVars, encVars>>

\* MJpegDecoder::decode_video: only the first header is looked at.  Later
\* pictures are scaled into the buffer made for it.  A picture that cannot
\* be decompressed leaves the header in place, with the decoder failed.
decode_mjpeg ==
  /\ decoder = "ready" /\ pc = "pull" /\ format = "MJPG"
  /\ frame' = IF mSubsamp THEN frame
              ELSE [format |-> "I420", size |-> stream.size, data |-> "live"]
  /\ objects' = objects \cup (IF mSubsamp THEN {} ELSE {"frameBuf"})
  /\ mSubsamp' = TRUE
  /\ out' = [pix |-> "YUV420P", size |-> frame'.size]
  /\ \/ pc' = "decoded" /\ UNCHANGED decoder
     \/ decoder' = "failed" /\ UNCHANGED pc
  /\ UNCHANGED <<config, hw, streamVars, bgrVars, encVars>>

\* frame_to_bgr up to the conversion: the buffer only grows.  After a failed
\* allocation its size says otherwise.
Buffer == IF bgr_frame_size >= frame.size
          THEN UNCHANGED <<bgr_frame, bgr_frame_size>>
          ELSE bgr_frame' \in {0, frame.size} /\ bgr_frame_size' = frame.size

\* Mutant: a new size does not call for a new context.
ContextKeepsSize == IF to_bgr.made /\ to_bgr.format = frame.format
                    THEN UNCHANGED to_bgr
                    ELSE \E ok \in BOOLEAN :
                           to_bgr' = [made |-> ok, format |-> frame.format, size |-> frame.size]

Context == IF to_bgr.made /\ to_bgr.format = frame.format /\ to_bgr.size = frame.size
           THEN UNCHANGED to_bgr
           ELSE \E ok \in BOOLEAN :
                  to_bgr' = [made |-> ok, format |-> frame.format, size |-> frame.size]

frame_to_bgr == /\ pc = "decoded"
                /\ IF frame_pix_fmt(frame.format) = "NONE"
                   THEN pc' = "pull" /\ UNCHANGED bgrVars
                   ELSE /\ Buffer
                        /\ IF bgr_frame' = 0
                           THEN pc' = "pull" /\ UNCHANGED to_bgr
                           ELSE Context /\ pc' = IF to_bgr'.made THEN "scale" ELSE "pull"
                /\ UNCHANGED <<config, codecVars, streamVars, frame, out, encVars>>

sws_scale == /\ pc = "scale"
             /\ pc' \in {"push", "pull"}
             /\ UNCHANGED <<config, codecVars, streamVars, frame, out, bgrVars, encVars>>

\* push_video_frame: the preview is shown, a new size gets a new encoder.
push_video_frame ==
  /\ pc = "push"
  /\ IF encoder # 0 /\ video_size = frame.size
     THEN UNCHANGED encVars
     ELSE video_size' = frame.size /\ encoder' \in {0, frame.size}
  /\ pc' = IF encoder' = 0 THEN "pull" ELSE "encode"
  /\ UNCHANGED <<config, codecVars, streamVars, frame, out, bgrVars>>

encode_frame == /\ pc = "encode" /\ pc' = "pull"
                /\ UNCHANGED <<config, codecVars, streamVars, frame, out, bgrVars, encVars>>

Next == \/ NewDecoder \/ init_ffmpeg \/ init_mjpeg \/ Release \/ StreamChanges
        \/ DecodeFails \/ decode_ffmpeg \/ decode_mjpeg
        \/ frame_to_bgr \/ sws_scale \/ push_video_frame \/ encode_frame

Spec == Init /\ [][Next]_vars

-----------------------------------------------------------------------------
\* The same planes, up to the range of the colours.
SameLayout(f, g) == \/ f = g
                    \/ {f, g} = {"YUV420P", "YUVJ420P"}
                    \/ {f, g} = {"YUV422P", "YUVJ422P"}

(* A picture is converted, and as what it is: the format swscale is told   *)
(* is the one the codec made, over every reconnection, whether or not      *)
(* hardware was used, as long as a stream keeps its pixel format.          *)
(* frame.format is only set once per connection: a stream that changes it  *)
(* breaks this.                                                            *)
FormatTrue == pc \in {"decoded", "scale"} /\ ~changed =>
  /\ frame_pix_fmt(frame.format) # "NONE"
  /\ SameLayout(frame_pix_fmt(frame.format), out.pix)

(* The planes a conversion reads belong to the decoder that is alive:      *)
(* video_frame keeps pointers into a decoder that is gone, and the MJPEG   *)
(* decoder only sets them with its first header.                           *)
PlanesLive == pc \in {"decoded", "scale"} =>
  /\ frame.data = "live" /\ frame.size = out.size
  /\ format = "MJPG" => "frameBuf" \in objects

(* Sizes agree where memory is written: the conversion context was made    *)
(* for this format and size, the BGR buffer is there and large enough, and *)
(* the encoder reads pictures of the size it was opened for, whatever      *)
(* allocation or initialisation failed for an earlier picture.             *)
SizesAgree ==
  /\ pc = "scale" => /\ to_bgr = [made |-> TRUE, format |-> frame.format, size |-> frame.size]
                     /\ bgr_frame >= frame.size
  /\ pc = "encode" => encoder = frame.size /\ bgr_frame >= encoder

(* A decoder that is gone has freed all that its init and its decoding     *)
(* allocated, however far init got.                                        *)
ObjectsFreed == decoder = "none" => objects = {}
=============================================================================
