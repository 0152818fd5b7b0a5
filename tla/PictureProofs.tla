--------------------------- MODULE PictureProofs ---------------------------
(***************************************************************************)
(* The four invariants of Picture, for every set of pixel formats and      *)
(* sizes.  The inductive invariant adds what a connection keeps from its   *)
(* first picture to its last (Described), what the destructors can count   *)
(* on (Owned), and that a size recorded after a failure is never taken for *)
(* a buffer or an encoder (Recorded).                                      *)
(***************************************************************************)
EXTENDS Picture, TLAPS

PixelFormats == {"NONE", "I420", "NV12", "YUY2", "UYVY", "I422", "I010", "P010", "I210"}

\* The types the other parts need.
Types == /\ frame \in [format : PixelFormats, size : Nat, data : {"null", "live", "gone"}]
         /\ stream \in Streams
         /\ to_bgr \in [made : BOOLEAN, format : PixelFormats, size : Nat]
         /\ bgr_frame \in Nat /\ bgr_frame_size \in Nat
         /\ mSubsamp \in BOOLEAN /\ changed \in BOOLEAN
         /\ pc \in {"pull", "decoded", "scale", "push", "encode"}
         /\ decoder \in {"none", "new", "ready", "failed"}

\* Before init nothing is allocated, and the destructors know everything.
Owned == /\ objects \subseteq {"context", "hw_ctx", "frame", "frame_hw", "packet", "tj", "frameBuf"}
         /\ decoder \in {"none", "new"} => objects = {}
         /\ decoder = "new" => ~mSubsamp
         /\ pc # "pull" => decoder = "ready"

\* What a connection keeps: the format of its first picture; the planes and
\* the buffer of the MJPEG decoder from its first header on.
Described ==
  /\ decoder = "ready" /\ format # "MJPG" /\ frame.format # "NONE" /\ ~changed =>
       frame.format = convert_pixel_format(Received)
  /\ decoder = "ready" /\ format = "MJPG" /\ mSubsamp =>
       frame.format = "I420" /\ frame.data = "live" /\ "frameBuf" \in objects

\* The picture between the codec and the conversion.
Decoded ==
  pc \in {"decoded", "scale"} =>
    /\ frame.data = "live" /\ frame.size = out.size
    /\ format # "MJPG" => frame.format # "NONE" /\ (~changed => out.pix = Received)
    /\ format = "MJPG" => mSubsamp /\ out.pix = "YUV420P"

Recorded ==
  /\ bgr_frame \in {0, bgr_frame_size}
  /\ encoder \in {0, video_size}
  /\ pc = "scale" => to_bgr = [made |-> TRUE, format |-> frame.format, size |-> frame.size]
  /\ pc \in {"scale", "push", "encode"} => bgr_frame >= frame.size
  /\ pc = "encode" => encoder = frame.size

IInv == Types /\ Owned /\ Described /\ Decoded /\ Recorded

-----------------------------------------------------------------------------
\* convert_pixel_format and frame_pix_fmt are inverse where both are defined.
LEMMA Convert == \A f : /\ convert_pixel_format(f) \in PixelFormats
                        /\ convert_pixel_format(f) # "NONE" =>
                             SameLayout(frame_pix_fmt(convert_pixel_format(f)), f)
BY DEF convert_pixel_format, frame_pix_fmt, SameLayout, PixelFormats

\* Every format but NONE can be converted.
LEMMA Convertible == \A f \in PixelFormats \ {"NONE"} : frame_pix_fmt(f) # "NONE"
BY DEF frame_pix_fmt, PixelFormats

\* What a picture of the stream looks like does not depend on its size.
LEMMA StreamKept ==
  ASSUME stream'.pix = stream.pix, stream'.accel = stream.accel, UNCHANGED <<objects, hw>>
  PROVE Received' = Received
BY DEF Received

LEMMA InitIInv == Init => IInv
<1> SUFFICES ASSUME Init PROVE IInv
  OBVIOUS
<1>1. Types BY DEF Init, Types, PixelFormats
<1>2. Owned BY DEF Init, Owned
<1>3. Described /\ Decoded BY DEF Init, Described, Decoded
<1>4. Recorded BY DEF Init, Recorded
<1> QED BY <1>1, <1>2, <1>3, <1>4 DEF IInv

LEMMA InitDoneIInv ==
  ASSUME IInv, NEW ok \in BOOLEAN, decoder = "new", InitDone(ok),
         objects' \subseteq {"context", "hw_ctx", "frame", "frame_hw", "packet", "tj"}
  PROVE IInv'
<1>1. Types' BY DEF IInv, InitDone, Types, config, streamVars, bgrVars, encVars, PixelFormats
<1>2. Owned' BY DEF IInv, InitDone, Types, Owned, config, streamVars, bgrVars, encVars
<1>3. Described' /\ Decoded'
  BY DEF IInv, InitDone, Types, Owned, Described, Decoded, config, streamVars, bgrVars, encVars
<1>4. Recorded'
  BY DEF IInv, InitDone, Types, Owned, Recorded, config, streamVars, bgrVars, encVars
<1> QED BY <1>1, <1>2, <1>3, <1>4 DEF IInv

LEMMA NextIInv == IInv /\ [Next]_vars => IInv'
<1> SUFFICES ASSUME IInv, [Next]_vars PROVE IInv'
  OBVIOUS
<1> USE PictureSizes DEF config, codecVars, streamVars, bgrVars, encVars
<1>1. CASE NewDecoder
  BY <1>1 DEF NewDecoder, IInv, Types, Owned, Described, Decoded, Recorded
<1>2. CASE init_ffmpeg
  <2>1. /\ decoder = "new"
        /\ objects' \subseteq {"context", "hw_ctx", "frame", "frame_hw", "packet", "tj"}
        /\ \E ok \in BOOLEAN : InitDone(ok)
    BY <1>2 DEF init_ffmpeg, Far, init_hw_decoder
  <2> QED BY <2>1, InitDoneIInv
<1>3. CASE init_mjpeg
  <2>1. /\ decoder = "new"
        /\ objects' \subseteq {"context", "hw_ctx", "frame", "frame_hw", "packet", "tj"}
        /\ \E ok \in BOOLEAN : InitDone(ok)
    BY <1>3 DEF init_mjpeg
  <2> QED BY <2>1, InitDoneIInv
<1>4. CASE Release
  BY <1>4 DEF Release, Destroy, IInv, Types, Owned, Described, Decoded, Recorded
<1>5. CASE StreamChanges
  <2>1. Types' /\ Owned' /\ Recorded'
    BY <1>5 DEF StreamChanges, IInv, Types, Owned, Recorded
  <2>2. ~changed' => ~changed /\ Received' = Received
    BY <1>5, StreamKept DEF StreamChanges, IInv, Types
  <2>3. Described' /\ Decoded'
    BY <1>5, <2>2 DEF StreamChanges, IInv, Types, Described, Decoded
  <2> QED BY <2>1, <2>3 DEF IInv
<1>6. CASE DecodeFails
  BY <1>6 DEF DecodeFails, IInv, Types, Owned, Described, Decoded, Recorded
<1>7. CASE decode_ffmpeg
  <2> DEFINE f == IF frame.format = "NONE" THEN convert_pixel_format(Received) ELSE frame.format
  <2>1. f \in PixelFormats BY Convert DEF IInv, Types
  <2>2. Received' = Received /\ UNCHANGED <<changed, format, mSubsamp, objects, stream>>
    BY <1>7, StreamKept DEF decode_ffmpeg
  <2>3. CASE f = "NONE"
    <3>1. frame' = [frame EXCEPT !.data = "live"] /\ decoder' = "failed" /\ pc' = "pull"
      BY <1>7, <2>3 DEF decode_ffmpeg
    <3> QED BY <1>7, <2>2, <3>1 DEF decode_ffmpeg, IInv, Types, Owned, Described, Decoded, Recorded
  <2>4. CASE f # "NONE"
    <3>1. /\ frame' = [format |-> f, size |-> stream.size, data |-> "live"]
          /\ pc' = "decoded" /\ decoder' = "ready" /\ decoder = "ready" /\ format # "MJPG"
          /\ out' = [pix |-> Received, size |-> stream.size]
          /\ UNCHANGED <<to_bgr, bgr_frame, bgr_frame_size, encoder, video_size>>
      BY <1>7, <2>4 DEF decode_ffmpeg
    <3>2. Types' BY <3>1, <2>1, <2>2 DEF IInv, Types, Streams
    <3>3. Owned' /\ Recorded' BY <3>1, <2>2 DEF IInv, Types, Owned, Recorded
    <3>4. ~changed => f = convert_pixel_format(Received)
      BY <3>1 DEF IInv, Types, Described
    <3>5. Described' /\ Decoded'
      BY <3>1, <2>2, <2>4, <3>4 DEF Described, Decoded, convert_pixel_format
    <3> QED BY <3>2, <3>3, <3>5 DEF IInv
  <2> QED BY <2>3, <2>4
<1>8. CASE decode_mjpeg
  BY <1>8 DEF decode_mjpeg, IInv, Types, Owned, Described, Decoded, Recorded, Streams, PixelFormats
<1>9. CASE frame_to_bgr
  <2>1. Received' = Received BY <1>9, StreamKept DEF frame_to_bgr
  <2>2. Types'
    BY <1>9 DEF frame_to_bgr, Buffer, Context, IInv, Types
  <2>3. Owned' /\ Described' /\ Decoded'
    BY <1>9, <2>1 DEF frame_to_bgr, IInv, Types, Owned, Described, Decoded
  <2>4. Recorded'
    BY <1>9 DEF frame_to_bgr, Buffer, Context, IInv, Types, Recorded
  <2> QED BY <2>2, <2>3, <2>4 DEF IInv
<1>10. CASE sws_scale
  <2>1. Received' = Received BY <1>10, StreamKept DEF sws_scale
  <2> QED BY <1>10, <2>1 DEF sws_scale, IInv, Types, Owned, Described, Decoded, Recorded
<1>11. CASE push_video_frame
  <2>1. Received' = Received BY <1>11, StreamKept DEF push_video_frame
  <2>2. Types' /\ Owned' /\ Described' /\ Decoded'
    BY <1>11, <2>1 DEF push_video_frame, IInv, Types, Owned, Described, Decoded
  <2>3. Recorded'
    BY <1>11 DEF push_video_frame, IInv, Types, Recorded
  <2> QED BY <2>2, <2>3 DEF IInv
<1>12. CASE encode_frame
  <2>1. Received' = Received BY <1>12, StreamKept DEF encode_frame
  <2> QED BY <1>12, <2>1 DEF encode_frame, IInv, Types, Owned, Described, Decoded, Recorded
<1>13. CASE UNCHANGED vars
  <2>1. Received' = Received BY <1>13, StreamKept DEF vars
  <2> QED BY <1>13, <2>1 DEF vars, IInv, Types, Owned, Described, Decoded, Recorded
<1> QED BY <1>1, <1>2, <1>3, <1>4, <1>5, <1>6, <1>7, <1>8, <1>9, <1>10, <1>11, <1>12, <1>13 DEF Next

LEMMA Invariant == Spec => []IInv
BY InitIInv, NextIInv, PTL DEF Spec

-----------------------------------------------------------------------------
(* The format frame_to_bgr gives swscale is the one the codec of this      *)
(* connection produced, and it is always one that can be converted.        *)
THEOREM FormatStaysTrue == Spec => []FormatTrue
<1>1. IInv => FormatTrue
  BY Convert, Convertible DEF IInv, Types, Owned, Described, Decoded, FormatTrue,
                              SameLayout, frame_pix_fmt
<1> QED BY <1>1, Invariant, PTL

(* frame_to_bgr and sws_scale only read planes of the decoder that is      *)
(* alive, which it has set itself.                                         *)
THEOREM PlanesStayLive == Spec => []PlanesLive
<1>1. IInv => PlanesLive BY DEF IInv, Owned, Described, Decoded, PlanesLive
<1> QED BY <1>1, Invariant, PTL

(* The conversion context, the BGR buffer and the encoder always have the  *)
(* size of the picture they are used for, whichever call failed before.    *)
THEOREM SizesAlwaysAgree == Spec => []SizesAgree
<1>1. IInv => SizesAgree BY DEF IInv, Types, Recorded, SizesAgree
<1> QED BY <1>1, Invariant, PTL

(* The destructors free all that init and decode_video allocated.          *)
THEOREM ObjectsAlwaysFreed == Spec => []ObjectsFreed
<1>1. IInv => ObjectsFreed BY DEF IInv, Owned, ObjectsFreed
<1> QED BY <1>1, Invariant, PTL
=============================================================================
