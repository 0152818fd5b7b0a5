-------------------------- MODULE EncoderRtspProofs --------------------------
(***************************************************************************)
(* The safety properties of the RTSP encoder for every frame rate, clock   *)
(* unit, codec delay and sequence of timestamps and server outages.        *)
(***************************************************************************)
EXTENDS EncoderRtsp, TLAPS

(* What taking the first element of a queue leaves.                        *)
LEMMA HeadTail ==
  ASSUME NEW S, NEW s \in Seq(S), s # <<>>
  PROVE  /\ Head(s) \in S /\ Head(s) = s[1] /\ 1 \in 1..Len(s)
         /\ Tail(s) \in Seq(S) /\ Len(Tail(s)) = Len(s) - 1
         /\ \A i \in 1..Len(Tail(s)) : i + 1 \in 1..Len(s) /\ Tail(s)[i] = s[i + 1]
  OBVIOUS

(* What adding an element to a queue leaves.                               *)
LEMMA Appended ==
  ASSUME NEW S, NEW s \in Seq(S), NEW x \in S
  PROVE  /\ Append(s, x) \in Seq(S) /\ Len(Append(s, x)) = Len(s) + 1
         /\ \A i \in 1..Len(s) : Append(s, x)[i] = s[i]
         /\ Append(s, x)[Len(s) + 1] = x
  OBVIOUS

(* The elements of a queue have its type.                                  *)
LEMMA Elements ==
  ASSUME NEW S, NEW s \in Seq(S)
  PROVE  Len(s) \in Nat /\ \A i \in 1..Len(s) : s[i] \in S
  OBVIOUS

(* The timestamp given to the codec is a natural number, not below         *)
(* next_pts, whatever the phone sent.                                      *)
LEMMA FramePtsBound ==
  ASSUME NEW pts \in Pts, next_pts \in Nat
  PROVE  FramePts(pts) \in Nat /\ FramePts(pts) >= next_pts
<1>1. pts \in Int
  BY PtsAssumption
<1>2. Ticks(pts) \in Int
  <2>1. 2 * pts * Fps + Second \in Int /\ 2 * Second \in Nat \ {0}
    BY <1>1, FpsAssumption, SecondAssumption
  <2> QED BY <2>1 DEF Ticks
<1> HIDE DEF Ticks
<1> QED BY <1>2 DEF FramePts

(* There is no encoder, no context and no timestamp at the start.          *)
LEMMA InitIInv == Init => IInv
<1> SUFFICES ASSUME Init PROVE IInv
  OBVIOUS
<1>1. FlagsOK
  BY DEF Init, FlagsOK
<1>2. ValuesOK
  BY MaxTicksAssumption DEF Init, ValuesOK, None
<1>3. StreamPresent /\ NoContextLeak /\ NoBacklog /\ InOrder /\ RetryInv
  BY DelayAssumption DEF Init, StreamPresent, NoContextLeak, NoBacklog, InOrder, RetryInv, None
<1> QED BY <1>1, <1>2, <1>3 DEF IInv, TypeOK

(* The flags of the encoder stay Boolean.                                  *)
LEMMA FlagsStep == FlagsOK /\ [Next]_vars => FlagsOK'
<1> SUFFICES ASSUME FlagsOK, [Next]_vars PROVE FlagsOK'
  OBVIOUS
<1> USE DEF FlagsOK, outputVars, historyVars
<1>1. ASSUME NEW pts \in Pts, encode_frame(pts) PROVE FlagsOK'
  BY <1>1, Zenon DEF encode_frame
<1>2. CASE encoder_rtsp_init
  BY <1>2, Zenon DEF encoder_rtsp_init, OpenOk, OpenFail, OpenFailFreed,
     OpenFailKept, close_output, AfterClose
<1>3. CASE Receive
  BY <1>3, Zenon DEF Receive
<1>4. CASE Drained
  BY <1>4, Zenon DEF Drained
<1>5. CASE WriteOpens
  BY <1>5, Zenon DEF WriteOpens, Resume, OpenOk, OpenFail, OpenFailFreed,
     OpenFailKept, close_output, AfterClose
<1>6. CASE WriteOk
  BY <1>6, Zenon DEF WriteOk, Resume
<1>7. CASE WriteError
  BY <1>7, Zenon DEF WriteError, close_output, AfterClose
<1>8. CASE Reopen
  BY <1>8, Zenon DEF Reopen, Resume, OpenOk, OpenFail, OpenFailFreed,
     OpenFailKept, close_output, AfterClose
<1>9. CASE Resend
  BY <1>9, Zenon DEF Resend, Resume
<1>10. CASE encoder_rtsp_close
  BY <1>10, Zenon DEF encoder_rtsp_close
<1>11. CASE Closed
  BY <1>11, Zenon DEF Closed, close_output, AfterClose
<1>12. CASE ServerDown
  BY <1>12, Zenon DEF ServerDown
<1>13. CASE ServerUp
  BY <1>13, Zenon DEF ServerUp
<1>14. CASE UNCHANGED vars
  BY <1>14 DEF vars
<1> QED BY <1>1, <1>2, <1>3, <1>4, <1>5, <1>6, <1>7, <1>8, <1>9, <1>10, <1>11, <1>12, <1>13, <1>14
        DEF Next, Encoder

(* Every step keeps timestamps, packets and counters in their ranges.      *)
LEMMA ValuesStep == IInv /\ [Next]_vars => ValuesOK'
<1> SUFFICES ASSUME IInv, [Next]_vars PROVE ValuesOK'
  OBVIOUS
<1> USE DEF IInv, TypeOK, ValuesOK, NoContextLeak, InOrder, None, Blank, outputVars, historyVars
<1>1. ASSUME NEW pts \in Pts, encode_frame(pts) PROVE ValuesOK'
  <2>1. /\ FramePts(pts) \in Nat /\ FramePts(pts) >= next_pts
        /\ FramePts(pts) \in 0..MaxTicks
    BY <1>1, FramePtsBound, MaxTicksAssumption DEF encode_frame
  <2>2. next_pts' \in 0..MaxTicks
    BY <1>1, <2>1, MaxTicksAssumption DEF encode_frame
  <2>3. codec' \in Seq(0..MaxTicks)
    <3>1. codec \in Seq(0..MaxTicks)
      OBVIOUS
    <3>2. Append(codec, FramePts(pts)) \in Seq(0..MaxTicks)
      BY <2>1, <3>1, Appended
    <3> QED BY <1>1, <3>1, <3>2 DEF encode_frame
  <2> QED BY <1>1, <2>2, <2>3 DEF encode_frame
<1>2. CASE encoder_rtsp_init
  BY <1>2, MaxTicksAssumption DEF encoder_rtsp_init, OpenOk, OpenFail, OpenFailFreed,
     OpenFailKept, close_output, AfterClose
<1>3. CASE Receive
  <2>1. codec # <<>>
    BY <1>3, DelayAssumption DEF Receive
  <2>2. Head(codec) \in 0..MaxTicks /\ Tail(codec) \in Seq(0..MaxTicks)
    BY <2>1, HeadTail
  <2> QED BY <1>3, <2>2 DEF Receive
<1>4. CASE Drained
  BY <1>4, MaxTicksAssumption DEF Drained
<1>5. CASE WriteOpens
  BY <1>5, MaxTicksAssumption DEF WriteOpens, Resume, OpenOk, OpenFail, OpenFailFreed,
     OpenFailKept, close_output, AfterClose
<1>6. CASE WriteOk
  BY <1>6, MaxTicksAssumption DEF WriteOk, Resume
<1>7. CASE WriteError
  BY <1>7, MaxTicksAssumption DEF WriteError, close_output, AfterClose
<1>8. CASE Reopen
  BY <1>8, MaxTicksAssumption DEF Reopen, Resume, OpenOk, OpenFail, OpenFailFreed,
     OpenFailKept, close_output, AfterClose
<1>9. CASE Resend
  BY <1>9, MaxTicksAssumption DEF Resend, Resume
<1>10. CASE encoder_rtsp_close
  BY <1>10, MaxTicksAssumption DEF encoder_rtsp_close
<1>11. CASE Closed
  BY <1>11, MaxTicksAssumption DEF Closed, close_output, AfterClose
<1>12. CASE ServerDown
  BY <1>12, MaxTicksAssumption DEF ServerDown
<1>13. CASE ServerUp
  BY <1>13, MaxTicksAssumption DEF ServerUp
<1>14. CASE UNCHANGED vars
  BY <1>14 DEF vars
<1> QED BY <1>1, <1>2, <1>3, <1>4, <1>5, <1>6, <1>7, <1>8, <1>9, <1>10, <1>11, <1>12, <1>13, <1>14
        DEF Next, Encoder

(* Every step keeps the state of the output consistent.                    *)
LEMMA OutputStep == IInv /\ [Next]_vars => (StreamPresent /\ NoContextLeak /\ RetryInv)'
<1> SUFFICES ASSUME IInv, [Next]_vars PROVE (StreamPresent /\ NoContextLeak /\ RetryInv)'
  OBVIOUS
<1> USE DEF IInv, TypeOK, FlagsOK, ValuesOK, StreamPresent, NoContextLeak, RetryInv,
            outputVars, historyVars
<1>1. ASSUME NEW pts \in Pts, encode_frame(pts) PROVE (StreamPresent /\ NoContextLeak /\ RetryInv)'
  BY <1>1 DEF encode_frame
<1>2. CASE encoder_rtsp_init
  BY <1>2 DEF encoder_rtsp_init, OpenOk, OpenFail, OpenFailFreed,
     OpenFailKept, close_output, AfterClose
<1>3. CASE Receive
  BY <1>3 DEF Receive
<1>4. CASE Drained
  BY <1>4 DEF Drained
<1>5. CASE WriteOpens
  BY <1>5 DEF WriteOpens, Resume, OpenOk, OpenFail, OpenFailFreed,
     OpenFailKept, close_output, AfterClose
<1>6. CASE WriteOk
  BY <1>6 DEF WriteOk, Resume
<1>7. CASE WriteError
  BY <1>7 DEF WriteError, close_output, AfterClose
<1>8. CASE Reopen
  BY <1>8 DEF Reopen, Resume, OpenOk, OpenFail, OpenFailFreed,
     OpenFailKept, close_output, AfterClose
<1>9. CASE Resend
  BY <1>9 DEF Resend, Resume
<1>10. CASE encoder_rtsp_close
  BY <1>10 DEF encoder_rtsp_close
<1>11. CASE Closed
  BY <1>11 DEF Closed, close_output, AfterClose
<1>12. CASE ServerDown
  BY <1>12 DEF ServerDown
<1>13. CASE ServerUp
  BY <1>13 DEF ServerUp
<1>14. CASE UNCHANGED vars
  BY <1>14 DEF vars
<1> QED BY <1>1, <1>2, <1>3, <1>4, <1>5, <1>6, <1>7, <1>8, <1>9, <1>10, <1>11, <1>12, <1>13, <1>14
        DEF Next, Encoder

(* No step leaves more in the codec than its delay.                        *)
LEMMA BacklogStep == IInv /\ [Next]_vars => NoBacklog'
<1> SUFFICES ASSUME IInv, [Next]_vars PROVE NoBacklog'
  OBVIOUS
<1> USE DEF IInv, TypeOK, ValuesOK, NoBacklog, outputVars, historyVars
<1>1. ASSUME NEW pts \in Pts, encode_frame(pts) PROVE NoBacklog'
  BY <1>1, FramePtsBound, DelayAssumption, MaxTicksAssumption DEF encode_frame
<1>2. CASE encoder_rtsp_init
  BY <1>2, DelayAssumption DEF encoder_rtsp_init, OpenOk, OpenFail, OpenFailFreed,
     OpenFailKept, close_output, AfterClose
<1>3. CASE Receive
  BY <1>3, DelayAssumption DEF Receive
<1>4. CASE Drained
  BY <1>4, DelayAssumption DEF Drained
<1>5. CASE WriteOpens
  BY <1>5, DelayAssumption DEF WriteOpens, Resume, OpenOk, OpenFail, OpenFailFreed,
     OpenFailKept, close_output, AfterClose
<1>6. CASE WriteOk
  BY <1>6, DelayAssumption DEF WriteOk, Resume
<1>7. CASE WriteError
  BY <1>7, DelayAssumption DEF WriteError, close_output, AfterClose
<1>8. CASE Reopen
  BY <1>8, DelayAssumption DEF Reopen, Resume, OpenOk, OpenFail, OpenFailFreed,
     OpenFailKept, close_output, AfterClose
<1>9. CASE Resend
  BY <1>9, DelayAssumption DEF Resend, Resume
<1>10. CASE encoder_rtsp_close
  BY <1>10, DelayAssumption DEF encoder_rtsp_close
<1>11. CASE Closed
  BY <1>11, DelayAssumption DEF Closed, close_output, AfterClose
<1>12. CASE ServerDown
  BY <1>12, DelayAssumption DEF ServerDown
<1>13. CASE ServerUp
  BY <1>13, DelayAssumption DEF ServerUp
<1>14. CASE UNCHANGED vars
  BY <1>14 DEF vars
<1> QED BY <1>1, <1>2, <1>3, <1>4, <1>5, <1>6, <1>7, <1>8, <1>9, <1>10, <1>11, <1>12, <1>13, <1>14
        DEF Next, Encoder

(* No step disturbs the order of timestamps inside the encoder.            *)
LEMMA OrderStep == IInv /\ [Next]_vars => InOrder'
<1> SUFFICES ASSUME IInv, [Next]_vars PROVE InOrder'
  OBVIOUS
<1> USE DEF IInv, TypeOK, ValuesOK, InOrder, None, Blank, outputVars, historyVars
<1>1. ASSUME NEW pts \in Pts, encode_frame(pts) PROVE InOrder'
  <2> DEFINE f == FramePts(pts)
  <2>1. f \in Nat /\ f >= next_pts /\ f \in 0..MaxTicks
    BY <1>1, FramePtsBound, MaxTicksAssumption DEF encode_frame
  <2> HIDE DEF f
  <2>2. next_pts' = f + 1 /\ sent' = sent /\ pc' # "write"
    BY <1>1 DEF encode_frame, f
  <2>3. /\ \A i \in 1..Len(codec) : codec[i] \in Int
        /\ next_pts \in Int /\ sent \in Int /\ Len(codec) \in Nat
    BY Elements, MaxTicksAssumption
  <2>4. InOrder
    OBVIOUS
  <2> HIDE DEF IInv
  <2>5. CASE codec' = codec
    BY <2>1, <2>2, <2>5, <2>3, <2>4
  <2>6. CASE codec' = Append(codec, f)
    <3>1. /\ Len(codec') = Len(codec) + 1
          /\ \A i \in 1..Len(codec) : codec'[i] = codec[i]
          /\ codec'[Len(codec) + 1] = f
      BY <2>1, <2>6, Appended DEF IInv
    <3> QED BY <2>1, <2>2, <2>3, <2>4, <3>1
  <2> QED BY <1>1, <2>5, <2>6 DEF encode_frame, f
<1>2. CASE encoder_rtsp_init
  BY <1>2, MaxTicksAssumption DEF encoder_rtsp_init, OpenOk, OpenFail, OpenFailFreed,
     OpenFailKept, close_output, AfterClose
<1>3. CASE Receive
  <2>1. codec # <<>> /\ codec' = Tail(codec) /\ packet' = Head(codec)
        /\ UNCHANGED <<sent, next_pts>>
    BY <1>3, DelayAssumption DEF Receive
  <2>2. /\ Len(codec') = Len(codec) - 1
        /\ \A i \in 1..Len(codec') : i + 1 \in 1..Len(codec) /\ codec'[i] = codec[i + 1]
        /\ packet' = codec[1] /\ 1 \in 1..Len(codec)
    BY <2>1, HeadTail
  <2>3. \A i \in 1..Len(codec) : codec[i] \in 0..MaxTicks
    BY Elements
  <2> QED BY <2>1, <2>2, <2>3
<1>4. CASE Drained
  BY <1>4, MaxTicksAssumption DEF Drained
<1>5. CASE WriteOpens
  BY <1>5, MaxTicksAssumption DEF WriteOpens, Resume, OpenOk, OpenFail, OpenFailFreed,
     OpenFailKept, close_output, AfterClose
<1>6. CASE WriteOk
  BY <1>6, MaxTicksAssumption DEF WriteOk, Resume
<1>7. CASE WriteError
  BY <1>7, MaxTicksAssumption DEF WriteError, close_output, AfterClose
<1>8. CASE Reopen
  BY <1>8, MaxTicksAssumption DEF Reopen, Resume, OpenOk, OpenFail, OpenFailFreed,
     OpenFailKept, close_output, AfterClose
<1>9. CASE Resend
  BY <1>9, MaxTicksAssumption DEF Resend, Resume
<1>10. CASE encoder_rtsp_close
  BY <1>10, MaxTicksAssumption DEF encoder_rtsp_close
<1>11. CASE Closed
  BY <1>11, MaxTicksAssumption DEF Closed, close_output, AfterClose
<1>12. CASE ServerDown
  BY <1>12, MaxTicksAssumption DEF ServerDown
<1>13. CASE ServerUp
  BY <1>13, MaxTicksAssumption DEF ServerUp
<1>14. CASE UNCHANGED vars
  BY <1>14 DEF vars
<1> QED BY <1>1, <1>2, <1>3, <1>4, <1>5, <1>6, <1>7, <1>8, <1>9, <1>10, <1>11, <1>12, <1>13, <1>14
        DEF Next, Encoder

(* IInv is an invariant of the encoder.                                    *)
THEOREM Invariance == Spec => []IInv
<1>1. IInv /\ [Next]_vars => IInv'
  BY FlagsStep, ValuesStep, OutputStep, BacklogStep, OrderStep DEF IInv, TypeOK
<1> QED BY InitIInv, <1>1, PTL DEF Spec

(* write_packet and the retry never use an output without stream or header.*)
THEOREM OutputUsable == Spec => []StreamPresent
<1>1. IInv => StreamPresent
  BY DEF IInv
<1> QED BY Invariance, <1>1, PTL

(* open_output and close_output never lose an AVFormatContext.             *)
THEOREM ContextsFreed == Spec => []NoContextLeak
<1>1. IInv => NoContextLeak
  BY DEF IInv
<1> QED BY Invariance, <1>1, PTL

(* An outage never leaves more pictures in the codec than its delay.       *)
THEOREM LatencyBounded == Spec => []NoBacklog
<1>1. IInv => NoBacklog
  BY DEF IInv
<1> QED BY Invariance, <1>1, PTL

(* A frame encoded while the server is there always reopens the output.    *)
THEOREM OutputReopened == Spec => []RetriedOnFrames
<1>1. IInv => RetriedOnFrames
  BY DEF IInv, TypeOK, FlagsOK, RetryInv, RetriedOnFrames
<1> QED BY Invariance, <1>1, PTL

(* One encoder publishes strictly increasing timestamps.                   *)
THEOREM PublishedInOrder == Spec => TimestampsIncrease
<1>1. IInv /\ [Next]_vars => [sent' # sent /\ sent' # None => sent' > sent]_vars
  <2> SUFFICES ASSUME IInv, Next, sent' # sent, sent' # None
               PROVE  sent' > sent
    OBVIOUS
  <2>1. CASE WriteOk
    BY <2>1 DEF WriteOk, IInv, TypeOK, ValuesOK, InOrder, None
  <2>2. CASE encoder_rtsp_init
    BY <2>2 DEF encoder_rtsp_init
  <2>3. ~WriteOk /\ ~encoder_rtsp_init => sent' = sent
    BY DEF Next, Encoder, encode_frame, Receive, Drained, WriteOpens, WriteError, Reopen,
           Resend, encoder_rtsp_close, Closed, ServerDown, ServerUp
  <2> QED BY <2>1, <2>2, <2>3
<1> QED BY Invariance, <1>1, PTL DEF Spec, TimestampsIncrease
=============================================================================
