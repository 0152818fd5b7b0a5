-------------------------- MODULE SourceFeedProofs --------------------------
(***************************************************************************)
(* What happens to the frames between phone and codec, for every instance  *)
(* of Source: no packet is shared, the queue of frames is bounded, and     *)
(* frames are decoded in order with gaps only where decoding can resume.   *)
(* The proof adds FeedInv of SourceInv to the invariant IInv, which        *)
(* SourceProofs has established.                                           *)
(***************************************************************************)
EXTENDS SourceProofs

(* Adding to and taking from a queue, index by index.                      *)
LEMMA AppendFacts ==
  ASSUME NEW S, NEW s \in Seq(S), NEW x \in S
  PROVE  /\ DOMAIN s = 1..Len(s) /\ Len(s) \in Nat
         /\ DOMAIN Append(s, x) = 1..(Len(s) + 1) /\ Len(Append(s, x)) = Len(s) + 1
         /\ \A k \in 1..Len(s) : Append(s, x)[k] = s[k]
         /\ Append(s, x)[Len(s) + 1] = x
         /\ Append(s, x) # <<>>
  OBVIOUS

LEMMA TailFacts ==
  ASSUME NEW S, NEW s \in Seq(S), s # <<>>
  PROVE  /\ DOMAIN s = 1..Len(s) /\ Len(s) \in Nat /\ Len(s) > 0
         /\ DOMAIN Tail(s) = 1..(Len(s) - 1) /\ Len(Tail(s)) = Len(s) - 1
         /\ \A k \in 1..(Len(s) - 1) : Tail(s)[k] = s[k + 1]
         /\ Head(s) = s[1] /\ s[1] \in S
         /\ Tail(s) = <<>> <=> Len(s) = 1
<1>1. /\ DOMAIN s = 1..Len(s) /\ Len(s) \in Nat /\ Len(s) > 0
      /\ Tail(s) \in Seq(S) /\ Len(Tail(s)) = Len(s) - 1
      /\ Head(s) = s[1] /\ s[1] \in S
  OBVIOUS
<1>2. DOMAIN Tail(s) = 1..(Len(s) - 1)
  BY <1>1
<1>3. \A k \in 1..(Len(s) - 1) : Tail(s)[k] = s[k + 1]
  OBVIOUS
<1>4. Tail(s) = <<>> <=> Len(s) = 1
  <2>1. Tail(s) = <<>> <=> Len(Tail(s)) = 0
    BY <1>1
  <2> QED BY <1>1, <2>1
<1> QED BY <1>1, <1>2, <1>3, <1>4

(* ... and what that does to packets that were distinct.                   *)
LEMMA DistinctAppend ==
  ASSUME NEW S, NEW s \in Seq(S), NEW x \in S, Distinct(s), Lacks(s, x)
  PROVE  /\ Distinct(Append(s, x))
         /\ \A y : y # x /\ Lacks(s, y) => Lacks(Append(s, x), y)
         /\ \A t : Apart(s, t) /\ Lacks(t, x) => Apart(Append(s, x), t)
         /\ \A t : Apart(t, s) /\ Lacks(t, x) => Apart(t, Append(s, x))
<1> HIDE DEF Distinct, Lacks, Apart
<1> DEFINE u == Append(s, x)
<1>1. /\ DOMAIN s = 1..Len(s) /\ Len(s) \in Nat
      /\ DOMAIN u = 1..(Len(s) + 1)
      /\ \A k \in 1..Len(s) : u[k] = s[k]
      /\ u[Len(s) + 1] = x
  BY AppendFacts
<1> HIDE DEF u
<1>2. \A k \in DOMAIN u : (k \in DOMAIN s /\ u[k] = s[k]) \/ (k = Len(s) + 1 /\ u[k] = x)
  BY <1>1
<1>3. Distinct(u)
  BY <1>2 DEF Distinct, Lacks
<1>4. \A y : y # x /\ Lacks(s, y) => Lacks(u, y)
  BY <1>2 DEF Lacks
<1>5. \A t : Apart(s, t) /\ Lacks(t, x) => Apart(u, t)
  BY <1>2 DEF Lacks, Apart
<1>6. \A t : Apart(t, s) /\ Lacks(t, x) => Apart(t, u)
  BY <1>2 DEF Lacks, Apart
<1> QED BY <1>3, <1>4, <1>5, <1>6 DEF u

LEMMA DistinctTail ==
  ASSUME NEW S, NEW s \in Seq(S), s # <<>>, Distinct(s)
  PROVE  /\ Distinct(Tail(s)) /\ Lacks(Tail(s), Head(s))
         /\ \A y : Lacks(s, y) => Lacks(Tail(s), y) /\ y # Head(s)
         /\ \A t : Apart(s, t) => Apart(Tail(s), t) /\ Lacks(t, Head(s))
         /\ \A t : Apart(t, s) => Apart(t, Tail(s)) /\ Lacks(t, Head(s))
<1> DEFINE u == Tail(s)
<1>1. /\ DOMAIN s = 1..Len(s) /\ Len(s) \in Nat /\ Len(s) > 0
      /\ DOMAIN u = 1..(Len(s) - 1)
      /\ \A k \in 1..(Len(s) - 1) : u[k] = s[k + 1]
      /\ Head(s) = s[1]
  BY TailFacts
<1> HIDE DEF u
<1>2. /\ \A k \in DOMAIN u : k + 1 \in DOMAIN s /\ k + 1 # 1 /\ u[k] = s[k + 1]
      /\ 1 \in DOMAIN s
  BY <1>1
<1>3. \A j, k \in DOMAIN u : j # k => j + 1 # k + 1
  BY <1>1
<1>4. Distinct(u) /\ Lacks(u, Head(s))
  BY <1>1, <1>2, <1>3 DEF Distinct, Lacks
<1>5. \A y : Lacks(s, y) => Lacks(u, y) /\ y # Head(s)
  BY <1>1, <1>2 DEF Lacks
<1>6. \A t : Apart(s, t) => Apart(u, t) /\ Lacks(t, Head(s))
  BY <1>1, <1>2 DEF Lacks, Apart
<1>7. \A t : Apart(t, s) => Apart(t, u) /\ Lacks(t, Head(s))
  BY <1>1, <1>2 DEF Lacks, Apart
<1> QED BY <1>4, <1>5, <1>6, <1>7 DEF u

-----------------------------------------------------------------------------
\* A step that concerns no frame and no packet: it leaves decoder and packets
\* alone and stays clear of the places where a frame is decided upon.
Calm ==
  /\ UNCHANGED <<decoderVars, video_format, vpkt, dpkt, dptr, live, fed>>
  /\ received' = received \/ live = NULL
  /\ vpc' = vpc \/ {vpc, vpc'} \cap {"check", "ready", "queue", "mark"} = {}
  /\ dpc' = dpc \/ {dpc, dpc'} \cap {"chk", "decode"} = {}
  /\ dpc' \in DHolding => dpc \in DHolding

CalmActions ==
  \/ VLoopEnd \/ VLoopRecv \/ VLoopConnect \/ VConnect \/ VConnectFail
  \/ VRequest \/ VRequestFail \/ VHeader \/ VHeaderFail \/ VSlow
  \/ VReleaseNone \/ VRelease \/ VNull \/ VEnd
  \/ DEnd \/ DSawNone \/ DSawItems \/ DPush \/ DLock \/ DUnlock
  \/ MStartVideo \/ MStartDecode \/ MUserStop \/ MStop \/ MJoinVideo \/ MJoinDecode
  \/ UNCHANGED vars

LEMMA CalmSteps == ASSUME IInv, CalmActions PROVE Calm
<1> USE DEF mainVars, netVars, outVars, ptrVars, dtVars, vtVars, decoderVars,
        IInv, ControlInv, ThreadsInv, PointerInv, NULL, DHolding, Calm
<1>1. CASE VLoopEnd \/ VLoopRecv \/ VLoopConnect \/ VConnect \/ VConnectFail
  BY <1>1 DEF VLoopEnd, VLoopRecv, VLoopConnect, VConnect, VConnectFail,
        VGoto, VKeeps, VOnlyMoves, VOnlyNet
<1>2. CASE VRequest \/ VRequestFail \/ VHeader \/ VHeaderFail \/ VSlow
  BY <1>2 DEF VRequest, VRequestFail, VHeader, VHeaderFail, VSlow, Hangup,
        VGoto, VKeeps, VOnlyMoves, VOnlyNet
<1>3. CASE VReleaseNone \/ VRelease \/ VNull \/ VEnd
  BY <1>3 DEF VReleaseNone, VRelease, VNull, VEnd, VGoto, VKeeps, VOnlyMoves, VOnlyNet
<1>4. CASE DEnd \/ DSawNone \/ DSawItems
  BY <1>4 DEF DEnd, DSawNone, DSawItems, DGoto, DUnchanged, DOnlyMoves
<1>5. CASE DPush \/ DLock \/ DUnlock
  BY <1>5 DEF DPush, DLock, DUnlock, DGoto, DUnchanged, DOnlyMoves
<1>6. CASE MStartVideo \/ MStartDecode \/ MUserStop
  BY <1>6 DEF MStartVideo, MStartDecode, MUserStop, MGoto, MUnchanged
<1>7. CASE MStop \/ MJoinVideo \/ MJoinDecode
  BY <1>7 DEF MStop, MJoinVideo, MJoinDecode, MGoto, MUnchanged
<1>8. CASE UNCHANGED vars
  BY <1>8 DEF vars
<1> QED BY <1>1, <1>2, <1>3, <1>4, <1>5, <1>6, <1>7, <1>8 DEF CalmActions

LEMMA CalmKeeps == ASSUME FeedInv, Calm PROVE PlacesInv' /\ BoundInv' /\ ReadyInv' /\ WayInv' /\ DropInv'
<1> USE DEF Calm, FeedInv, decoderVars
<1>1. PlacesInv'
  BY DEF PlacesInv, Distinct, Apart, Lacks
<1>2. BoundInv'
  BY DEF BoundInv
<1>3. ReadyInv'
  BY DEF ReadyInv
<1>4. InHand' <=> InHand
  BY DEF InHand
<1>5. FrontSeq' = FrontSeq /\ LastSeq' = LastSeq
  BY <1>4 DEF FrontSeq, LastSeq
<1>6. \A p, n : Follows(p, n)' <=> Follows(p, n)
  BY DEF Follows, Dependent
<1>7. WayInv'
  BY <1>4, <1>5, <1>6 DEF WayInv, Chain
<1>8. DropInv'
  BY <1>4, <1>5 DEF DropInv, Undecided
<1> QED BY <1>1, <1>2, <1>3, <1>7, <1>8

(* No step puts a packet in two places.                                    *)
LEMMA PlacesStep ==
  ASSUME IInv, PlacesInv, Next, ~CalmActions PROVE PlacesInv'
<1> USE DEF mainVars, netVars, outVars, ptrVars, dtVars, vtVars, decoderVars
<1>1. /\ recieveQueue \in Seq(Packets) /\ decodeQueue \in Seq(Packets)
      /\ vpkt # NULL => vpkt \in Packets
      /\ dpkt # NULL /\ dptr = live => dpkt \in Packets
      /\ Packets = 1..Len(data) /\ Len(data) \in Nat /\ NULL = 0
      /\ vpkt # NULL <=> vpc \in VHolding
      /\ dpkt # NULL <=> dpc \in DHolding
  BY DEF IInv, TypeOK, DecoderTypeOK, ControlInv, HoldInv, Packets, alloc_count, NULL
<1>2. /\ Distinct(recieveQueue) /\ Distinct(decodeQueue) /\ Apart(recieveQueue, decodeQueue)
      /\ vpkt # NULL => Lacks(recieveQueue, vpkt) /\ Lacks(decodeQueue, vpkt)
      /\ dpkt # NULL /\ dptr = live =>
           Lacks(recieveQueue, dpkt) /\ Lacks(decodeQueue, dpkt) /\ dpkt # vpkt
  BY DEF PlacesInv
<1>3. ASSUME UNCHANGED <<recieveQueue, decodeQueue, vpkt, dpkt, dptr, live>>
      PROVE  PlacesInv'
  BY <1>3 DEF PlacesInv, Distinct, Lacks, Apart, NULL
<1>4. ASSUME recieveQueue' = Append(recieveQueue, vpkt), vpkt # NULL, vpkt' = NULL,
             UNCHANGED <<decodeQueue, dpkt, dptr, live>>
      PROVE  PlacesInv'
  <2>1. /\ Distinct(recieveQueue')
        /\ \A y : y # vpkt /\ Lacks(recieveQueue, y) => Lacks(recieveQueue', y)
        /\ Apart(recieveQueue', decodeQueue)
    BY <1>1, <1>2, <1>4, DistinctAppend
  <2> QED BY <1>2, <1>4, <2>1 DEF PlacesInv, Distinct, Lacks, Apart, NULL
<1>5. ASSUME recieveQueue' = <<>>, decodeQueue' = <<>>, UNCHANGED <<vpkt, dpkt>>,
             dpkt = NULL \/ dptr' # live' \/ vpkt # dpkt
      PROVE  PlacesInv'
  BY <1>5 DEF PlacesInv, Distinct, Lacks, Apart, NULL
<1>6. CASE VNewDecoder
  <2>1. CASE video_decoder = NULL
    <3>1. vpkt = NULL
      BY <1>1, <1>6 DEF VNewDecoder, VGoto, VHolding
    <3>2. dpkt = NULL \/ vpkt # dpkt
      BY <3>1
    <3> QED BY <1>5, <1>6, <2>1, <3>2 DEF VNewDecoder, NewDecoder, VKeeps
  <2> QED BY <1>3, <1>6, <2>1 DEF VNewDecoder, VKeeps
<1>7. CASE VPull
  <2>1. vpkt = NULL /\ UNCHANGED <<decodeQueue, dpkt, dptr, live>>
    BY <1>1, <1>7 DEF VPull, VGoto, VHolding, VKeeps
  <2>2. CASE PullFree(vpkt')
    <3>1. /\ Distinct(recieveQueue') /\ Lacks(recieveQueue', vpkt')
          /\ \A y : Lacks(recieveQueue, y) => Lacks(recieveQueue', y) /\ y # vpkt'
          /\ Apart(recieveQueue', decodeQueue) /\ Lacks(decodeQueue, vpkt')
      BY <1>1, <1>2, <2>2, DistinctTail DEF PullFree
    <3> QED BY <1>2, <2>1, <3>1 DEF PlacesInv
  <2>3. CASE PullAlloc(vpkt', dpc = "adding")
    <3>1. vpkt' = Len(data) + 1 /\ recieveQueue' = recieveQueue
      BY <2>3 DEF PullAlloc, alloc_count
    <3>2. Lacks(recieveQueue, vpkt') /\ Lacks(decodeQueue, vpkt')
          /\ (dpkt # NULL /\ dptr = live => dpkt # vpkt')
      BY <1>1, <3>1 DEF Lacks
    <3> QED BY <1>2, <2>1, <3>1, <3>2 DEF PlacesInv
  <2> QED BY <1>7, <2>2, <2>3 DEF VPull
<1>8. CASE VBodyFail \/ VCheckFailed \/ VDiscard
  BY <1>1, <1>4, <1>8 DEF VBodyFail, VCheckFailed, VDiscard, VGoto, VHolding, VKeeps,
     push_empty_packet
<1>9. CASE VQueue
  <2>1. /\ vpkt \in Packets /\ vpkt # NULL /\ decodeQueue' = Append(decodeQueue, vpkt)
        /\ vpkt' = NULL /\ UNCHANGED <<recieveQueue, dpkt, dptr, live>>
    BY <1>1, <1>9 DEF VQueue, VGoto, VHolding, VKeeps
  <2>2. /\ Distinct(decodeQueue')
        /\ \A y : y # vpkt /\ Lacks(decodeQueue, y) => Lacks(decodeQueue', y)
        /\ Apart(recieveQueue, decodeQueue')
    BY <1>1, <1>2, <2>1, DistinctAppend
  <2> QED BY <1>2, <2>1, <2>2 DEF PlacesInv, Distinct, Lacks, Apart, NULL
<1>10. CASE VBody \/ VCheckInit \/ VCheckReady \/ VAccept \/ VMark
  BY <1>3, <1>10 DEF VBody, VCheckInit, VCheckReady, VAccept, VMark, VKeeps, VOnlyMoves
<1>11. CASE VDelete
  <2>1. vpkt = NULL
    BY <1>1, <1>11 DEF VDelete, VGoto, VHolding
  <2> QED BY <1>5, <1>11, <2>1 DEF VDelete, NewDecoder, VKeeps
<1>12. CASE MTeardown
  <2>1. recieveQueue' = <<>> /\ decodeQueue' = <<>> /\ vpkt' = vpkt /\ dpkt' = dpkt
    BY <1>12 DEF MTeardown, NewDecoder, MUnchanged
  <2>2. vpkt = NULL
    BY <1>1, <1>12 DEF MTeardown, MGoto, IInv, ControlInv, ThreadsInv, VHolding
  <2> QED BY <1>5, <2>1, <2>2
<1>13. CASE DLoad \/ DReused
  <2>1. dpkt = NULL /\ UNCHANGED <<recieveQueue, decodeQueue, vpkt, dpkt>>
    BY <1>1, <1>13 DEF DLoad, DReused, DGoto, DUnchanged, DHolding
  <2> QED BY <1>2, <2>1 DEF PlacesInv, Distinct, Lacks, Apart, NULL
<1>14. CASE DPop
  <2>1. /\ dptr = live /\ dpkt' = Head(decodeQueue) /\ decodeQueue' = Tail(decodeQueue)
        /\ decodeQueue # <<>> /\ UNCHANGED <<recieveQueue, vpkt, dptr, live>>
    BY <1>14 DEF DPop, DGoto, DUnchanged
  <2>2. /\ Distinct(decodeQueue') /\ Lacks(decodeQueue', dpkt')
        /\ \A y : Lacks(decodeQueue, y) => Lacks(decodeQueue', y) /\ y # dpkt'
        /\ Apart(recieveQueue, decodeQueue') /\ Lacks(recieveQueue, dpkt')
    BY <1>1, <1>2, <2>1, DistinctTail
  <2>3. dpkt' # NULL
    BY <1>1, <2>1, TailFacts
  <2>4. vpkt = NULL => dpkt' # vpkt'
    BY <2>1, <2>3
  <2> QED BY <1>2, <2>1, <2>2, <2>4 DEF PlacesInv
<1>15. CASE DCheckOk \/ DCheckFailed \/ DDecode
  BY <1>3, <1>15 DEF DCheckOk, DCheckFailed, DDecode, DUnchanged, DOnlyMoves
<1>16. CASE DAdd
  <2>1. /\ dpkt # NULL /\ dptr = live /\ recieveQueue' = Append(recieveQueue, dpkt)
        /\ dpkt' = NULL /\ UNCHANGED <<decodeQueue, vpkt, dptr, live>>
    BY <1>1, <1>16 DEF DAdd, DGoto, DHolding, DUnchanged, push_empty_packet
  <2>2. /\ Distinct(recieveQueue')
        /\ \A y : y # dpkt /\ Lacks(recieveQueue, y) => Lacks(recieveQueue', y)
        /\ Apart(recieveQueue', decodeQueue)
    BY <1>1, <1>2, <2>1, DistinctAppend
  <2> QED BY <1>2, <2>1, <2>2 DEF PlacesInv
<1>17. CASE DFreed
  <2>1. dptr # live /\ UNCHANGED <<recieveQueue, decodeQueue, vpkt, dptr, live>>
    BY <1>17 DEF DFreed, DUnchanged
  <2> QED BY <1>2, <2>1 DEF PlacesInv, Distinct, Lacks, Apart, NULL
<1> QED BY <1>6, <1>7, <1>8, <1>9, <1>10, <1>11, <1>12, <1>13, <1>14, <1>15, <1>16, <1>17
        DEF Next, VideoThread, DecodeThread, Main, Terminated, CalmActions

(* decodeQueue grows only where push_ready_packet has seen room for it.    *)
LEMMA BoundStep ==
  ASSUME IInv, BoundInv, Next, ~CalmActions PROVE BoundInv'
<1> USE DEF mainVars, netVars, outVars, ptrVars, dtVars, vtVars, decoderVars
<1> SUFFICES ASSUME ~TornReads PROVE BoundInv'
  BY TornReadsAssumption DEF BoundInv
<1>1. /\ decodeQueue \in Seq(Packets) /\ Len(decodeQueue) \in Nat
      /\ CatchupLimit \in Nat /\ CatchupLimit >= 1
      /\ catchup \in BOOLEAN
      /\ \A n, racing : SizeRead(n, racing) = {n}
  BY CatchupLimitAssumption DEF IInv, TypeOK, DecoderTypeOK, FlagsOK, DecoderFlagsOK, SizeRead
<1>2. /\ video_format = "MJPG" => Len(decodeQueue) <= (IF vpc = "queue" THEN 1 ELSE 2)
      /\ video_format # "MJPG" =>
           Len(decodeQueue) <= CatchupLimit + (IF catchup \/ vpc = "mark" THEN 1 ELSE 0)
      /\ vpc = "queue" => ~catchup
  BY DEF BoundInv
<1>3. ASSUME UNCHANGED <<decodeQueue, catchup, video_format>>,
             vpc' = vpc \/ (vpc # "mark" /\ vpc' # "queue")
      PROVE  BoundInv'
  BY <1>1, <1>2, <1>3 DEF BoundInv
<1>4. ASSUME decodeQueue' = <<>>, catchup' = FALSE PROVE BoundInv'
  <2>1. Len(decodeQueue') = 0
    BY <1>4
  <2> QED BY <1>1, <1>4, <2>1 DEF BoundInv
<1>5. CASE VNewDecoder
  BY <1>3, <1>4, <1>5 DEF VNewDecoder, NewDecoder, VGoto, VKeeps
<1>6. CASE VPull \/ VBody \/ VBodyFail \/ VCheckFailed \/ VCheckInit \/ VCheckReady \/ VDiscard
  BY <1>3, <1>6 DEF VPull, VBody, VBodyFail, VCheckFailed, VCheckInit, VCheckReady,
     VDiscard, VGoto, VKeeps, VOnlyMoves
<1>7. CASE VAccept
  <2>1. /\ ~Discards(vpkt, Len(decodeQueue)) /\ vpc = "ready" /\ vpc' = "queue"
        /\ ~catchup' /\ UNCHANGED <<decodeQueue, video_format>>
    BY <1>1, <1>7 DEF VAccept, VGoto, VKeeps
  <2> QED BY <1>1, <1>2, <2>1 DEF Discards, BoundInv
<1>8. CASE VQueue
  <2>1. /\ Len(decodeQueue') = Len(decodeQueue) + 1 /\ vpc = "queue" /\ vpc' = "mark"
        /\ UNCHANGED <<catchup, video_format>>
    BY <1>1, <1>8, AppendFacts DEF VQueue, VGoto, VKeeps, IInv, TypeOK, ControlInv,
       HoldInv, VHolding
  <2> QED BY <1>1, <1>2, <2>1 DEF BoundInv
<1>9. CASE VMark
  <2>1. /\ catchup' = (catchup \/ (video_format # "MJPG" /\ Len(decodeQueue) > CatchupLimit))
        /\ vpc = "mark" /\ vpc' = "loop" /\ UNCHANGED <<decodeQueue, video_format>>
    BY <1>1, <1>9 DEF VMark, VGoto, VKeeps
  <2>2. catchup' \/ video_format = "MJPG" \/ Len(decodeQueue) <= CatchupLimit
    <3>1. Len(decodeQueue) > CatchupLimit \/ Len(decodeQueue) <= CatchupLimit
      BY <1>1
    <3> QED BY <2>1, <3>1, Zenon
  <2>3. vpc = "mark" /\ vpc' = "loop" /\ UNCHANGED <<decodeQueue, video_format>>
    BY <2>1
  <2> QED BY <1>1, <1>2, <2>2, <2>3 DEF BoundInv
<1>10. CASE VDelete \/ MTeardown
  BY <1>4, <1>10 DEF VDelete, MTeardown, NewDecoder
<1>11. CASE DPop
  <2>1. Len(decodeQueue') = Len(decodeQueue) - 1 /\ UNCHANGED <<catchup, video_format, vpc>>
    BY <1>1, <1>11, TailFacts DEF DPop, DUnchanged
  <2> QED BY <1>1, <1>2, <2>1 DEF BoundInv
<1>12. CASE DLoad \/ DCheckFailed \/ DCheckOk \/ DDecode \/ DAdd \/ DFreed \/ DReused
  BY <1>3, <1>12 DEF DLoad, DCheckFailed, DCheckOk, DDecode, DAdd, DFreed, DReused,
     DUnchanged, DOnlyMoves
<1> QED BY <1>5, <1>6, <1>7, <1>8, <1>9, <1>10, <1>11, <1>12
        DEF Next, VideoThread, DecodeThread, Main, Terminated, CalmActions

(* Nothing is queued for a codec that is not ready.                        *)
LEMMA ReadyStep ==
  ASSUME IInv, ReadyInv, Next, ~CalmActions PROVE ReadyInv'
<1> USE DEF mainVars, netVars, outVars, ptrVars, dtVars, vtVars, decoderVars
<1>1. /\ ready \in BOOLEAN /\ failed \in BOOLEAN
      /\ dpc \in DInDecoder => dptr # NULL
      /\ dptr \in Nat /\ connects \in Nat
      /\ vpc \in {"ready", "queue", "mark"} => ready
  BY MaxConnectsAssumption DEF IInv, TypeOK, FlagsOK, DecoderFlagsOK, PlainTypeOK, ControlInv,
     HoldInv, PointerInv
<1>2. ASSUME UNCHANGED <<decodeQueue, ready, failed, dpc, dptr, live>> PROVE ReadyInv'
  BY <1>2 DEF ReadyInv
<1>3. ASSUME decodeQueue' = <<>>, dptr' = dptr, dpc' = dpc,
             dpc \in DHolding => dptr # live'
      PROVE  ReadyInv'
  BY <1>3 DEF ReadyInv, DHolding
<1>4. CASE VNewDecoder
  <2>1. CASE video_decoder = NULL
    <3>1. live = NULL /\ video_running
      BY <1>4, <2>1 DEF VNewDecoder, VGoto, IInv, ControlInv, PointerInv, VReceiving
    <3>2. dptr # connects
      BY <1>1, <3>1 DEF IInv, ControlInv, FreshName
    <3> QED BY <1>3, <1>4, <2>1, <3>2 DEF VNewDecoder, NewDecoder, VKeeps
  <2> QED BY <1>2, <1>4, <2>1 DEF VNewDecoder, VKeeps
<1>5. CASE VPull \/ VBody \/ VBodyFail \/ VCheckFailed \/ VCheckReady
           \/ VDiscard \/ VAccept \/ VMark
  BY <1>2, <1>5 DEF VPull, VBody, VBodyFail, VCheckFailed, VCheckReady, VDiscard,
     VAccept, VMark, VKeeps, VOnlyMoves
<1>6. CASE VCheckInit
  BY <1>1, <1>6 DEF VCheckInit, VKeeps, ReadyInv, DHolding
<1>7. CASE VQueue
  <2>1. ready /\ UNCHANGED <<ready, failed, dpc, dptr, live>>
    BY <1>1, <1>7 DEF VQueue, VGoto, VKeeps
  <2> QED BY <2>1 DEF ReadyInv
<1>8. CASE VDelete \/ MTeardown
  <2>1. /\ decodeQueue' = <<>> /\ live' = NULL
        /\ UNCHANGED <<dpc, dptr>>
    BY <1>8 DEF VDelete, MTeardown, NewDecoder, VKeeps, MUnchanged
  <2> QED BY <1>1, <1>3, <2>1 DEF DHolding, DInDecoder
<1>9. CASE DPop
  <2>1. ready /\ ready' /\ dpc' = "chk"
    BY <1>1, <1>9 DEF DPop, DGoto, ReadyInv
  <2> QED BY <2>1 DEF ReadyInv
<1>10. CASE DCheckFailed \/ DCheckOk \/ DDecode \/ DAdd
  BY <1>1, <1>10 DEF DCheckFailed, DCheckOk, DDecode, DAdd, DGoto, DUnchanged, DOnlyMoves,
     ReadyInv, DHolding
<1>11. CASE DLoad \/ DFreed \/ DReused
  BY <1>1, <1>11 DEF DLoad, DFreed, DReused, DGoto, DUnchanged, ReadyInv, DHolding
<1> QED BY <1>4, <1>5, <1>6, <1>7, <1>8, <1>9, <1>10, <1>11
        DEF Next, VideoThread, DecodeThread, Main, Terminated, CalmActions

(* video_thread has received nothing before it creates the decoder.        *)
LEMMA FirstStep ==
  ASSUME IInv, FirstInv, [Next]_vars PROVE FirstInv'
<1> USE DEF mainVars, netVars, outVars, ptrVars, dtVars, vtVars, decoderVars, FirstInv
<1>1. /\ vpc \in VReceiving => live # NULL
      /\ video_running => vpc \in VReceiving \cup {"loop", "recv", "end"}
      /\ vpc = "recv" => video_running /\ video_decoder = live
      /\ connects \in Nat /\ NULL = 0
      /\ main = "teardown" /\ ~crashed => vpc \in {"off", "done"}
  BY MaxConnectsAssumption
     DEF IInv, TypeOK, PlainTypeOK, ControlInv, PointerInv, ThreadsInv, NULL
<1>2. CASE VLoopEnd \/ VLoopRecv \/ VLoopConnect \/ VConnect \/ VConnectFail
  BY <1>1, <1>2 DEF VLoopEnd, VLoopRecv, VLoopConnect, VConnect, VConnectFail,
        VGoto, VKeeps, VOnlyMoves, VOnlyNet, VReceiving, VHolding
<1>3. CASE VRequest \/ VRequestFail \/ VHeader \/ VHeaderFail \/ VSlow
  BY <1>1, <1>3 DEF VRequest, VRequestFail, VHeader, VHeaderFail, VSlow, Hangup,
        VGoto, VKeeps, VOnlyMoves, VOnlyNet, VReceiving, VHolding
<1>4. CASE VReleaseNone \/ VRelease \/ VNull \/ VEnd \/ VDelete
  BY <1>1, <1>4 DEF VReleaseNone, VRelease, VNull, VEnd, VDelete,
        VGoto, VKeeps, VOnlyMoves, VOnlyNet, VReceiving, VHolding
<1>5. CASE VNewDecoder
  BY <1>1, <1>5 DEF VNewDecoder, NewDecoder, VGoto, VKeeps, VReceiving, VHolding
<1>6. CASE VPull \/ VBody \/ VBodyFail \/ VCheckFailed \/ VCheckInit \/ VCheckReady
  BY <1>1, <1>6 DEF VPull, VBody, VBodyFail, VCheckFailed, VCheckInit, VCheckReady, Hangup,
        VGoto, VKeeps, VOnlyMoves, VReceiving, VHolding
<1>7. CASE VDiscard \/ VAccept \/ VQueue \/ VMark
  BY <1>1, <1>7 DEF VDiscard, VAccept, VQueue, VMark, VGoto, VKeeps, VReceiving, VHolding
<1>8. CASE DecodeThread
  <2>1. UNCHANGED <<vpc, video_running, live, received>>
    BY <1>8 DEF DecodeThread, DEnd, DLoad, DSawNone, DSawItems, DPop, DCheckFailed, DCheckOk,
       DDecode, DPush, DLock, DAdd, DUnlock, DFreed, DReused, DUnchanged, DOnlyMoves
  <2> QED BY <2>1
<1>9. CASE Main
  BY <1>1, <1>9 DEF Main, MStartVideo, MStartDecode, MUserStop, MStop, MJoinVideo,
        MJoinDecode, MTeardown, MGoto, MUnchanged, VReceiving, VHolding
<1>10. CASE UNCHANGED vars
  BY <1>10 DEF vars
<1> QED BY <1>2, <1>3, <1>4, <1>5, <1>6, <1>7, <1>8, <1>9, <1>10
        DEF Next, VideoThread, Terminated

(* A step that leaves the accepted frames alone keeps them in order.       *)
LEMMA SameFrames ==
  ASSUME UNCHANGED <<decodeQueue, dpkt, fed, video_format>>, InHand' <=> InHand,
         decodeQueue \in Seq(Packets),
         \A k \in 1..Len(decodeQueue) : data'[decodeQueue[k]] = data[decodeQueue[k]],
         InHand => data'[dpkt] = data[dpkt]
  PROVE  /\ LastSeq' = LastSeq
         /\ Chain => Chain'
<1>1. /\ Len(decodeQueue) \in Nat
      /\ decodeQueue # <<>> => 1 \in 1..Len(decodeQueue) /\ Len(decodeQueue) \in 1..Len(decodeQueue)
      /\ \A k \in 1..(Len(decodeQueue) - 1) : k \in 1..Len(decodeQueue) /\ k + 1 \in 1..Len(decodeQueue)
  OBVIOUS
<1>2. FrontSeq' = FrontSeq
  BY DEF FrontSeq
<1>3. LastSeq' = LastSeq
  BY <1>1, <1>2 DEF LastSeq
<1>4. \A k \in 1..Len(decodeQueue) : \A n :
        Follows(decodeQueue[k], n)' <=> Follows(decodeQueue[k], n)
  BY DEF Follows, Dependent
<1>5. InHand => (Follows(dpkt, fed)' <=> Follows(dpkt, fed))
  BY DEF Follows, Dependent
<1>6. ASSUME Chain PROVE Chain'
  <2>1. InHand' => Follows(dpkt, fed)'
    BY <1>5, <1>6 DEF Chain
  <2>2. decodeQueue' # <<>> => Follows(decodeQueue[1], FrontSeq)'
    BY <1>1, <1>2, <1>4, <1>6 DEF Chain
  <2>3. \A k \in 1..(Len(decodeQueue') - 1) :
          Follows(decodeQueue[k + 1], data[decodeQueue[k]].seq)'
    BY <1>1, <1>4, <1>6 DEF Chain
  <2> QED BY <2>1, <2>2, <2>3 DEF Chain
<1> QED BY <1>3, <1>6

(* Frames are accepted, taken and decoded in order.                        *)
LEMMA OrderStep ==
  ASSUME IInv, PlacesInv, FirstInv, WayInv, DropInv, Next, ~CalmActions
  PROVE  WayInv' /\ DropInv'
<1> USE DEF mainVars, netVars, outVars, ptrVars, dtVars, vtVars, decoderVars
<1> SUFFICES ASSUME live' # NULL, ~failed' PROVE WayInv' /\ DropInv'
  BY DEF WayInv, DropInv
<1>1. /\ decodeQueue \in Seq(Packets) /\ Len(decodeQueue) \in Nat
      /\ data \in Seq(Frames \cup {Blank})
      /\ received \in Nat /\ fed \in Nat /\ connects \in Nat /\ dptr \in Nat
      /\ catchup \in BOOLEAN /\ failed \in BOOLEAN
      /\ vpc \in VHolding => vpkt \in Packets
      /\ InHand => dpkt \in Packets
      /\ dpc \in {"chk", "decode"} => dpkt # NULL
  BY MaxFramesAssumption, MaxConnectsAssumption
     DEF IInv, TypeOK, DecoderTypeOK, FlagsOK, DecoderFlagsOK, PlainTypeOK, ControlInv,
         HoldInv, InHand, DHolding
<1>2. \A p \in Packets : data[p].seq \in Nat
  <2>1. \A f \in Frames \cup {Blank} : f.seq \in Nat
    BY MaxFramesAssumption DEF Frames, Blank
  <2>2. \A p \in Packets : data[p] \in Frames \cup {Blank}
    BY <1>1 DEF Packets, alloc_count
  <2> QED BY <2>1, <2>2
<1>3. LastSeq \in Nat
  <2>1. FrontSeq \in Nat
    BY <1>1, <1>2 DEF FrontSeq
  <2>2. decodeQueue # <<>> => decodeQueue[Len(decodeQueue)] \in Packets
    BY <1>1
  <2> QED BY <1>2, <2>1, <2>2 DEF LastSeq
<1> DEFINE Keep == /\ UNCHANGED <<decodeQueue, dpkt, fed, video_format, live, failed>>
                   /\ InHand' <=> InHand
                   /\ \A k \in 1..Len(decodeQueue) : data'[decodeQueue[k]] = data[decodeQueue[k]]
                   /\ InHand => data'[dpkt] = data[dpkt]
<1>4. ASSUME live # NULL, ~failed
      PROVE  /\ Chain
             /\ vpc = "queue" => Follows(vpkt, LastSeq)
             /\ Undecided => data[vpkt].seq = received /\ LastSeq < received
             /\ ~Undecided => LastSeq <= received
             /\ ~catchup /\ video_format # "MJPG" =>
                  /\ vpc \in {"check", "ready"} => LastSeq = received - 1
                  /\ ~Undecided => LastSeq = received
  BY <1>4 DEF WayInv, DropInv
<1>5. ASSUME Keep PROVE live # NULL /\ ~failed /\ LastSeq' = LastSeq /\ Chain'
  BY <1>1, <1>4, <1>5, SameFrames
<1>6. ASSUME Keep, ~Undecided, ~Undecided', UNCHANGED received,
             ~catchup' => ~catchup
      PROVE  WayInv' /\ DropInv'
  <2>1. Chain' /\ ~Undecided /\ LastSeq' = LastSeq /\ LastSeq <= received
        /\ (~catchup /\ video_format # "MJPG" => LastSeq = received)
    BY <1>4, <1>5, <1>6
  <2>2. vpc' \notin {"check", "ready", "queue"}
    BY <1>6 DEF Undecided
  <2> HIDE DEF Keep
  <2>3. WayInv'
    BY <2>1, <2>2 DEF WayInv
  <2>4. DropInv'
    BY <1>6, <2>1, <2>2 DEF DropInv, Keep
  <2> QED BY <2>3, <2>4
<1>7. ASSUME Keep, UNCHANGED <<vpc, vpkt, data, received, catchup>>
      PROVE  WayInv' /\ DropInv'
  <2>1. Chain' /\ LastSeq' = LastSeq /\ live # NULL /\ ~failed
    BY <1>5, <1>7
  <2>2. Follows(vpkt, LastSeq)' <=> Follows(vpkt, LastSeq)
    BY <1>7, <2>1 DEF Follows, Dependent
  <2>3. WayInv'
    BY <1>4, <1>7, <2>1, <2>2 DEF WayInv
  <2>4. DropInv'
    BY <1>4, <1>7, <2>1 DEF DropInv, Undecided
  <2> QED BY <2>3, <2>4
<1>8. CASE VNewDecoder
  <2>1. CASE video_decoder = NULL
    <3>1. live = NULL /\ video_running
      BY <1>8, <2>1 DEF VNewDecoder, VGoto, IInv, ControlInv, PointerInv, VReceiving
    <3>2. dptr # connects /\ received = 0
      BY <1>1, <3>1 DEF IInv, ControlInv, FreshName, FirstInv
    <3>3. /\ live' = connects /\ fed' = 0 /\ decodeQueue' = <<>> /\ dptr' = dptr
          /\ received' = 0 /\ vpc' = "header"
      BY <1>8, <2>1, <3>2 DEF VNewDecoder, NewDecoder, VGoto, VKeeps
    <3>4. ~InHand' /\ LastSeq' = 0 /\ Len(decodeQueue') = 0
      BY <3>2, <3>3 DEF InHand, LastSeq, FrontSeq
    <3>5. Chain'
      BY <3>3, <3>4 DEF Chain
    <3> QED BY <3>3, <3>4, <3>5 DEF WayInv, DropInv, Undecided
  <2>2. CASE video_decoder # NULL
    <3>1. Keep /\ ~Undecided /\ ~Undecided' /\ UNCHANGED <<received, catchup>>
      BY <1>8, <2>2 DEF VNewDecoder, VGoto, VKeeps, Undecided, InHand
    <3> QED BY <1>6, <3>1
  <2> QED BY <2>1, <2>2
<1>9. CASE VPull
  <2>1. /\ UNCHANGED <<decodeQueue, dpkt, dptr, dpc, fed, video_format, live, failed, received, catchup>>
        /\ ~Undecided /\ ~Undecided'
    BY <1>9 DEF VPull, VGoto, VKeeps, Undecided
  <2>2. \A p \in Packets : data'[p] = data[p]
    BY <1>1, <1>9, AppendFacts DEF VPull, PullFree, PullAlloc, Packets, alloc_count
  <2>3. InHand' <=> InHand
    BY <2>1 DEF InHand
  <2>4. \A k \in 1..Len(decodeQueue) : decodeQueue[k] \in Packets
    BY <1>1
  <2>5. Keep
    BY <1>1, <2>1, <2>2, <2>3, <2>4
  <2> QED BY <1>6, <2>1, <2>5
<1>10. CASE VBody
  <2>1. PICK nal \in Nals :
             data' = [data EXCEPT ![vpkt] = [seq |-> received + 1, nal |-> nal]]
    BY <1>10 DEF VBody
  <2>2. /\ UNCHANGED <<decodeQueue, dpkt, dptr, dpc, fed, video_format, live, failed, catchup, vpkt>>
        /\ vpc = "body" /\ vpc' = "check" /\ received' = received + 1
    BY <1>10 DEF VBody, VGoto, VKeeps
  <2>3. vpkt \in DOMAIN data /\ vpkt # NULL
    BY <1>1, <2>2 DEF VHolding, Packets, alloc_count, NULL
  <2>4. data'[vpkt].seq = received + 1 /\ \A p \in Packets : p # vpkt => data'[p] = data[p]
    BY <1>1, <2>1, <2>3 DEF Packets, alloc_count
  <2>5. \A k \in 1..Len(decodeQueue) : decodeQueue[k] \in Packets /\ decodeQueue[k] # vpkt
    BY <1>1, <2>3 DEF PlacesInv, Lacks
  <2>6. InHand => dpkt \in Packets /\ dpkt # vpkt
    BY <1>1, <2>3 DEF PlacesInv, InHand
  <2>7. InHand' <=> InHand
    BY <2>2 DEF InHand
  <2>8. Keep
    BY <2>2, <2>4, <2>5, <2>6, <2>7
  <2>9. /\ live # NULL /\ ~failed /\ LastSeq' = LastSeq /\ Chain'
    BY <1>5, <2>8
  <2>10. LastSeq <= received /\ (~catchup /\ video_format # "MJPG" => LastSeq = received)
    BY <1>4, <2>2, <2>9 DEF Undecided
  <2>11. WayInv'
    BY <2>2, <2>9 DEF WayInv
  <2>12. DropInv'
    BY <1>1, <1>3, <2>2, <2>4, <2>9, <2>10 DEF DropInv, Undecided
  <2> QED BY <2>11, <2>12
<1>11. CASE VBodyFail
  <2>1. Keep /\ ~Undecided /\ ~Undecided' /\ UNCHANGED <<received, catchup>>
    BY <1>11 DEF VBodyFail, VGoto, VKeeps, Undecided, InHand
  <2> QED BY <1>6, <2>1
<1>12. CASE VCheckFailed \/ DCheckFailed
  BY <1>12 DEF VCheckFailed, DCheckFailed, DOnlyMoves
<1>13. CASE VCheckInit \/ VCheckReady
  <2>1. /\ Keep /\ UNCHANGED <<vpkt, data, received, catchup>>
        /\ vpc = "check" /\ vpc' = "ready"
    BY <1>13 DEF VCheckInit, VCheckReady, VGoto, VKeeps, VOnlyMoves, InHand
  <2>2. live # NULL /\ ~failed /\ LastSeq' = LastSeq /\ Chain'
    BY <1>5, <2>1
  <2> QED BY <1>4, <2>1, <2>2 DEF WayInv, DropInv, Undecided
<1>14. CASE VDiscard
  <2>1. /\ Keep /\ UNCHANGED <<data, received, catchup>>
        /\ vpc = "ready" /\ vpc' = "loop"
        /\ video_format # "MJPG" => catchup
    BY <1>14 DEF VDiscard, Discards, VGoto, VKeeps, InHand
  <2>2. live # NULL /\ ~failed /\ LastSeq' = LastSeq /\ Chain' /\ LastSeq < received
    BY <1>4, <1>5, <2>1 DEF Undecided
  <2> QED BY <1>1, <1>3, <2>1, <2>2 DEF WayInv, DropInv, Undecided
<1>15. CASE VAccept
  <2>1. /\ Keep /\ UNCHANGED <<data, received, vpkt>>
        /\ vpc = "ready" /\ vpc' = "queue"
        /\ video_format = "MJPG" \/ ~catchup \/ ~Dependent(data[vpkt].nal)
    BY <1>15 DEF VAccept, Discards, VGoto, VKeeps, InHand
  <2>2. live # NULL /\ ~failed /\ LastSeq' = LastSeq /\ Chain'
    BY <1>5, <2>1
  <2>3. data[vpkt].seq = received /\ LastSeq < received
        /\ (~catchup /\ video_format # "MJPG" => LastSeq = received - 1)
    BY <1>4, <2>1, <2>2 DEF Undecided
  <2>4. video_format = "MJPG" => ~Dependent(data[vpkt].nal)
    BY DEF Dependent
  <2>5. Follows(vpkt, LastSeq)
    BY <1>1, <1>3, <2>1, <2>3, <2>4 DEF Follows
  <2>6. Follows(vpkt, LastSeq)'
    BY <2>1, <2>2, <2>5 DEF Follows, Dependent
  <2> QED BY <2>1, <2>2, <2>3, <2>6 DEF WayInv, DropInv, Undecided
<1>16. CASE VQueue
  <2>1. /\ decodeQueue' = Append(decodeQueue, vpkt) /\ vpkt \in Packets
        /\ UNCHANGED <<dpkt, dptr, dpc, fed, video_format, live, failed, data, received, catchup>>
        /\ vpc = "queue" /\ vpc' = "mark" /\ live # NULL /\ ~failed
    BY <1>1, <1>16 DEF VQueue, VGoto, VKeeps, VHolding
  <2>2. /\ Len(decodeQueue') = Len(decodeQueue) + 1
        /\ \A k \in 1..Len(decodeQueue) : decodeQueue'[k] = decodeQueue[k]
        /\ decodeQueue'[Len(decodeQueue) + 1] = vpkt
        /\ decodeQueue' # <<>>
    BY <1>1, <2>1, AppendFacts
  <2>3. /\ Follows(vpkt, LastSeq) /\ Chain /\ data[vpkt].seq = received
    BY <1>4, <2>1 DEF Undecided
  <2>4. LastSeq' = received
    BY <1>1, <2>1, <2>2, <2>3 DEF LastSeq
  <2>5. /\ InHand' <=> InHand
        /\ FrontSeq' = FrontSeq
        /\ \A p, n : Follows(p, n)' <=> Follows(p, n)
    BY <2>1 DEF InHand, FrontSeq, Follows, Dependent
  <2>6. InHand' => Follows(dpkt, fed)'
    BY <2>1, <2>3, <2>5 DEF Chain
  <2>7. Follows(decodeQueue[1], FrontSeq)'
    <3>1. CASE decodeQueue = <<>>
      <4>1. decodeQueue'[1] = vpkt /\ LastSeq = FrontSeq
        BY <2>2, <3>1 DEF LastSeq
      <4> QED BY <2>3, <2>5, <4>1
    <3>2. CASE decodeQueue # <<>>
      <4>1. decodeQueue'[1] = decodeQueue[1]
        BY <1>1, <2>2, <3>2
      <4> QED BY <2>3, <2>5, <3>2, <4>1 DEF Chain
    <3> QED BY <3>1, <3>2
  <2>8. ASSUME NEW k \in 1..(Len(decodeQueue') - 1)
        PROVE  Follows(decodeQueue'[k + 1], data[decodeQueue'[k]].seq)
    <3>1. k \in 1..Len(decodeQueue) /\ decodeQueue'[k] = decodeQueue[k]
      BY <1>1, <2>2
    <3>2. CASE k = Len(decodeQueue)
      <4>1. decodeQueue # <<>> /\ LastSeq = data[decodeQueue[k]].seq
        BY <1>1, <3>1, <3>2 DEF LastSeq
      <4> QED BY <2>2, <2>3, <3>1, <3>2, <4>1
    <3>3. CASE k # Len(decodeQueue)
      <4>1. k \in 1..(Len(decodeQueue) - 1) /\ decodeQueue'[k + 1] = decodeQueue[k + 1]
        BY <1>1, <2>2, <3>1, <3>3
      <4> QED BY <2>3, <3>1, <4>1 DEF Chain
    <3> QED BY <3>2, <3>3
  <2>9. Chain'
    BY <2>1, <2>5, <2>6, <2>7, <2>8 DEF Chain
  <2> QED BY <1>1, <2>1, <2>4, <2>9 DEF WayInv, DropInv, Undecided
<1>17. CASE VMark
  <2>1. Keep /\ ~Undecided /\ ~Undecided' /\ UNCHANGED received
    BY <1>17 DEF VMark, VGoto, VKeeps, Undecided, InHand
  <2>2. ~catchup' => ~catchup
    BY <1>17, Zenon DEF VMark
  <2> QED BY <1>6, <2>1, <2>2
<1>18. CASE VDelete \/ MTeardown
  BY <1>18 DEF VDelete, MTeardown
<1>19. CASE DLoad \/ DReused \/ DCheckOk \/ DAdd \/ DFreed
  <2>1. UNCHANGED <<decodeQueue, fed, video_format, live, failed, vpc, vpkt, data, received, catchup>>
    BY <1>19 DEF DLoad, DReused, DCheckOk, DAdd, DFreed, DUnchanged, DOnlyMoves
  <2>2. CASE DLoad \/ DReused \/ DCheckOk
    <3>1. dpkt' = dpkt /\ (InHand' <=> InHand)
      BY <2>2 DEF DLoad, DReused, DCheckOk, DGoto, DUnchanged, DOnlyMoves, InHand
    <3> QED BY <1>7, <2>1, <3>1
  <2>3. CASE DAdd \/ DFreed
    <3>1. ~InHand /\ ~InHand'
      BY <2>3 DEF DAdd, DFreed, DGoto, DUnchanged, InHand
    <3>2. LastSeq' = LastSeq /\ live # NULL /\ ~failed
          /\ \A p, n : Follows(p, n)' <=> Follows(p, n)
      BY <2>1, <3>1 DEF LastSeq, FrontSeq, Follows, Dependent
    <3>3. FrontSeq' = FrontSeq
      BY <2>1, <3>1 DEF FrontSeq
    <3>4. Chain'
      BY <1>4, <2>1, <3>1, <3>2, <3>3 DEF Chain
    <3> QED BY <1>4, <2>1, <3>2, <3>4 DEF WayInv, DropInv, Undecided
  <2> QED BY <1>19, <2>2, <2>3
<1>20. CASE DPop
  <2>1. /\ dptr = live /\ dpkt' = Head(decodeQueue) /\ decodeQueue' = Tail(decodeQueue)
        /\ decodeQueue # <<>> /\ dpc = "popping" /\ dpc' = "chk"
        /\ UNCHANGED <<data, ready, failed, catchup, dptr, live, fed, video_format,
                       vpc, vpkt, received>>
    BY <1>20 DEF DPop, DGoto, DUnchanged
  <2>2. /\ Len(decodeQueue) > 0 /\ Len(decodeQueue') = Len(decodeQueue) - 1
        /\ \A k \in 1..(Len(decodeQueue) - 1) : decodeQueue'[k] = decodeQueue[k + 1]
        /\ dpkt' = decodeQueue[1]
        /\ decodeQueue' = <<>> <=> Len(decodeQueue) = 1
    BY <1>1, <2>1, TailFacts
  <2>3. live # NULL /\ ~failed /\ Chain
    BY <1>4, <2>1
  <2>4. /\ ~InHand /\ InHand' /\ FrontSeq = fed /\ FrontSeq' = data[decodeQueue[1]].seq
        /\ \A p, n : Follows(p, n)' <=> Follows(p, n)
    BY <2>1, <2>2 DEF InHand, FrontSeq, Follows, Dependent
  <2>5. LastSeq' = LastSeq
    <3>1. CASE Len(decodeQueue) = 1
      BY <1>1, <2>1, <2>2, <2>4, <3>1 DEF LastSeq
    <3>2. CASE Len(decodeQueue) # 1
      <4>1. decodeQueue'[Len(decodeQueue')] = decodeQueue[Len(decodeQueue)]
        BY <1>1, <2>2, <3>2
      <4> QED BY <2>1, <2>2, <3>2, <4>1 DEF LastSeq
    <3> QED BY <3>1, <3>2
  <2>6. Follows(dpkt, fed)'
    BY <2>1, <2>2, <2>3, <2>4 DEF Chain
  <2>7. decodeQueue' # <<>> => Follows(decodeQueue[1], FrontSeq)'
    <3> SUFFICES ASSUME decodeQueue' # <<>> PROVE Follows(decodeQueue'[1], FrontSeq')
      BY <2>4
    <3>1. 1 \in 1..(Len(decodeQueue) - 1)
      BY <1>1, <2>2
    <3> QED BY <2>2, <2>3, <2>4, <3>1 DEF Chain
  <2>8. ASSUME NEW k \in 1..(Len(decodeQueue') - 1)
        PROVE  Follows(decodeQueue'[k + 1], data[decodeQueue'[k]].seq)
    <3>1. k \in 1..(Len(decodeQueue) - 1) /\ k + 1 \in 1..(Len(decodeQueue) - 1)
      BY <1>1, <2>2
    <3> QED BY <2>2, <2>3, <3>1 DEF Chain
  <2>9. Chain'
    BY <2>1, <2>4, <2>6, <2>7, <2>8 DEF Chain
  <2>10. Follows(vpkt, LastSeq)' <=> Follows(vpkt, LastSeq)
    BY <2>1, <2>4, <2>5
  <2> QED BY <1>4, <2>1, <2>3, <2>5, <2>9, <2>10 DEF WayInv, DropInv, Undecided
<1>21. CASE DDecode
  <2>1. /\ dptr = live /\ dpc = "decode" /\ fed' = data[dpkt].seq
        /\ dpc' \in {"ret", "push"}
        /\ UNCHANGED <<data, decodeQueue, failed, catchup, dptr, live, video_format,
                       vpc, vpkt, received>>
    BY <1>21 DEF DDecode, DUnchanged
  <2>2. live # NULL /\ ~failed /\ Chain
    BY <1>4, <2>1
  <2>3. /\ InHand /\ ~InHand' /\ FrontSeq' = FrontSeq
        /\ \A p, n : Follows(p, n)' <=> Follows(p, n)
    BY <2>1 DEF InHand, FrontSeq, Follows, Dependent
  <2>4. LastSeq' = LastSeq
    BY <2>1, <2>3 DEF LastSeq
  <2>5. Chain'
    BY <2>1, <2>2, <2>3 DEF Chain
  <2>6. Follows(vpkt, LastSeq)' <=> Follows(vpkt, LastSeq)
    BY <2>1, <2>3, <2>4
  <2> QED BY <1>4, <2>1, <2>2, <2>4, <2>5, <2>6 DEF WayInv, DropInv, Undecided
<1> QED BY <1>8, <1>9, <1>10, <1>11, <1>12, <1>13, <1>14, <1>15, <1>16, <1>17, <1>18,
        <1>19, <1>20, <1>21
        DEF Next, VideoThread, DecodeThread, Main, Terminated, CalmActions

-----------------------------------------------------------------------------
LEMMA InitFeed == Init => FeedInv
<1> SUFFICES ASSUME Init PROVE FeedInv
  OBVIOUS
<1>1. /\ recieveQueue = <<>> /\ decodeQueue = <<>> /\ vpkt = NULL /\ dpkt = NULL /\ live = NULL
      /\ Len(decodeQueue) = 0 /\ received = 0 /\ catchup = FALSE /\ dpc = "off" /\ vpc = "off"
  BY DEF Init, DecoderInit
<1>2. PlacesInv
  BY <1>1 DEF PlacesInv, Distinct, Apart, Lacks, NULL
<1>3. BoundInv
  BY <1>1, CatchupLimitAssumption DEF BoundInv
<1>4. ReadyInv /\ FirstInv /\ WayInv /\ DropInv
  BY <1>1 DEF ReadyInv, FirstInv, WayInv, DropInv, DHolding
<1> QED BY <1>2, <1>3, <1>4 DEF FeedInv

(* FeedInv is an invariant of the capture session.                         *)
THEOREM FeedInvariance == Spec => []FeedInv
<1>1. IInv /\ FeedInv /\ [Next]_vars => FeedInv'
  <2> SUFFICES ASSUME IInv, FeedInv, [Next]_vars PROVE FeedInv'
    OBVIOUS
  <2>1. CASE CalmActions
    BY <2>1, CalmSteps, CalmKeeps, FirstStep DEF FeedInv
  <2>2. CASE ~CalmActions
    <3>1. Next
      BY <2>2 DEF CalmActions
    <3> QED BY <2>2, <3>1, PlacesStep, BoundStep, ReadyStep, FirstStep, OrderStep DEF FeedInv
  <2> QED BY <2>1, <2>2
<1> QED BY InitFeed, <1>1, Invariance, PTL DEF Spec

\* Distinctness of the parts of a concatenation.
LEMMA DistinctConcat ==
  ASSUME NEW S, NEW s \in Seq(S), NEW t \in Seq(S), Distinct(s), Distinct(t), Apart(s, t)
  PROVE  /\ s \o t \in Seq(S) /\ Distinct(s \o t)
         /\ \A u : Apart(s, u) /\ Apart(t, u) => Apart(s \o t, u)
<1> DEFINE w == s \o t
<1>1. /\ w \in Seq(S) /\ Len(w) = Len(s) + Len(t) /\ Len(s) \in Nat /\ Len(t) \in Nat
      /\ DOMAIN s = 1..Len(s) /\ DOMAIN t = 1..Len(t) /\ DOMAIN w = 1..(Len(s) + Len(t))
      /\ \A k \in 1..Len(s) : w[k] = s[k]
      /\ \A k \in 1..(Len(s) + Len(t)) : k > Len(s) => w[k] = t[k - Len(s)]
  OBVIOUS
<1> HIDE DEF w
<1>2. \A k \in DOMAIN w : \/ k \in DOMAIN s /\ w[k] = s[k]
                          \/ /\ k > Len(s) /\ k - Len(s) \in DOMAIN t
                             /\ w[k] = t[k - Len(s)]
  BY <1>1
<1>3. Distinct(w)
  <2> SUFFICES ASSUME NEW a \in DOMAIN w, NEW b \in DOMAIN w, a # b PROVE w[a] # w[b]
    BY DEF Distinct
  <2>1. a - Len(s) # b - Len(s)
    BY <1>1
  <2> QED BY <1>2, <2>1 DEF Distinct, Apart
<1>4. \A u : Apart(s, u) /\ Apart(t, u) => Apart(w, u)
  BY <1>2 DEF Apart
<1> QED BY <1>1, <1>3, <1>4 DEF w

(* The video thread never receives into a packet that is free, queued or   *)
(* being decoded, on any path of read_frame, push_ready_packet and the     *)
(* decode loop, torn size reads or not.                                    *)
THEOREM PacketsUnshared == Spec => []NoSharedPacket
<1>1. ASSUME IInv, PlacesInv PROVE NoSharedPacket
  <2> DEFINE q == recieveQueue \o decodeQueue
             v == IF vpkt = NULL THEN <<>> ELSE <<vpkt>>
             d == IF dpkt = NULL \/ dptr # live THEN <<>> ELSE <<dpkt>>
  <2>1. /\ recieveQueue \in Seq(Packets) /\ decodeQueue \in Seq(Packets)
        /\ vpkt # NULL => vpkt \in Packets
        /\ dpkt # NULL /\ dptr = live => dpkt \in Packets
    BY <1>1 DEF IInv, TypeOK, DecoderTypeOK, ControlInv, HoldInv
  <2>2. v \in Seq(Packets) /\ d \in Seq(Packets) /\ Distinct(v) /\ Distinct(d)
    BY <2>1 DEF Distinct
  <2>3. Apart(recieveQueue, v) /\ Apart(decodeQueue, v)
    BY <1>1 DEF PlacesInv, Apart, Lacks
  <2>4. Apart(recieveQueue, d) /\ Apart(decodeQueue, d)
    BY <1>1 DEF PlacesInv, Apart, Lacks
  <2>5. Apart(v, d)
    BY <1>1 DEF PlacesInv, Apart
  <2>6. Distinct(recieveQueue) /\ Distinct(decodeQueue) /\ Apart(recieveQueue, decodeQueue)
    BY <1>1 DEF PlacesInv
  <2> HIDE DEF v, d, q
  <2>7. q \in Seq(Packets) /\ Distinct(q) /\ Apart(q, v) /\ Apart(q, d)
    BY <2>1, <2>3, <2>4, <2>6, DistinctConcat DEF q
  <2>8. q \o v \in Seq(Packets) /\ Distinct(q \o v) /\ Apart(q \o v, d)
    BY <2>2, <2>5, <2>7, DistinctConcat
  <2>9. (q \o v) \o d \in Seq(Packets) /\ Distinct((q \o v) \o d)
    BY <2>2, <2>8, DistinctConcat
  <2>10. Places = (q \o v) \o d
    BY DEF Places, q, v, d
  <2>11. DOMAIN Places = 1..Len(Places)
    BY <2>9, <2>10
  <2> QED BY <2>9, <2>10, <2>11 DEF NoSharedPacket, Distinct
<1>2. IInv /\ FeedInv => NoSharedPacket
  BY <1>1 DEF FeedInv
<1> QED BY Invariance, FeedInvariance, <1>2, PTL

(* decodeQueue stays as short as push_ready_packet means it to be, for     *)
(* every catch-up limit of at least one frame.                             *)
THEOREM QueueStaysBounded == Spec => []QueueBounded
<1>1. ASSUME IInv, BoundInv PROVE QueueBounded
  <2>1. Len(decodeQueue) \in Nat /\ CatchupLimit \in Nat
    BY <1>1, CatchupLimitAssumption DEF IInv, TypeOK, DecoderTypeOK
  <2> QED BY <1>1, <2>1, TornReadsAssumption DEF BoundInv, QueueBounded
<1>2. IInv /\ FeedInv => QueueBounded
  BY <1>1 DEF FeedInv
<1> QED BY Invariance, FeedInvariance, <1>2, PTL

(* decode_video is given the frames of a connection in the order received, *)
(* and after a gap one that does not depend on the frames dropped, torn    *)
(* size reads or not.                                                      *)
THEOREM FramesInOrder == Spec => FeedOrder
<1> DEFINE InOrder == fed' # fed /\ fed' # 0 =>
                        /\ fed' > fed
                        /\ fed' = fed + 1 \/ ~Dependent(data[dpkt].nal)
<1>1. ASSUME IInv, FeedInv, [Next]_vars PROVE [InOrder]_vars
  <2>1. CASE CalmActions
    <3>1. fed' = fed
      BY <1>1, <2>1, CalmSteps DEF Calm
    <3> QED BY <3>1
  <2>2. CASE DDecode
    <3>1. InHand /\ ~failed /\ live # NULL /\ fed' = data[dpkt].seq
      BY <1>1, <2>2 DEF DDecode, InHand, FeedInv, ReadyInv, IInv, ControlInv, HoldInv, DInDecoder
    <3>2. Follows(dpkt, fed)
      BY <1>1, <3>1 DEF FeedInv, WayInv, Chain
    <3> QED BY <3>1, <3>2 DEF Follows
  <2>3. CASE VNewDecoder
    BY <2>3 DEF VNewDecoder
  <2>4. CASE ~CalmActions /\ ~DDecode /\ ~VNewDecoder
    <3>1. fed' = fed
      BY <1>1, <2>4 DEF Next, VideoThread, DecodeThread, Main, Terminated, CalmActions,
         VPull, VBody, VBodyFail, VCheckFailed, VCheckInit, VCheckReady, VDiscard, VAccept,
         VQueue, VMark, VDelete, VOnlyMoves, DLoad, DPop, DCheckFailed, DCheckOk, DAdd,
         DFreed, DReused, DOnlyMoves, MTeardown, MUnchanged
    <3> QED BY <3>1
  <2> QED BY <2>1, <2>2, <2>3, <2>4
<1>2. IInv /\ FeedInv /\ [Next]_vars => [InOrder]_vars
  BY <1>1
<1>3. Spec => [][InOrder]_vars
  BY Invariance, FeedInvariance, <1>2, PTL DEF Spec
<1> QED BY <1>3 DEF FeedOrder
=============================================================================
