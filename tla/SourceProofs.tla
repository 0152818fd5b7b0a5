---------------------------- MODULE SourceProofs ----------------------------
(***************************************************************************)
(* The safety properties of the capture session for every video format,    *)
(* every set of picture sizes and NAL types, every catch-up limit, and any *)
(* number of connections and frames.  The proof establishes the inductive  *)
(* invariant IInv of SourceInv, one lemma for each of its parts.           *)
(***************************************************************************)
EXTENDS SourceInv, TLAPS

(* A queue that was just added to is not empty.                            *)
LEMMA AppendNotEmpty ==
  ASSUME NEW S, NEW s \in Seq(S), NEW x \in S PROVE Append(s, x) # <<>>
  OBVIOUS

(* The state droidcam_source_start begins in satisfies the invariant.      *)
LEMMA InitIInv == Init => IInv
<1> SUFFICES ASSUME Init PROVE IInv
  OBVIOUS
<1> USE DEF Init, DecoderInit, NULL, alloc_count
<1>1. DecoderTypeOK
  BY DEF DecoderTypeOK
<1>2. FlagsOK
  BY DEF FlagsOK, DecoderFlagsOK
<1>3. PlainTypeOK
  BY ConfigSizeAssumption, MaxFramesAssumption, MaxConnectsAssumption
     DEF PlainTypeOK, MainSteps, VideoSteps, DecodeSteps, ThreadIds
<1>4. ControlInv
  BY DEF ControlInv, ThreadsInv, SocketInv, PointerInv, FreshName, HoldInv,
         FrameInv, VHolding, VReceiving, DHolding, DInDecoder
<1>5. PacketsConserved
  BY DEF PacketsConserved
<1>6. KeptInv /\ DecoderKeptWhileHeld
  BY DEF KeptInv, PopInv, DrainedInv, QuietInv, DBusy, VReceiving, VHolding,
         DecoderKeptWhileHeld
<1> QED BY <1>1, <1>2, <1>3, <1>4, <1>5, <1>6 DEF IInv, TypeOK

(* The flags of plugin and decoder stay Boolean.                           *)
LEMMA FlagsStep ==
  FlagsOK /\ [Next]_vars => FlagsOK'
<1> SUFFICES ASSUME FlagsOK, [Next]_vars
             PROVE  FlagsOK'
  OBVIOUS
<1> USE DEF mainVars, netVars, outVars, ptrVars, dtVars, vtVars, decoderVars,
        FlagsOK, DecoderFlagsOK
<1>1. CASE VLoopEnd \/ VLoopRecv \/ VLoopConnect \/ VConnect \/ VConnectFail
           \/ VRequest \/ VRequestFail \/ VNewDecoder
  BY <1>1, Zenon DEF VLoopEnd, VLoopRecv, VLoopConnect, VConnect,
        VConnectFail, VRequest, VRequestFail, VNewDecoder, VGoto, VKeeps,
        VOnlyMoves, VOnlyNet, NewDecoder
<1>2. CASE VHeader \/ VHeaderFail \/ VPull \/ VBody \/ VBodyFail \/
           VCheckFailed \/ VCheckInit \/ VCheckReady
  BY <1>2, Zenon DEF VHeader, VHeaderFail, VPull, VBody, VBodyFail,
        VCheckFailed, VCheckInit, VCheckReady, VGoto, VKeeps, VOnlyMoves,
        VOnlyNet, Hangup, PullFree, PullAlloc, SizeRead, push_empty_packet
<1>3. CASE VDiscard \/ VAccept \/ VQueue \/ VMark \/ VSlow \/ VReleaseNone \/
           VRelease \/ VDelete
  BY <1>3, Zenon DEF VDiscard, VAccept, VQueue, VMark, VSlow, VReleaseNone,
        VRelease, VDelete, VGoto, VKeeps, VOnlyMoves, VOnlyNet,
        push_empty_packet, SizeRead, AllReturned, NewDecoder
<1>4. CASE VNull \/ VEnd
  BY <1>4, Zenon DEF VNull, VEnd, VGoto, VKeeps, VOnlyMoves, VOnlyNet
<1>5. CASE DEnd \/ DLoad \/ DSawNone \/ DSawItems \/ DPop \/ DCheckFailed \/
           DCheckOk \/ DDecode
  BY <1>5, Zenon DEF DEnd, DLoad, DSawNone, DSawItems, DPop, DCheckFailed,
        DCheckOk, DDecode, DGoto, DUnchanged, DOnlyMoves, SizeRead
<1>6. CASE DPush \/ DLock \/ DAdd \/ DUnlock \/ DFreed \/ DReused
  BY <1>6, Zenon DEF DPush, DLock, DAdd, DUnlock, DFreed, DReused, DGoto,
        DUnchanged, DOnlyMoves, push_empty_packet
<1>7. CASE MStartVideo \/ MStartDecode \/ MUserStop \/ MStop \/ MJoinVideo \/
           MJoinDecode \/ MTeardown
  BY <1>7, Zenon DEF MStartVideo, MStartDecode, MUserStop, MStop, MJoinVideo,
        MJoinDecode, MTeardown, MGoto, MUnchanged, Join, NewDecoder
<1>8. CASE UNCHANGED vars
  BY <1>8 DEF vars
<1> QED BY <1>1, <1>2, <1>3, <1>4, <1>5, <1>6, <1>7, <1>8
        DEF Next, VideoThread, DecodeThread, Main, Terminated

(* Every step keeps the types: in particular a queued packet is an         *)
(* allocated one also after the list of packets has grown.                 *)
LEMMA TypeStep ==
  TypeOK /\ ControlInv /\ [Next]_vars => (DecoderTypeOK /\ PlainTypeOK)'
<1> SUFFICES ASSUME TypeOK, ControlInv, [Next]_vars
             PROVE  (DecoderTypeOK /\ PlainTypeOK)'
  OBVIOUS
<1> USE DEF mainVars, netVars, outVars, ptrVars, dtVars, vtVars, decoderVars,
        TypeOK, PlainTypeOK, DecoderTypeOK, ControlInv, PointerInv, HoldInv,
        FrameInv, NULL, VHolding, DHolding, DInDecoder, Packets, alloc_count,
        Blank, Frames, MainSteps, VideoSteps, DecodeSteps, ThreadIds
<1>1. CASE VLoopEnd
  BY <1>1, SizesAssumption, MaxFramesAssumption, MaxConnectsAssumption DEF VLoopEnd,
        VGoto, VKeeps, VOnlyMoves, VOnlyNet
<1>2. CASE VLoopRecv
  BY <1>2, SizesAssumption, MaxFramesAssumption, MaxConnectsAssumption DEF VLoopRecv,
        VGoto, VKeeps, VOnlyMoves, VOnlyNet
<1>3. CASE VLoopConnect
  BY <1>3, SizesAssumption, MaxFramesAssumption, MaxConnectsAssumption DEF VLoopConnect,
        VGoto, VKeeps, VOnlyMoves, VOnlyNet
<1>4. CASE VConnect
  BY <1>4, SizesAssumption, MaxFramesAssumption, MaxConnectsAssumption DEF VConnect,
        VGoto, VKeeps, VOnlyMoves, VOnlyNet
<1>5. CASE VConnectFail
  BY <1>5, SizesAssumption, MaxFramesAssumption, MaxConnectsAssumption DEF VConnectFail,
        VGoto, VKeeps, VOnlyMoves, VOnlyNet
<1>6. CASE VRequest
  BY <1>6, SizesAssumption, MaxFramesAssumption, MaxConnectsAssumption DEF VRequest,
        VGoto, VKeeps, VOnlyMoves, VOnlyNet
<1>7. CASE VRequestFail
  BY <1>7, SizesAssumption, MaxFramesAssumption, MaxConnectsAssumption DEF VRequestFail,
        VGoto, VKeeps, VOnlyMoves, VOnlyNet
<1>8. CASE VNewDecoder
  BY <1>8, SizesAssumption, MaxFramesAssumption, MaxConnectsAssumption DEF VNewDecoder,
        VGoto, VKeeps, VOnlyMoves, VOnlyNet, NewDecoder
<1>9. CASE VHeader
  BY <1>9, SizesAssumption, MaxFramesAssumption, MaxConnectsAssumption DEF VHeader,
        VGoto, VKeeps, VOnlyMoves, VOnlyNet
<1>10. CASE VHeaderFail
  BY <1>10, SizesAssumption, MaxFramesAssumption, MaxConnectsAssumption DEF VHeaderFail,
        VGoto, VKeeps, VOnlyMoves, VOnlyNet, Hangup
<1>11. CASE VPull
  <2>1. CASE PullFree(vpkt')
    BY <1>11, <2>1, SizesAssumption, MaxFramesAssumption DEF VPull, VGoto, VKeeps, PullFree
  <2>2. CASE PullAlloc(vpkt', dpc = "adding")
    <3>1. /\ data' \in Seq(Frames \cup {Blank})
          /\ Len(data') = Len(data) + 1
          /\ recieveQueue' = recieveQueue /\ decodeQueue' = decodeQueue
      BY <1>11, <2>2 DEF VPull, PullAlloc
    <3>2. recieveQueue' \in Seq(Packets') /\ decodeQueue' \in Seq(Packets')
      BY <3>1
    <3>3. PlainTypeOK'
      BY <1>11, <2>2, <3>1 DEF VPull, VGoto, VKeeps, PullAlloc
    <3> QED BY <1>11, <3>1, <3>2, <3>3 DEF VPull, VKeeps
  <2> QED BY <1>11, <2>1, <2>2 DEF VPull
<1>12. CASE VBody
  BY <1>12, SizesAssumption, MaxFramesAssumption, MaxConnectsAssumption DEF VBody,
        VGoto, VKeeps, VOnlyMoves, VOnlyNet
<1>13. CASE VBodyFail
  BY <1>13, SizesAssumption, MaxFramesAssumption, MaxConnectsAssumption DEF VBodyFail,
        VGoto, VKeeps, VOnlyMoves, VOnlyNet, Hangup, push_empty_packet
<1>14. CASE VCheckFailed
  BY <1>14, SizesAssumption, MaxFramesAssumption, MaxConnectsAssumption DEF VCheckFailed,
        VGoto, VKeeps, VOnlyMoves, VOnlyNet, push_empty_packet
<1>15. CASE VCheckInit
  BY <1>15, SizesAssumption, MaxFramesAssumption, MaxConnectsAssumption DEF VCheckInit,
        VGoto, VKeeps, VOnlyMoves, VOnlyNet
<1>16. CASE VCheckReady
  BY <1>16, SizesAssumption, MaxFramesAssumption, MaxConnectsAssumption DEF VCheckReady,
        VGoto, VKeeps, VOnlyMoves, VOnlyNet
<1>17. CASE VDiscard
  BY <1>17, SizesAssumption, MaxFramesAssumption, MaxConnectsAssumption DEF VDiscard,
        VGoto, VKeeps, VOnlyMoves, VOnlyNet, push_empty_packet
<1>18. CASE VAccept
  BY <1>18, SizesAssumption, MaxFramesAssumption, MaxConnectsAssumption DEF VAccept,
        VGoto, VKeeps, VOnlyMoves, VOnlyNet, SizeRead
<1>19. CASE VQueue
  BY <1>19, SizesAssumption, MaxFramesAssumption, MaxConnectsAssumption DEF VQueue,
        VGoto, VKeeps, VOnlyMoves, VOnlyNet
<1>20. CASE VMark
  BY <1>20, SizesAssumption, MaxFramesAssumption, MaxConnectsAssumption DEF VMark,
        VGoto, VKeeps, VOnlyMoves, VOnlyNet, SizeRead
<1>21. CASE VSlow
  BY <1>21, SizesAssumption, MaxFramesAssumption, MaxConnectsAssumption DEF VSlow,
        VGoto, VKeeps, VOnlyMoves, VOnlyNet
<1>22. CASE VReleaseNone
  BY <1>22, SizesAssumption, MaxFramesAssumption, MaxConnectsAssumption DEF VReleaseNone,
        VGoto, VKeeps, VOnlyMoves, VOnlyNet
<1>23. CASE VRelease
  BY <1>23, SizesAssumption, MaxFramesAssumption, MaxConnectsAssumption DEF VRelease,
        VGoto, VKeeps, VOnlyMoves, VOnlyNet, AllReturned, SizeRead
<1>24. CASE VDelete
  BY <1>24, SizesAssumption, MaxFramesAssumption, MaxConnectsAssumption DEF VDelete,
        VGoto, VKeeps, VOnlyMoves, VOnlyNet, NewDecoder
<1>25. CASE VNull
  BY <1>25, SizesAssumption, MaxFramesAssumption, MaxConnectsAssumption DEF VNull,
        VGoto, VKeeps, VOnlyMoves, VOnlyNet
<1>26. CASE VEnd
  BY <1>26, SizesAssumption, MaxFramesAssumption, MaxConnectsAssumption DEF VEnd,
        VGoto, VKeeps, VOnlyMoves, VOnlyNet
<1>27. CASE DEnd
  BY <1>27, SizesAssumption, MaxFramesAssumption, MaxConnectsAssumption DEF DEnd,
        DGoto, DUnchanged, DOnlyMoves
<1>28. CASE DLoad
  BY <1>28, SizesAssumption, MaxFramesAssumption, MaxConnectsAssumption DEF DLoad,
        DGoto, DUnchanged, DOnlyMoves
<1>29. CASE DSawNone
  BY <1>29, SizesAssumption, MaxFramesAssumption, MaxConnectsAssumption DEF DSawNone,
        DGoto, DUnchanged, DOnlyMoves, SizeRead
<1>30. CASE DSawItems
  BY <1>30, SizesAssumption, MaxFramesAssumption, MaxConnectsAssumption DEF DSawItems,
        DGoto, DUnchanged, DOnlyMoves, SizeRead
<1>31. CASE DPop
  BY <1>31, SizesAssumption, MaxFramesAssumption, MaxConnectsAssumption DEF DPop,
        DGoto, DUnchanged, DOnlyMoves
<1>32. CASE DCheckFailed
  BY <1>32, SizesAssumption, MaxFramesAssumption, MaxConnectsAssumption DEF DCheckFailed,
        DGoto, DUnchanged, DOnlyMoves
<1>33. CASE DCheckOk
  BY <1>33, SizesAssumption, MaxFramesAssumption, MaxConnectsAssumption DEF DCheckOk,
        DGoto, DUnchanged, DOnlyMoves
<1>34. CASE DDecode
  BY <1>34, SizesAssumption, MaxFramesAssumption, MaxConnectsAssumption DEF DDecode,
        DGoto, DUnchanged, DOnlyMoves
<1>35. CASE DPush
  BY <1>35, SizesAssumption, MaxFramesAssumption, MaxConnectsAssumption DEF DPush,
        DGoto, DUnchanged, DOnlyMoves
<1>36. CASE DLock
  BY <1>36, SizesAssumption, MaxFramesAssumption, MaxConnectsAssumption DEF DLock,
        DGoto, DUnchanged, DOnlyMoves
<1>37. CASE DAdd
  BY <1>37, SizesAssumption, MaxFramesAssumption, MaxConnectsAssumption DEF DAdd,
        DGoto, DUnchanged, DOnlyMoves, push_empty_packet
<1>38. CASE DUnlock
  BY <1>38, SizesAssumption, MaxFramesAssumption, MaxConnectsAssumption DEF DUnlock,
        DGoto, DUnchanged, DOnlyMoves
<1>39. CASE DFreed
  BY <1>39, SizesAssumption, MaxFramesAssumption, MaxConnectsAssumption DEF DFreed,
        DGoto, DUnchanged, DOnlyMoves
<1>40. CASE DReused
  BY <1>40, SizesAssumption, MaxFramesAssumption, MaxConnectsAssumption DEF DReused,
        DGoto, DUnchanged, DOnlyMoves
<1>41. CASE MStartVideo
  BY <1>41, SizesAssumption, MaxFramesAssumption, MaxConnectsAssumption DEF MStartVideo,
        MGoto, MUnchanged
<1>42. CASE MStartDecode
  BY <1>42, SizesAssumption, MaxFramesAssumption, MaxConnectsAssumption DEF MStartDecode,
        MGoto, MUnchanged
<1>43. CASE MUserStop
  BY <1>43, SizesAssumption, MaxFramesAssumption, MaxConnectsAssumption DEF MUserStop,
        MGoto, MUnchanged
<1>44. CASE MStop
  BY <1>44, SizesAssumption, MaxFramesAssumption, MaxConnectsAssumption DEF MStop,
        MGoto, MUnchanged
<1>45. CASE MJoinVideo
  BY <1>45, SizesAssumption, MaxFramesAssumption, MaxConnectsAssumption DEF MJoinVideo,
        MGoto, MUnchanged, Join
<1>46. CASE MJoinDecode
  BY <1>46, SizesAssumption, MaxFramesAssumption, MaxConnectsAssumption DEF MJoinDecode,
        MGoto, MUnchanged, Join
<1>47. CASE MTeardown
  BY <1>47, SizesAssumption, MaxFramesAssumption, MaxConnectsAssumption DEF MTeardown,
        MGoto, MUnchanged, NewDecoder
<1>48. CASE UNCHANGED vars
  BY <1>48 DEF vars
<1> QED BY <1>1, <1>2, <1>3, <1>4, <1>5, <1>6, <1>7, <1>8, <1>9, <1>10,
        <1>11, <1>12, <1>13, <1>14, <1>15, <1>16, <1>17, <1>18, <1>19, <1>20,
        <1>21, <1>22, <1>23, <1>24, <1>25, <1>26, <1>27, <1>28, <1>29, <1>30,
        <1>31, <1>32, <1>33, <1>34, <1>35, <1>36, <1>37, <1>38, <1>39, <1>40,
        <1>41, <1>42, <1>43, <1>44, <1>45, <1>46, <1>47, <1>48
        DEF Next, VideoThread, DecodeThread, Main, Terminated

(* Every step keeps the relation between program counters, thread ids,     *)
(* socket, decoder pointers and packets in hand.                           *)
LEMMA ControlStep ==
  TypeOK /\ ControlInv /\ [Next]_vars => ControlInv'
<1> SUFFICES ASSUME TypeOK, ControlInv, [Next]_vars
             PROVE  ControlInv'
  OBVIOUS
<1> USE DEF mainVars, netVars, outVars, ptrVars, dtVars, vtVars, decoderVars,
        TypeOK, PlainTypeOK, DecoderTypeOK, ControlInv, ThreadsInv, SocketInv,
        PointerInv, FreshName, HoldInv, FrameInv, NULL, VHolding, VReceiving,
        DHolding, DInDecoder, Packets, alloc_count, Blank
<1>1. CASE VLoopEnd
  BY <1>1, SizesAssumption DEF VLoopEnd, VGoto, VKeeps, VOnlyMoves, VOnlyNet
<1>2. CASE VLoopRecv
  BY <1>2, SizesAssumption DEF VLoopRecv, VGoto, VKeeps, VOnlyMoves, VOnlyNet
<1>3. CASE VLoopConnect
  BY <1>3, SizesAssumption DEF VLoopConnect, VGoto, VKeeps, VOnlyMoves,
        VOnlyNet
<1>4. CASE VConnect
  BY <1>4, SizesAssumption DEF VConnect, VGoto, VKeeps, VOnlyMoves, VOnlyNet
<1>5. CASE VConnectFail
  BY <1>5, SizesAssumption DEF VConnectFail, VGoto, VKeeps, VOnlyMoves,
        VOnlyNet
<1>6. CASE VRequest
  BY <1>6, SizesAssumption DEF VRequest, VGoto, VKeeps, VOnlyMoves, VOnlyNet
<1>7. CASE VRequestFail
  BY <1>7, SizesAssumption DEF VRequestFail, VGoto, VKeeps, VOnlyMoves,
        VOnlyNet
<1>8. CASE VNewDecoder
  BY <1>8, SizesAssumption DEF VNewDecoder, VGoto, VKeeps, VOnlyMoves,
        VOnlyNet, NewDecoder
<1>9. CASE VHeader
  BY <1>9, SizesAssumption DEF VHeader, VGoto, VKeeps, VOnlyMoves, VOnlyNet
<1>10. CASE VHeaderFail
  BY <1>10, SizesAssumption DEF VHeaderFail, VGoto, VKeeps, VOnlyMoves,
        VOnlyNet, Hangup
<1>11. CASE VPull
  BY <1>11, SizesAssumption DEF VPull, VGoto, VKeeps, VOnlyMoves, VOnlyNet,
        PullFree, PullAlloc, SizeRead
<1>12. CASE VBody
  BY <1>12, SizesAssumption DEF VBody, VGoto, VKeeps, VOnlyMoves, VOnlyNet
<1>13. CASE VBodyFail
  BY <1>13, SizesAssumption DEF VBodyFail, VGoto, VKeeps, VOnlyMoves,
        VOnlyNet, Hangup, push_empty_packet
<1>14. CASE VCheckFailed
  BY <1>14, SizesAssumption DEF VCheckFailed, VGoto, VKeeps, VOnlyMoves,
        VOnlyNet, push_empty_packet
<1>15. CASE VCheckInit
  BY <1>15, SizesAssumption DEF VCheckInit, VGoto, VKeeps, VOnlyMoves,
        VOnlyNet
<1>16. CASE VCheckReady
  BY <1>16, SizesAssumption DEF VCheckReady, VGoto, VKeeps, VOnlyMoves,
        VOnlyNet
<1>17. CASE VDiscard
  BY <1>17, SizesAssumption DEF VDiscard, VGoto, VKeeps, VOnlyMoves,
        VOnlyNet, push_empty_packet
<1>18. CASE VAccept
  BY <1>18, SizesAssumption DEF VAccept, VGoto, VKeeps, VOnlyMoves, VOnlyNet,
        SizeRead
<1>19. CASE VQueue
  BY <1>19, SizesAssumption DEF VQueue, VGoto, VKeeps, VOnlyMoves, VOnlyNet
<1>20. CASE VMark
  BY <1>20, SizesAssumption DEF VMark, VGoto, VKeeps, VOnlyMoves, VOnlyNet,
        SizeRead
<1>21. CASE VSlow
  BY <1>21, SizesAssumption DEF VSlow, VGoto, VKeeps, VOnlyMoves, VOnlyNet
<1>22. CASE VReleaseNone
  BY <1>22, SizesAssumption DEF VReleaseNone, VGoto, VKeeps, VOnlyMoves,
        VOnlyNet
<1>23. CASE VRelease
  BY <1>23, SizesAssumption DEF VRelease, VGoto, VKeeps, VOnlyMoves,
        VOnlyNet, AllReturned, SizeRead
<1>24. CASE VDelete
  BY <1>24, SizesAssumption DEF VDelete, VGoto, VKeeps, VOnlyMoves, VOnlyNet,
        NewDecoder
<1>25. CASE VNull
  BY <1>25, SizesAssumption DEF VNull, VGoto, VKeeps, VOnlyMoves, VOnlyNet
<1>26. CASE VEnd
  BY <1>26, SizesAssumption DEF VEnd, VGoto, VKeeps, VOnlyMoves, VOnlyNet
<1>27. CASE DEnd
  BY <1>27, SizesAssumption DEF DEnd, DGoto, DUnchanged, DOnlyMoves
<1>28. CASE DLoad
  BY <1>28, SizesAssumption DEF DLoad, DGoto, DUnchanged, DOnlyMoves
<1>29. CASE DSawNone
  BY <1>29, SizesAssumption DEF DSawNone, DGoto, DUnchanged, DOnlyMoves,
        SizeRead
<1>30. CASE DSawItems
  BY <1>30, SizesAssumption DEF DSawItems, DGoto, DUnchanged, DOnlyMoves,
        SizeRead
<1>31. CASE DPop
  BY <1>31, SizesAssumption DEF DPop, DGoto, DUnchanged, DOnlyMoves
<1>32. CASE DCheckFailed
  BY <1>32, SizesAssumption DEF DCheckFailed, DGoto, DUnchanged, DOnlyMoves
<1>33. CASE DCheckOk
  BY <1>33, SizesAssumption DEF DCheckOk, DGoto, DUnchanged, DOnlyMoves
<1>34. CASE DDecode
  BY <1>34, SizesAssumption DEF DDecode, DGoto, DUnchanged, DOnlyMoves
<1>35. CASE DPush
  BY <1>35, SizesAssumption DEF DPush, DGoto, DUnchanged, DOnlyMoves
<1>36. CASE DLock
  BY <1>36, SizesAssumption DEF DLock, DGoto, DUnchanged, DOnlyMoves
<1>37. CASE DAdd
  BY <1>37, SizesAssumption DEF DAdd, DGoto, DUnchanged, DOnlyMoves,
        push_empty_packet
<1>38. CASE DUnlock
  BY <1>38, SizesAssumption DEF DUnlock, DGoto, DUnchanged, DOnlyMoves
<1>39. CASE DFreed
  BY <1>39, SizesAssumption DEF DFreed, DGoto, DUnchanged, DOnlyMoves
<1>40. CASE DReused
  BY <1>40, SizesAssumption DEF DReused, DGoto, DUnchanged, DOnlyMoves
<1>41. CASE MStartVideo
  BY <1>41, SizesAssumption DEF MStartVideo, MGoto, MUnchanged
<1>42. CASE MStartDecode
  BY <1>42, SizesAssumption DEF MStartDecode, MGoto, MUnchanged
<1>43. CASE MUserStop
  BY <1>43, SizesAssumption DEF MUserStop, MGoto, MUnchanged
<1>44. CASE MStop
  BY <1>44, SizesAssumption DEF MStop, MGoto, MUnchanged
<1>45. CASE MJoinVideo
  BY <1>45, SizesAssumption DEF MJoinVideo, MGoto, MUnchanged, Join
<1>46. CASE MJoinDecode
  BY <1>46, SizesAssumption DEF MJoinDecode, MGoto, MUnchanged, Join
<1>47. CASE MTeardown
  BY <1>47, SizesAssumption DEF MTeardown, MGoto, MUnchanged, NewDecoder
<1>48. CASE UNCHANGED vars
  BY <1>48 DEF vars
<1> QED BY <1>1, <1>2, <1>3, <1>4, <1>5, <1>6, <1>7, <1>8, <1>9, <1>10,
        <1>11, <1>12, <1>13, <1>14, <1>15, <1>16, <1>17, <1>18, <1>19, <1>20,
        <1>21, <1>22, <1>23, <1>24, <1>25, <1>26, <1>27, <1>28, <1>29, <1>30,
        <1>31, <1>32, <1>33, <1>34, <1>35, <1>36, <1>37, <1>38, <1>39, <1>40,
        <1>41, <1>42, <1>43, <1>44, <1>45, <1>46, <1>47, <1>48
        DEF Next, VideoThread, DecodeThread, Main, Terminated

(* No step loses or duplicates a packet of the current decoder.            *)
LEMMA PacketsStep ==
  TypeOK /\ ControlInv /\ PacketsConserved /\ [Next]_vars => PacketsConserved'
<1> SUFFICES ASSUME TypeOK, ControlInv, PacketsConserved, [Next]_vars
             PROVE  PacketsConserved'
  OBVIOUS
<1> USE DEF mainVars, netVars, outVars, ptrVars, dtVars, vtVars, decoderVars,
        TypeOK, PlainTypeOK, DecoderTypeOK, ControlInv, PointerInv, FreshName,
        HoldInv, PacketsConserved, Holds, DHolds, NULL, VHolding, VReceiving,
        DHolding, DInDecoder, Packets, alloc_count
<1>1. CASE VLoopEnd \/ VLoopRecv \/ VLoopConnect \/ VConnect \/ VConnectFail
           \/ VRequest \/ VRequestFail \/ VHeader
  BY <1>1 DEF VLoopEnd, VLoopRecv, VLoopConnect, VConnect, VConnectFail,
        VRequest, VRequestFail, VHeader, VGoto, VKeeps, VOnlyMoves, VOnlyNet
<1>2. CASE VHeaderFail \/ VCheckInit \/ VCheckReady \/ VAccept \/ VMark \/
           VSlow \/ VReleaseNone \/ VRelease
  BY <1>2 DEF VHeaderFail, VCheckInit, VCheckReady, VAccept, VMark, VSlow,
        VReleaseNone, VRelease, VGoto, VKeeps, VOnlyMoves, VOnlyNet, Hangup,
        SizeRead, AllReturned
<1>3. CASE VNull \/ VEnd
  BY <1>3 DEF VNull, VEnd, VGoto, VKeeps, VOnlyMoves, VOnlyNet
<1>4. CASE VNewDecoder
  BY <1>4 DEF VNewDecoder, VGoto, VKeeps, VOnlyMoves, VOnlyNet, NewDecoder
<1>5. CASE VPull
  BY <1>5 DEF VPull, VGoto, VKeeps, VOnlyMoves, VOnlyNet, PullFree,
        PullAlloc, SizeRead
<1>6. CASE VBody
  BY <1>6 DEF VBody, VGoto, VKeeps, VOnlyMoves, VOnlyNet
<1>7. CASE VBodyFail
  BY <1>7 DEF VBodyFail, VGoto, VKeeps, VOnlyMoves, VOnlyNet, Hangup,
        push_empty_packet
<1>8. CASE VCheckFailed
  BY <1>8 DEF VCheckFailed, VGoto, VKeeps, VOnlyMoves, VOnlyNet,
        push_empty_packet
<1>9. CASE VDiscard
  BY <1>9 DEF VDiscard, VGoto, VKeeps, VOnlyMoves, VOnlyNet,
        push_empty_packet
<1>10. CASE VQueue
  BY <1>10 DEF VQueue, VGoto, VKeeps, VOnlyMoves, VOnlyNet
<1>11. CASE VDelete
  BY <1>11 DEF VDelete, VGoto, VKeeps, VOnlyMoves, VOnlyNet, NewDecoder
<1>12. CASE DEnd \/ DSawNone \/ DSawItems \/ DCheckFailed \/ DCheckOk \/
           DDecode \/ DPush \/ DLock
  BY <1>12 DEF DEnd, DSawNone, DSawItems, DCheckFailed, DCheckOk, DDecode,
        DPush, DLock, DGoto, DUnchanged, DOnlyMoves, SizeRead
<1>13. CASE DUnlock
  BY <1>13 DEF DUnlock, DGoto, DUnchanged, DOnlyMoves
<1>14. CASE DLoad
  BY <1>14 DEF DLoad, DGoto, DUnchanged, DOnlyMoves
<1>15. CASE DPop
  <2>1. /\ Len(decodeQueue') = Len(decodeQueue) - 1
        /\ dpkt' \in Packets
        /\ UNCHANGED <<recieveQueue, data, vpkt, dptr, live>>
    BY <1>15 DEF DPop, DUnchanged
  <2>2. dpkt = NULL /\ dptr = live /\ dpkt' # NULL
    BY <1>15, <2>1 DEF DPop, DGoto
  <2>3. DHolds = 0 /\ DHolds' = 1
    BY <2>1, <2>2
  <2>4. Holds(vpkt)' = Holds(vpkt) /\ Holds(vpkt) \in Nat
    BY <2>1
  <2>5. Len(recieveQueue) \in Nat /\ Len(decodeQueue) \in Nat /\ Len(data) \in Nat
    OBVIOUS
  <2>6. Len(decodeQueue') = Len(decodeQueue) - 1 /\ Len(recieveQueue') = Len(recieveQueue)
        /\ Len(data') = Len(data) /\ live' = live
    BY <2>1
  <2> HIDE DEF DHolds, Holds, TypeOK, ControlInv
  <2> QED BY <2>3, <2>4, <2>5, <2>6
<1>16. CASE DAdd
  BY <1>16 DEF DAdd, DGoto, DUnchanged, DOnlyMoves, push_empty_packet
<1>17. CASE DFreed
  BY <1>17 DEF DFreed, DGoto, DUnchanged, DOnlyMoves
<1>18. CASE DReused
  BY <1>18 DEF DReused, DGoto, DUnchanged, DOnlyMoves
<1>19. CASE MStartVideo \/ MStartDecode \/ MUserStop \/ MStop \/ MJoinVideo \/
           MJoinDecode
  BY <1>19 DEF MStartVideo, MStartDecode, MUserStop, MStop, MJoinVideo,
        MJoinDecode, MGoto, MUnchanged, Join
<1>20. CASE MTeardown
  BY <1>20 DEF MTeardown, MGoto, MUnchanged, NewDecoder
<1>21. CASE UNCHANGED vars
  BY <1>21 DEF vars
<1> QED BY <1>1, <1>2, <1>3, <1>4, <1>5, <1>6, <1>7, <1>8, <1>9, <1>10,
        <1>11, <1>12, <1>13, <1>14, <1>15, <1>16, <1>17, <1>18, <1>19, <1>20,
        <1>21
        DEF Next, VideoThread, DecodeThread, Main, Terminated

(* Without torn reads the wait of release_decoder ends only when the       *)
(* decode thread has nothing in hand, so the delete cannot hit it.         *)
LEMMA KeptStep ==
  IInv /\ [Next]_vars => (KeptInv /\ DecoderKeptWhileHeld)'
<1> SUFFICES ASSUME IInv, [Next]_vars
             PROVE  (KeptInv /\ DecoderKeptWhileHeld)'
  OBVIOUS
<1> USE DEF mainVars, netVars, outVars, ptrVars, dtVars, vtVars, decoderVars,
        IInv, KeptInv, DecoderKeptWhileHeld, PopInv, DrainedInv, QuietInv,
        TypeOK, PlainTypeOK, DecoderTypeOK, ControlInv, ThreadsInv,
        PointerInv, FreshName, HoldInv, PacketsConserved, Holds, DHolds, NULL,
        VHolding, VReceiving, DHolding, DInDecoder, Packets, alloc_count,
        DBusy
<1>1. CASE VLoopEnd
  BY <1>1, TornReadsAssumption DEF VLoopEnd, VGoto, VKeeps, VOnlyMoves,
        VOnlyNet
<1>2. CASE VLoopRecv
  BY <1>2, TornReadsAssumption DEF VLoopRecv, VGoto, VKeeps, VOnlyMoves,
        VOnlyNet
<1>3. CASE VLoopConnect
  BY <1>3, TornReadsAssumption DEF VLoopConnect, VGoto, VKeeps, VOnlyMoves,
        VOnlyNet
<1>4. CASE VConnect
  BY <1>4, TornReadsAssumption DEF VConnect, VGoto, VKeeps, VOnlyMoves,
        VOnlyNet
<1>5. CASE VConnectFail
  BY <1>5, TornReadsAssumption DEF VConnectFail, VGoto, VKeeps, VOnlyMoves,
        VOnlyNet
<1>6. CASE VRequest
  BY <1>6, TornReadsAssumption DEF VRequest, VGoto, VKeeps, VOnlyMoves,
        VOnlyNet
<1>7. CASE VRequestFail
  BY <1>7, TornReadsAssumption DEF VRequestFail, VGoto, VKeeps, VOnlyMoves,
        VOnlyNet
<1>8. CASE VNewDecoder
  BY <1>8, TornReadsAssumption DEF VNewDecoder, VGoto, VKeeps, VOnlyMoves,
        VOnlyNet, NewDecoder
<1>9. CASE VHeader
  BY <1>9, TornReadsAssumption DEF VHeader, VGoto, VKeeps, VOnlyMoves,
        VOnlyNet
<1>10. CASE VHeaderFail
  BY <1>10, TornReadsAssumption DEF VHeaderFail, VGoto, VKeeps, VOnlyMoves,
        VOnlyNet, Hangup
<1>11. CASE VPull
  BY <1>11, TornReadsAssumption DEF VPull, VGoto, VKeeps, VOnlyMoves,
        VOnlyNet, PullFree, PullAlloc, SizeRead
<1>12. CASE VBody
  BY <1>12, TornReadsAssumption DEF VBody, VGoto, VKeeps, VOnlyMoves,
        VOnlyNet
<1>13. CASE VBodyFail
  BY <1>13, TornReadsAssumption DEF VBodyFail, VGoto, VKeeps, VOnlyMoves,
        VOnlyNet, Hangup, push_empty_packet
<1>14. CASE VCheckFailed
  BY <1>14, TornReadsAssumption DEF VCheckFailed, VGoto, VKeeps, VOnlyMoves,
        VOnlyNet, push_empty_packet
<1>15. CASE VCheckInit
  BY <1>15, TornReadsAssumption DEF VCheckInit, VGoto, VKeeps, VOnlyMoves,
        VOnlyNet
<1>16. CASE VCheckReady
  BY <1>16, TornReadsAssumption DEF VCheckReady, VGoto, VKeeps, VOnlyMoves,
        VOnlyNet
<1>17. CASE VDiscard
  BY <1>17, TornReadsAssumption DEF VDiscard, VGoto, VKeeps, VOnlyMoves,
        VOnlyNet, push_empty_packet
<1>18. CASE VAccept
  BY <1>18, TornReadsAssumption DEF VAccept, VGoto, VKeeps, VOnlyMoves,
        VOnlyNet, SizeRead
<1>19. CASE VQueue
  <2>1. vpkt \in Packets /\ ready
    BY <1>19 DEF VQueue, VGoto, VKeeps
  <2>2. decodeQueue' # <<>>
    <3>1. decodeQueue \in Seq(Packets) /\ decodeQueue' = Append(decodeQueue, vpkt)
      BY <1>19 DEF VQueue
    <3> QED BY <2>1, <3>1, AppendNotEmpty
  <2>3. PopInv' /\ DrainedInv' /\ QuietInv'
    BY <1>19, <2>1, <2>2 DEF VQueue, VGoto, VKeeps
  <2>4. DecoderKeptWhileHeld'
    BY <1>19 DEF VQueue, VGoto, VKeeps
  <2> QED BY <2>3, <2>4
<1>20. CASE VMark
  BY <1>20, TornReadsAssumption DEF VMark, VGoto, VKeeps, VOnlyMoves,
        VOnlyNet, SizeRead
<1>21. CASE VSlow
  BY <1>21, TornReadsAssumption DEF VSlow, VGoto, VKeeps, VOnlyMoves,
        VOnlyNet
<1>22. CASE VReleaseNone
  BY <1>22, TornReadsAssumption DEF VReleaseNone, VGoto, VKeeps, VOnlyMoves,
        VOnlyNet
<1>23. CASE VRelease
  BY <1>23, TornReadsAssumption DEF VRelease, VGoto, VKeeps, VOnlyMoves,
        VOnlyNet, AllReturned, SizeRead
<1>24. CASE VDelete
  BY <1>24, TornReadsAssumption DEF VDelete, VGoto, VKeeps, VOnlyMoves,
        VOnlyNet, NewDecoder
<1>25. CASE VNull
  BY <1>25, TornReadsAssumption DEF VNull, VGoto, VKeeps, VOnlyMoves,
        VOnlyNet
<1>26. CASE VEnd
  BY <1>26, TornReadsAssumption DEF VEnd, VGoto, VKeeps, VOnlyMoves, VOnlyNet
<1>27. CASE DEnd
  BY <1>27, TornReadsAssumption DEF DEnd, DGoto, DUnchanged, DOnlyMoves
<1>28. CASE DLoad
  BY <1>28, TornReadsAssumption DEF DLoad, DGoto, DUnchanged, DOnlyMoves
<1>29. CASE DSawNone
  BY <1>29, TornReadsAssumption DEF DSawNone, DGoto, DUnchanged, DOnlyMoves,
        SizeRead
<1>30. CASE DSawItems
  BY <1>30, TornReadsAssumption DEF DSawItems, DGoto, DUnchanged, DOnlyMoves,
        SizeRead
<1>31. CASE DPop
  BY <1>31, TornReadsAssumption DEF DPop, DGoto, DUnchanged, DOnlyMoves
<1>32. CASE DCheckFailed
  BY <1>32, TornReadsAssumption DEF DCheckFailed, DGoto, DUnchanged,
        DOnlyMoves
<1>33. CASE DCheckOk
  BY <1>33, TornReadsAssumption DEF DCheckOk, DGoto, DUnchanged, DOnlyMoves
<1>34. CASE DDecode
  BY <1>34, TornReadsAssumption DEF DDecode, DGoto, DUnchanged, DOnlyMoves
<1>35. CASE DPush
  BY <1>35, TornReadsAssumption DEF DPush, DGoto, DUnchanged, DOnlyMoves
<1>36. CASE DLock
  BY <1>36, TornReadsAssumption DEF DLock, DGoto, DUnchanged, DOnlyMoves
<1>37. CASE DAdd
  BY <1>37, TornReadsAssumption DEF DAdd, DGoto, DUnchanged, DOnlyMoves,
        push_empty_packet
<1>38. CASE DUnlock
  BY <1>38, TornReadsAssumption DEF DUnlock, DGoto, DUnchanged, DOnlyMoves
<1>39. CASE DFreed
  BY <1>39, TornReadsAssumption DEF DFreed, DGoto, DUnchanged, DOnlyMoves
<1>40. CASE DReused
  BY <1>40, TornReadsAssumption DEF DReused, DGoto, DUnchanged, DOnlyMoves
<1>41. CASE MStartVideo
  BY <1>41, TornReadsAssumption DEF MStartVideo, MGoto, MUnchanged
<1>42. CASE MStartDecode
  BY <1>42, TornReadsAssumption DEF MStartDecode, MGoto, MUnchanged
<1>43. CASE MUserStop
  BY <1>43, TornReadsAssumption DEF MUserStop, MGoto, MUnchanged
<1>44. CASE MStop
  BY <1>44, TornReadsAssumption DEF MStop, MGoto, MUnchanged
<1>45. CASE MJoinVideo
  BY <1>45, TornReadsAssumption DEF MJoinVideo, MGoto, MUnchanged, Join
<1>46. CASE MJoinDecode
  BY <1>46, TornReadsAssumption DEF MJoinDecode, MGoto, MUnchanged, Join
<1>47. CASE MTeardown
  BY <1>47, TornReadsAssumption DEF MTeardown, MGoto, MUnchanged, NewDecoder
<1>48. CASE UNCHANGED vars
  BY <1>48 DEF vars
<1> QED BY <1>1, <1>2, <1>3, <1>4, <1>5, <1>6, <1>7, <1>8, <1>9, <1>10,
        <1>11, <1>12, <1>13, <1>14, <1>15, <1>16, <1>17, <1>18, <1>19, <1>20,
        <1>21, <1>22, <1>23, <1>24, <1>25, <1>26, <1>27, <1>28, <1>29, <1>30,
        <1>31, <1>32, <1>33, <1>34, <1>35, <1>36, <1>37, <1>38, <1>39, <1>40,
        <1>41, <1>42, <1>43, <1>44, <1>45, <1>46, <1>47, <1>48
        DEF Next, VideoThread, DecodeThread, Main, Terminated

(* IInv is an invariant of the capture session.                            *)
THEOREM Invariance == Spec => []IInv
<1>1. IInv /\ [Next]_vars => IInv'
  BY FlagsStep, TypeStep, ControlStep, PacketsStep, KeptStep DEF IInv, TypeOK
<1> QED BY InitIInv, <1>1, PTL DEF Spec

(* Type correctness of the capture session.                                *)
THEOREM TypeCorrect == Spec => []TypeOK
<1>1. IInv => TypeOK
  BY DEF IInv
<1> QED BY Invariance, <1>1, PTL

(* The number of packets in the two queues and in the threads' hands is    *)
(* alloc_count on every path of source.cc, torn size reads or not.         *)
THEOREM PacketConservation == Spec => []PacketsConserved
<1>1. IInv => PacketsConserved
  BY DEF IInv
<1> QED BY Invariance, <1>1, PTL

(* Before a stop is requested, release_decoder never frees the decoder     *)
(* while video_decode_thread takes, decodes or returns a packet.           *)
THEOREM DecoderKept == Spec => []DecoderKeptWhileHeld
<1>1. IInv => DecoderKeptWhileHeld
  BY DEF IInv
<1> QED BY Invariance, <1>1, PTL

(* The unlocked video_frame and picture size are never used by both        *)
(* threads at once.                                                        *)
THEOREM FrameUnshared == Spec => []FrameNotShared
<1>1. IInv => FrameNotShared
  BY DEF IInv, TypeOK, ControlInv, PointerInv, KeptInv, QuietInv, FrameNotShared,
         VReceiving, VHolding, DBusy, NULL
<1> QED BY Invariance, <1>1, PTL

(* Each connection begins with no decoder, no codec state and no packet of *)
(* the connection before it.                                               *)
THEOREM ConnectionStartsFresh == Spec => []FreshDecoder
<1>1. IInv => FreshDecoder
  BY DEF IInv, ControlInv, PointerInv, FreshDecoder
<1> QED BY Invariance, <1>1, PTL

(* droidcam_source_stop frees encoder, decoder and plugin only when both   *)
(* threads have ended or were never created.                               *)
THEOREM TeardownSafe == Spec => []TeardownAlone
<1>1. IInv => TeardownAlone
  BY DEF IInv, ControlInv, ThreadsInv, TeardownAlone
<1> QED BY Invariance, <1>1, PTL

(* video_thread closes every socket it opens before it opens another and   *)
(* before it ends.                                                         *)
THEOREM SocketsClosed == Spec => []NoSocketLeak
<1>1. IInv => NoSocketLeak
  BY DEF IInv, ControlInv, SocketInv, NoSocketLeak, NULL
<1> QED BY Invariance, <1>1, PTL
=============================================================================
