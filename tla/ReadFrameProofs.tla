-------------------------- MODULE ReadFrameProofs --------------------------
(***************************************************************************)
(* read_frame hands over exactly the phone's frames, for every length,     *)
(* limit and number of messages, and never writes outside a buffer.        *)
(***************************************************************************)
EXTENDS ReadFrame, SequenceTheorems, TLAPS

USE HeaderSizeAssumption, LimitsAssumption, LensAssumption, MaxMessagesAssumption

(* The n bytes after a position are a sequence of n positions.             *)
LEMMA BytesType ==
  ASSUME NEW p \in Nat, NEW n \in Nat
  PROVE  /\ Bytes(p, n) \in Seq(Nat)
         /\ Len(Bytes(p, n)) = n
         /\ \A k \in 1..n : Bytes(p, n)[k] = p + k
BY DEF Bytes

(* resize never shrinks a buffer and makes it large enough.                *)
LEMMA ResizeType ==
  ASSUME NEW b \in Seq(Nat), NEW n \in Nat
  PROVE  /\ resize(b, n) \in Seq(Nat)
         /\ Len(resize(b, n)) >= n
BY DEF resize

(* memcpy and recv change the bytes they write and no others.              *)
LEMMA StoreType ==
  ASSUME NEW b \in Seq(Nat), NEW o \in Nat, NEW c \in Seq(Nat), o + Len(c) <= Len(b)
  PROVE  /\ Store(b, o, c) \in Seq(Nat)
         /\ Len(Store(b, o, c)) = Len(b)
         /\ \A k \in 1..o : Store(b, o, c)[k] = b[k]
         /\ \A k \in 1..Len(c) : Store(b, o, c)[o + k] = c[k]
<1>1. \A k \in 1..Len(b) : (IF k \in (o + 1)..(o + Len(c)) THEN c[k - o] ELSE b[k]) \in Nat
  OBVIOUS
<1>2. Store(b, o, c) \in [1..Len(b) -> Nat]
  BY <1>1 DEF Store
<1>3. Store(b, o, c) \in Seq(Nat) /\ Len(Store(b, o, c)) = Len(b)
  BY <1>1 DEF Store
<1>4. \A k \in 1..o : Store(b, o, c)[k] = b[k]
  BY DEF Store
<1>5. \A k \in 1..Len(c) : Store(b, o, c)[o + k] = c[k]
  BY DEF Store
<1> QED BY <1>3, <1>4, <1>5

(* A buffer that begins with the configuration and then receives a body    *)
(* holds the one followed by the other.                                    *)
LEMMA FilledBytes ==
  ASSUME NEW b \in Seq(Nat), NEW c \in Seq(Nat), NEW p \in Nat, NEW n \in Nat,
         Len(c) + n <= Len(b), \A k \in 1..Len(c) : b[k] = c[k]
  PROVE  SubSeq(Store(b, Len(c), Bytes(p, n)), 1, Len(c) + n) = c \o Bytes(p, n)
<1> DEFINE y == Bytes(p, n)
           s == Store(b, Len(c), y)
           l == SubSeq(s, 1, Len(c) + n)
           r == c \o y
<1>1. y \in Seq(Nat) /\ Len(y) = n
  BY BytesType
<1>2. Len(c) \in Nat /\ Len(c) + Len(y) <= Len(b) /\ Len(c) + n \in Nat
  BY <1>1
<1> HIDE DEF y
<1>3. /\ s \in Seq(Nat) /\ Len(s) = Len(b)
      /\ \A k \in 1..Len(c) : s[k] = b[k]
      /\ \A k \in 1..Len(y) : s[Len(c) + k] = y[k]
  BY <1>1, <1>2, StoreType
<1> HIDE DEF s
<1>4. \A k \in 1..(Len(c) + n) : s[k] \in Nat
  BY <1>1, <1>2, <1>3
<1>5. l \in Seq(Nat) /\ Len(l) = Len(c) + n /\ \A k \in 1..(Len(c) + n) : l[k] = s[k]
  <2>1. /\ l \in Seq(Nat)
        /\ Len(l) = IF 1 <= Len(c) + n THEN Len(c) + n - 1 + 1 ELSE 0
        /\ \A k \in 1..(Len(c) + n - 1 + 1) : l[k] = s[1 + k - 1]
    BY <1>2, <1>4, SubSeqProperties, SMT
  <2> HIDE DEF l
  <2> QED BY <2>1, <1>2
<1>6. /\ r \in Seq(Nat) /\ Len(r) = Len(c) + n
      /\ \A k \in 1..(Len(c) + n) : r[k] = IF k <= Len(c) THEN c[k] ELSE y[k - Len(c)]
  BY <1>1, ConcatProperties
<1> HIDE DEF l, r
<1>7. ASSUME NEW k \in 1..(Len(c) + n) PROVE l[k] = r[k]
  <2>1. CASE k <= Len(c)
    <3>1. k \in 1..Len(c)
      BY <2>1, <1>2
    <3>2. b[k] = c[k] /\ s[k] = b[k]
      BY <3>1, <1>3
    <3> QED BY <2>1, <3>2, <1>5, <1>6
  <2>2. CASE ~(k <= Len(c))
    <3>1. k - Len(c) \in 1..Len(y) /\ k = Len(c) + (k - Len(c))
      BY <2>2, <1>1, <1>2
    <3> QED BY <2>2, <3>1, <1>3, <1>5, <1>6
  <2> QED BY <2>1, <2>2
<1>8. l = r
  BY <1>5, <1>6, <1>7, SeqEqual
<1> QED BY <1>8 DEF l, r, s, y
-----------------------------------------------------------------------------
(* The positions of messages are natural numbers.                          *)
LEMMA EndType ==
  ASSUME TypeOK
  PROVE  /\ \A i \in 1..Len(sent) :
              /\ sent[i].config \in BOOLEAN /\ sent[i].len \in Nat /\ sent[i].start \in Nat
              /\ BodyStart(i) \in Nat /\ Body(i) \in Seq(Nat) /\ Len(Body(i)) = sent[i].len
         /\ \A i \in 0..Len(sent) : End(i) \in Nat
<1>1. ASSUME NEW i \in 1..Len(sent)
      PROVE  /\ sent[i].config \in BOOLEAN /\ sent[i].len \in Nat /\ sent[i].start \in Nat
             /\ BodyStart(i) \in Nat
  <2>1. sent[i] \in [config : BOOLEAN, len : Lens, start : Nat]
    BY ElementOfSeq, Zenon DEF TypeOK
  <2>2. sent[i].config \in BOOLEAN
    BY <2>1, Zenon
  <2>3. sent[i].len \in Nat /\ sent[i].start \in Nat
    BY <2>1
  <2> QED BY <2>2, <2>3 DEF BodyStart
<1>2. ASSUME NEW i \in 1..Len(sent) PROVE Body(i) \in Seq(Nat) /\ Len(Body(i)) = sent[i].len
  BY <1>1, BytesType DEF Body
<1>3. ASSUME NEW i \in 0..Len(sent) PROVE End(i) \in Nat
  BY <1>1 DEF End
<1> QED BY <1>1, <1>2, <1>3

(* Where a message begins, only its own header can be read.                *)
LEMMA HeaderRead ==
  ASSUME IInv, NEW h, RecvHeader(h)
  PROVE  /\ read + 1 \in 1..Len(sent)
         /\ sent[read + 1].start = pos
         /\ h = [config |-> sent[read + 1].config, len |-> sent[read + 1].len]
<1>1. pos = End(read) /\ read \in 0..Len(sent) /\ Len(sent) \in Nat
  BY DEF IInv, TypeOK, Aligned, RecvHeader
<1>2. \A i \in 0..Len(sent) : End(i) \in Nat
  BY EndType DEF IInv
<1>3. read # Len(sent)
  BY <1>1, <1>2 DEF RecvHeader, recv_all
<1>4. read + 1 \in 1..Len(sent)
  BY <1>1, <1>3
<1>5. sent[read + 1].start = pos
  BY <1>1, <1>4 DEF IInv, Chained
<1>6. ASSUME NEW i \in 1..Len(sent), sent[i].start = pos PROVE i = read + 1
  <2>1. \A j \in 1..Len(sent) : End(j) = sent[j].start + HeaderSize + sent[j].len
                                 /\ End(j) > sent[j].start
    <3> TAKE j \in 1..Len(sent)
    <3>1. sent[j].len \in Nat /\ sent[j].start \in Nat /\ j # 0
      BY <1>1, EndType DEF IInv
    <3>2. End(j) = sent[j].start + HeaderSize + sent[j].len
      BY <3>1 DEF End, BodyStart
    <3> QED BY <3>1, <3>2
  <2>2. CASE i < read + 1
    <3>1. End(i) <= sent[read + 1].start
      BY <2>2, <1>4 DEF IInv, Chained
    <3> QED BY <3>1, <2>1, <1>5, <1>6, EndType DEF IInv
  <2>3. CASE i > read + 1
    <3>1. End(read + 1) <= sent[i].start
      BY <2>3, <1>4 DEF IInv, Chained
    <3> QED BY <3>1, <2>1, <1>4, <1>5, <1>6, EndType DEF IInv
  <2> QED BY <2>2, <2>3, <1>1
<1>7. h \in {[config |-> sent[i].config, len |-> sent[i].len] :
                i \in {i \in 1..Len(sent) : sent[i].start = pos}}
  BY <1>4, <1>5 DEF RecvHeader, HeadersHere
<1> QED BY <1>4, <1>5, <1>6, <1>7
-----------------------------------------------------------------------------
(* Initially the invariant holds.                                          *)
LEMMA InitInv == Init => IInv
<1> SUFFICES ASSUME Init PROVE IInv
  OBVIOUS
<1> USE DEF Init
<1>1. TypeOK
  BY DEF TypeOK
<1>2. Chained /\ Aligned /\ InBounds /\ Prefixed /\ AllDelivered /\ FramesIntact
  BY DEF Chained, Aligned, ConfigBefore, End, InBounds, Prefixed, AllDelivered, Frames,
         FramesIntact
<1> QED BY <1>1, <1>2 DEF IInv

(* What the phone sends later does not change what it has sent.            *)
LEMMA SentGrows ==
  ASSUME IInv, NEW h \in Headers, Send(h)
  PROVE  /\ Len(sent') = Len(sent) + 1 /\ Len(sent) \in Nat
         /\ sent' \in Seq([config : BOOLEAN, len : Lens, start : Nat])
         /\ sent'[Len(sent')].start = End(Len(sent))
         /\ \A i \in 1..Len(sent) : /\ sent'[i] = sent[i]
                                    /\ BodyStart(i)' = BodyStart(i) /\ Body(i)' = Body(i)
         /\ \A i \in 0..Len(sent) : End(i)' = End(i)
         /\ \A i \in 1..(Len(sent) + 1) : ConfigBefore(i)' = ConfigBefore(i)
         /\ \A i \in 1..Len(sent) : Expected(i)' = Expected(i)
         /\ Frames \subseteq Frames'
         /\ Frames' \subseteq Frames \cup {Len(sent) + 1}
<1> DEFINE m == [config |-> h.config, len |-> h.len, start |-> End(Len(sent))]
<1>1. sent \in Seq([config : BOOLEAN, len : Lens, start : Nat]) /\ Len(sent) \in Nat
  BY DEF IInv, TypeOK
<1>2. End(Len(sent)) \in Nat
  BY <1>1, EndType DEF IInv
<1>3. m \in [config : BOOLEAN, len : Lens, start : Nat]
  BY <1>2 DEF Headers
<1>4. sent' = Append(sent, m)
  BY DEF Send
<1>5. m.start = End(Len(sent))
  OBVIOUS
<1> HIDE DEF m
<1>6. /\ Len(sent') = Len(sent) + 1
      /\ sent' \in Seq([config : BOOLEAN, len : Lens, start : Nat])
      /\ sent'[Len(sent')].start = End(Len(sent))
      /\ \A i \in 1..Len(sent) : sent'[i] = sent[i]
  BY <1>1, <1>3, <1>4, <1>5
<1>7. \A i \in 1..Len(sent) : BodyStart(i)' = BodyStart(i)
  BY <1>6 DEF BodyStart
<1>8. \A i \in 1..Len(sent) : Body(i)' = Body(i)
  BY <1>6, <1>7 DEF Body, Bytes
<1>9. \A i \in 0..Len(sent) : End(i)' = End(i)
  BY <1>1, <1>6, <1>7 DEF End
<1>10. \A i \in 1..(Len(sent) + 1) : ConfigBefore(i)' = ConfigBefore(i)
  <2> TAKE i \in 1..(Len(sent) + 1)
  <2>1. CASE i > 1
    <3>1. i - 1 \in 1..Len(sent)
      BY <2>1, <1>1
    <3> QED BY <3>1, <1>6, <1>8 DEF ConfigBefore
  <2>2. CASE ~(i > 1)
    BY <2>2 DEF ConfigBefore
  <2> QED BY <2>1, <2>2
<1>11. \A i \in 1..Len(sent) : Expected(i)' = Expected(i)
  <2> TAKE i \in 1..Len(sent)
  <2>1. i \in 1..(Len(sent) + 1)
    BY <1>1
  <2>2. ConfigBefore(i)' = ConfigBefore(i) /\ Body(i)' = Body(i)
    BY <2>1, <1>8, <1>10
  <2> QED BY <2>2, Zenon DEF Expected
<1>12. Frames \subseteq Frames' /\ Frames' \subseteq Frames \cup {Len(sent) + 1}
  BY <1>1, <1>6 DEF Frames
<1> QED BY <1>1, <1>6, <1>7, <1>8, <1>9, <1>10, <1>11, <1>12

(* A message of the phone preserves the invariant.                         *)
LEMMA SendStep == ASSUME IInv, NEW h \in Headers, Send(h) PROVE IInv'
<1>0. /\ UNCHANGED <<pos, pc, header, config, buffer, free, busy, read, delivered>>
      /\ Len(sent) \in Nat /\ Len(sent') = Len(sent) + 1 /\ read \in 0..Len(sent)
  BY SentGrows DEF Send, IInv, TypeOK
<1>1. TypeOK'
  <2>1. sent' \in Seq([config : BOOLEAN, len : Lens, start : Nat])
    BY SentGrows, Zenon
  <2>2. read' \in 0..Len(sent')
    BY <1>0
  <2> QED BY <1>0, <2>1, <2>2 DEF IInv, TypeOK
<1>2. Chained'
  <2> SUFFICES ASSUME NEW i \in 1..Len(sent')
               PROVE  /\ sent'[i].start = End(i - 1)'
                      /\ \A j \in 1..(i - 1) : End(j)' <= sent'[i].start
    BY DEF Chained
  <2>1. CASE i \in 1..Len(sent)
    <3>1. sent'[i] = sent[i] /\ \A j \in 0..(i - 1) : End(j)' = End(j)
      BY <2>1, <1>0, SentGrows
    <3> QED BY <2>1, <3>1, <1>0 DEF IInv, Chained
  <2>2. CASE i = Len(sent) + 1
    <3>1. sent'[i].start = End(Len(sent)) /\ \A j \in 0..Len(sent) : End(j)' = End(j)
      BY <2>2, <1>0, SentGrows
    <3>2. ASSUME NEW j \in 1..Len(sent) PROVE End(j) <= End(Len(sent))
      <4>1. CASE j < Len(sent)
        <5>1. End(j) <= sent[Len(sent)].start /\ Len(sent) \in 1..Len(sent)
          BY <4>1, <1>0 DEF IInv, Chained
        <5>2. /\ sent[Len(sent)].start \in Nat /\ sent[Len(sent)].len \in Nat
              /\ End(j) \in Nat
          BY <5>1, <1>0, EndType DEF IInv
        <5> QED BY <1>0, <5>1, <5>2 DEF End, BodyStart
      <4>2. CASE j = Len(sent)
        BY <4>2, <1>0, EndType DEF IInv
      <4> QED BY <4>1, <4>2, <1>0
    <3> QED BY <2>2, <3>1, <3>2, <1>0
  <2> QED BY <2>1, <2>2, <1>0
<1>3. Aligned'
  <2>1. End(read)' = End(read) /\ ConfigBefore(read + 1)' = ConfigBefore(read + 1)
    BY <1>0, SentGrows
  <2>2. ASSUME pc \in {"config", "body"}
        PROVE  /\ sent'[read] = sent[read] /\ BodyStart(read)' = BodyStart(read)
               /\ ConfigBefore(read)' = ConfigBefore(read)
    <3>1. read \in 1..Len(sent)
      BY <2>2, <1>0 DEF IInv, Aligned
    <3> QED BY <3>1, <1>0, SentGrows
  <2> QED BY <1>0, <2>1, <2>2 DEF IInv, Aligned
<1>4. InBounds' /\ Prefixed'
  BY <1>0 DEF IInv, InBounds, Prefixed
<1>5. AllDelivered' /\ FramesIntact'
  <2>1. \A k \in 1..Len(delivered) : delivered[k].from \in Frames
                                     /\ delivered[k].from \in 1..Len(sent)
    BY DEF IInv, FramesIntact, Frames
  <2>2. AllDelivered'
    BY <1>0, <2>1, SentGrows DEF IInv, AllDelivered
  <2>3. FramesIntact'
    <3> SUFFICES ASSUME NEW k \in 1..Len(delivered)
                 PROVE  /\ delivered[k].from \in Frames'
                        /\ delivered[k].bytes = Expected(delivered[k].from)'
                        /\ \A i \in Frames' : i < delivered[k].from
                             <=> \E j \in 1..(k - 1) : delivered[j].from = i
      BY <1>0 DEF FramesIntact
    <3>1. delivered[k].bytes = Expected(delivered[k].from)
      BY DEF IInv, FramesIntact
    <3>2. Expected(delivered[k].from)' = Expected(delivered[k].from)
      BY <1>0, <2>1, SentGrows
    <3>3. ASSUME NEW i \in Frames'
          PROVE  i < delivered[k].from <=> \E j \in 1..(k - 1) : delivered[j].from = i
      <4>1. CASE i \in Frames
        BY <4>1 DEF IInv, FramesIntact
      <4>2. CASE i = Len(sent) + 1
        BY <4>2, <2>1, <1>0
      <4> QED BY <4>1, <4>2, SentGrows
    <3> QED BY <3>1, <3>2, <3>3, <2>1, SentGrows
  <2> QED BY <2>2, <2>3
<1> QED BY <1>1, <1>2, <1>3, <1>4, <1>5 DEF IInv

(* Steps that neither send nor hand over leave the frames as they are.     *)
LEMMA SameStream ==
  ASSUME IInv, UNCHANGED <<sent, delivered>>
  PROVE  /\ Chained' /\ FramesIntact' /\ Frames' = Frames
         /\ \A i : /\ End(i)' = End(i) /\ BodyStart(i)' = BodyStart(i)
                   /\ ConfigBefore(i)' = ConfigBefore(i)
<1>1. sent' = sent /\ delivered' = delivered
  OBVIOUS
<1>2. \A i : End(i)' = End(i) /\ BodyStart(i)' = BodyStart(i)
  BY <1>1 DEF End, BodyStart
<1>3. \A i : Body(i)' = Body(i)
  BY <1>1, <1>2 DEF Body, Bytes
<1>4. \A i : ConfigBefore(i)' = ConfigBefore(i)
  BY <1>1, <1>3 DEF ConfigBefore
<1>5. \A i : Expected(i)' = Expected(i)
  BY <1>3, <1>4, Zenon DEF Expected
<1>6. Frames' = Frames
  BY <1>1 DEF Frames
<1>7. Chained'
  BY <1>1, <1>2 DEF IInv, Chained
<1>8. FramesIntact'
  <2> SUFFICES ASSUME NEW k \in 1..Len(delivered)
               PROVE  /\ delivered[k].from \in Frames'
                      /\ delivered[k].bytes = Expected(delivered[k].from)'
                      /\ \A i \in Frames' : i < delivered[k].from
                           <=> \E j \in 1..(k - 1) : delivered[j].from = i
    BY <1>1 DEF FramesIntact
  <2>1. Expected(delivered[k].from)' = Expected(delivered[k].from)
    BY <1>1, <1>5
  <2>2. /\ delivered[k].from \in Frames
        /\ delivered[k].bytes = Expected(delivered[k].from)
        /\ \A i \in Frames : i < delivered[k].from
             <=> \E j \in 1..(k - 1) : delivered[j].from = i
    BY DEF IInv, FramesIntact
  <2> QED BY <2>1, <2>2, <1>6
<1> QED BY <1>2, <1>4, <1>6, <1>7, <1>8

(* Where a header was read, its body follows and its message is one more.  *)
LEMMA HeaderFacts ==
  ASSUME IInv, NEW h \in Headers, RecvHeader(h)
  PROVE  /\ UNCHANGED <<sent, config, delivered, busy>>
         /\ Len(sent) \in Nat /\ read \in Nat
         /\ read' = read + 1 /\ read' \in 1..Len(sent)
         /\ header' = h /\ h \in [config : BOOLEAN, len : Nat]
         /\ h = [config |-> sent[read'].config, len |-> sent[read'].len]
         /\ pos' \in Nat /\ pos' = BodyStart(read')
         /\ config = ConfigBefore(read')
         /\ Chained' /\ FramesIntact' /\ Len(config) <= MaxConfig
<1>1. /\ UNCHANGED <<sent, config, delivered, busy>> /\ pc = "header"
      /\ read' = read + 1 /\ header' = h /\ pos' = pos + HeaderSize
  BY DEF RecvHeader, recv_all
<1>2. Len(sent) \in Nat /\ read \in Nat /\ pos \in Nat
  BY DEF IInv, TypeOK
<1>3. h \in [config : BOOLEAN, len : Nat]
  BY DEF Headers
<1>4. config = ConfigBefore(read')
  BY <1>1 DEF IInv, Aligned
<1>5. Chained' /\ FramesIntact'
  BY <1>1, SameStream
<1>6. Len(config) <= MaxConfig
  BY DEF IInv, InBounds
<1>7. pos' = BodyStart(read')
  BY <1>1, HeaderRead DEF BodyStart
<1> QED BY <1>1, <1>2, <1>3, <1>4, <1>5, <1>6, <1>7, HeaderRead

(* A rejected header preserves the invariant.                              *)
LEMMA RejectStep == ASSUME IInv, NEW h \in Headers, HeaderRejected(h) PROVE IInv'
<1>1. RecvHeader(h) /\ pc' = "closed" /\ UNCHANGED <<buffer, free>>
  BY DEF HeaderRejected
<1>2. TypeOK'
  BY <1>1, HeaderFacts DEF IInv, TypeOK
<1>3. Aligned' /\ InBounds' /\ Prefixed' /\ AllDelivered'
  BY <1>1, HeaderFacts DEF Aligned, InBounds, Prefixed, AllDelivered
<1> QED BY <1>1, <1>2, <1>3, HeaderFacts DEF IInv

(* The header of a configuration preserves the invariant.                  *)
LEMMA ConfigHeaderStep == ASSUME IInv, NEW h \in Headers, HeaderOfConfig(h) PROVE IInv'
<1>1. RecvHeader(h) /\ pc' = "config" /\ UNCHANGED <<buffer, free>> /\ h.config /\ ~Rejects(h)
  BY DEF HeaderOfConfig
<1>2. TypeOK'
  BY <1>1, HeaderFacts DEF IInv, TypeOK
<1>3. config' = <<>> /\ h.len <= MaxConfig
  BY <1>1, HeaderFacts DEF Rejects
<1>4. sent'[read'].config
  BY <1>1, HeaderFacts
<1>5. Aligned'
  <2>1. pos' = BodyStart(read)' /\ read' > 0
    BY <1>1, HeaderFacts DEF BodyStart
  <2>2. header' = [config |-> sent'[read'].config, len |-> sent'[read'].len]
    BY <1>1, HeaderFacts
  <2> QED BY <1>1, <1>3, <2>1, <2>2, HeaderFacts DEF Aligned
<1>6. InBounds' /\ Prefixed'
  BY <1>1, HeaderFacts DEF InBounds, Prefixed
<1>7. AllDelivered'
  <2> SUFFICES ASSUME NEW i \in Frames
               PROVE  i <= read' <=> \E k \in 1..Len(delivered) : delivered[k].from = i
    BY <1>1, HeaderFacts DEF AllDelivered, Frames
  <2>1. i # read' /\ i \in Nat
    BY <1>1, <1>4, HeaderFacts DEF Frames
  <2>2. i <= read <=> \E k \in 1..Len(delivered) : delivered[k].from = i
    BY <1>1 DEF RecvHeader, IInv, AllDelivered
  <2> QED BY <1>1, <2>1, <2>2, HeaderFacts
<1> QED BY <1>1, <1>2, <1>5, <1>6, <1>7, HeaderFacts DEF IInv

(* The header of a frame preserves the invariant.                          *)
LEMMA FrameHeaderStep == ASSUME IInv, NEW h \in Headers, HeaderOfFrame(h) PROVE IInv'
<1> DEFINE b == pull_empty_packet(h.len)
<1>1. /\ RecvHeader(h) /\ pc' = "body" /\ ~h.config
      /\ buffer' = Store(b, 0, config)
      /\ free' = (IF free = <<>> THEN free ELSE Tail(free))
  BY DEF HeaderOfFrame
<1>2. h.len \in Nat /\ config \in Seq(Nat) /\ free \in Seq(Seq(Nat))
  BY <1>1, HeaderFacts DEF IInv, TypeOK
<1>3. b \in Seq(Nat) /\ Len(b) >= Len(config) + h.len
  <2>1. Len(config) + h.len \in Nat /\ <<>> \in Seq(Nat)
    BY <1>2
  <2>2. CASE free = <<>>
    BY <2>1, <2>2, ResizeType DEF pull_empty_packet
  <2>3. CASE free # <<>>
    <3>1. Head(free) \in Seq(Nat)
      BY <2>3, <1>2, HeadTailProperties
    <3> QED BY <2>1, <2>3, <3>1, ResizeType DEF pull_empty_packet
  <2> QED BY <2>2, <2>3
<1> HIDE DEF b
<1>4. /\ buffer' \in Seq(Nat) /\ Len(buffer') = Len(b)
      /\ \A k \in 1..Len(config) : buffer'[k] = config[k]
  <2>1. 0 + Len(config) <= Len(b) /\ 0 \in Nat
    BY <1>2, <1>3
  <2>2. /\ Store(b, 0, config) \in Seq(Nat) /\ Len(Store(b, 0, config)) = Len(b)
        /\ \A k \in 1..Len(config) : Store(b, 0, config)[0 + k] = config[k]
    BY <2>1, <1>2, <1>3, StoreType
  <2> QED BY <1>1, <2>2
<1>5. free' \in Seq(Seq(Nat))
  BY <1>1, <1>2, HeadTailProperties
<1>6. TypeOK'
  BY <1>1, <1>4, <1>5, HeaderFacts DEF IInv, TypeOK
<1>7. Aligned'
  <2>1. pos' = BodyStart(read)' /\ read' > 0 /\ config' = ConfigBefore(read)'
    BY <1>1, HeaderFacts DEF BodyStart, ConfigBefore, Body, Bytes
  <2>2. header' = [config |-> sent'[read'].config, len |-> sent'[read'].len]
    BY <1>1, HeaderFacts
  <2> QED BY <1>1, <2>1, <2>2, HeaderFacts DEF Aligned
<1>8. InBounds' /\ Prefixed'
  BY <1>1, <1>3, <1>4, HeaderFacts DEF InBounds, Prefixed
<1>9. AllDelivered'
  <2> SUFFICES ASSUME NEW i \in Frames
               PROVE  i < read' <=> \E k \in 1..Len(delivered) : delivered[k].from = i
    BY <1>1, HeaderFacts DEF AllDelivered, Frames
  <2>1. i <= read <=> \E k \in 1..Len(delivered) : delivered[k].from = i
    BY <1>1 DEF RecvHeader, IInv, AllDelivered
  <2> QED BY <1>1, <2>1, HeaderFacts DEF Frames
<1> QED BY <1>1, <1>6, <1>7, <1>8, <1>9, HeaderFacts DEF IInv

(* A received configuration preserves the invariant.                       *)
LEMMA ConfigStep == ASSUME IInv, RecvConfig PROVE IInv'
<1>1. /\ pc = "config" /\ pc' = "header" /\ pos' = pos + header.len
      /\ config' = Bytes(pos, header.len)
      /\ UNCHANGED <<sent, header, buffer, free, busy, read, delivered>>
  BY DEF RecvConfig, recv_all
<1>2. /\ read \in 1..Len(sent) /\ Len(sent) \in Nat /\ pos \in Nat
      /\ pos = BodyStart(read) /\ header.len = sent[read].len /\ sent[read].config
      /\ header.len \in Nat /\ header.len <= MaxConfig
  BY <1>1 DEF IInv, TypeOK, Aligned
<1>3. config' \in Seq(Nat) /\ Len(config') = header.len
  BY <1>1, <1>2, BytesType
<1>4. TypeOK'
  BY <1>1, <1>2, <1>3 DEF IInv, TypeOK
<1>5. Aligned'
  <2>1. pos' = End(read)'
    BY <1>1, <1>2 DEF End, BodyStart
  <2>2. config' = ConfigBefore(read + 1)'
    <3>1. read + 1 > 1 /\ (read + 1) - 1 = read
      BY <1>2
    <3>2. ConfigBefore(read + 1) = Bytes(BodyStart(read), sent[read].len)
      BY <3>1, <1>2 DEF ConfigBefore, Body
    <3>3. ConfigBefore(read + 1)' = ConfigBefore(read + 1)
      BY <1>1, SameStream
    <3> QED BY <1>1, <1>2, <3>2, <3>3
  <2> QED BY <1>1, <2>1, <2>2 DEF Aligned
<1>6. InBounds' /\ Prefixed'
  BY <1>1, <1>2, <1>3 DEF InBounds, Prefixed
<1>7. AllDelivered'
  BY <1>1, SameStream DEF IInv, AllDelivered
<1> QED BY <1>1, <1>4, <1>5, <1>6, <1>7, SameStream DEF IInv

(* A received frame preserves the invariant: its packet is the expected    *)
(* one, and the only frame not handed over before was this one.            *)
LEMMA BodyStep == ASSUME IInv, RecvBody PROVE IInv'
<1> DEFINE y == Bytes(pos, header.len)
           filled == Store(buffer, Len(config), y)
           d == [from |-> read, bytes |-> SubSeq(filled, 1, Len(config) + header.len)]
<1>1. /\ pc = "body" /\ pc' = "header" /\ pos' = pos + header.len
      /\ busy' = Append(busy, filled) /\ delivered' = Append(delivered, d)
      /\ config' = <<>> /\ buffer' = <<>>
      /\ UNCHANGED <<sent, header, free, read>>
  BY DEF RecvBody, recv_all
<1>2. /\ read \in 1..Len(sent) /\ Len(sent) \in Nat /\ pos \in Nat /\ header.len \in Nat
      /\ pos = BodyStart(read) /\ header.len = sent[read].len /\ ~sent[read].config
      /\ config = ConfigBefore(read) /\ config \in Seq(Nat) /\ buffer \in Seq(Nat)
      /\ Len(config) + header.len <= Len(buffer)
      /\ \A k \in 1..Len(config) : buffer[k] = config[k]
  <2>1. /\ read \in 1..Len(sent) /\ Len(sent) \in Nat /\ pos \in Nat /\ header.len \in Nat
        /\ config \in Seq(Nat) /\ buffer \in Seq(Nat)
    BY <1>1 DEF IInv, TypeOK, Aligned
  <2>2. /\ pos = BodyStart(read) /\ header.len = sent[read].len /\ ~sent[read].config
        /\ config = ConfigBefore(read)
    BY <1>1 DEF IInv, Aligned
  <2> QED BY <1>1, <2>1, <2>2 DEF IInv, InBounds, Prefixed
<1>3. filled \in Seq(Nat)
  <2>1. y \in Seq(Nat) /\ Len(y) = header.len
    BY <1>2, BytesType, Zenon
  <2> HIDE DEF y
  <2>2. Len(config) \in Nat /\ Len(config) + Len(y) <= Len(buffer)
    BY <1>2, <2>1
  <2> QED BY <1>2, <2>1, <2>2, StoreType
<1>4. SubSeq(filled, 1, Len(config) + header.len) = config \o y
  <2>1. config \in Seq(Nat) /\ buffer \in Seq(Nat) /\ pos \in Nat /\ header.len \in Nat
    BY <1>2
  <2>2. Len(config) + header.len <= Len(buffer)
    BY <1>2
  <2>3. \A k \in 1..Len(config) : buffer[k] = config[k]
    BY <1>2
  <2> QED BY <2>1, <2>2, <2>3, FilledBytes
<1>5. config \o y = Expected(read) /\ config \o y \in Seq(Nat)
  <2>1. y = Body(read) /\ y \in Seq(Nat)
    BY <1>2, BytesType DEF Body
  <2> HIDE DEF y
  <2> QED BY <1>2, <2>1, ConcatProperties DEF Expected
<1>6. d.from = read /\ d.bytes = Expected(read) /\ d \in [from : Nat, bytes : Seq(Nat)]
  <2> HIDE DEF filled, y
  <2>1. d = [from |-> read, bytes |-> Expected(read)] /\ Expected(read) \in Seq(Nat)
    BY <1>4, <1>5
  <2> HIDE DEF d
  <2> QED BY <1>2, <2>1
<1> HIDE DEF d, filled, y
<1>7. /\ delivered \in Seq([from : Nat, bytes : Seq(Nat)]) /\ Len(delivered) \in Nat
      /\ delivered' \in Seq([from : Nat, bytes : Seq(Nat)])
      /\ Len(delivered') = Len(delivered) + 1
      /\ delivered'[Len(delivered) + 1] = d
      /\ \A k \in 1..Len(delivered) : delivered'[k] = delivered[k]
  BY <1>1, <1>6 DEF IInv, TypeOK
<1>8. TypeOK'
  <2>1. busy' \in Seq(Seq(Nat))
    BY <1>1, <1>3 DEF IInv, TypeOK
  <2>2. /\ sent' \in Seq([config : BOOLEAN, len : Lens, start : Nat])
        /\ header' \in [config : BOOLEAN, len : Nat] /\ free' \in Seq(Seq(Nat))
    BY <1>1 DEF IInv, TypeOK
  <2>3. pos' \in Nat /\ read' \in 0..Len(sent') /\ <<>> \in Seq(Nat)
    BY <1>1, <1>2
  <2> QED BY <1>1, <1>7, <2>1, <2>2, <2>3 DEF TypeOK
<1>9. Aligned'
  <2>1. pos' = End(read)'
    BY <1>1, <1>2 DEF End, BodyStart
  <2>2. config' = ConfigBefore(read + 1)'
    BY <1>1, <1>2 DEF ConfigBefore
  <2> QED BY <1>1, <2>1, <2>2 DEF Aligned
<1>10. InBounds' /\ Prefixed'
  BY <1>1 DEF InBounds, Prefixed
<1>11. Chained'
  BY <1>1 DEF IInv, Chained, End, BodyStart
<1>12. Frames' = Frames /\ \A i : Expected(i)' = Expected(i)
  BY <1>1 DEF Frames, Expected, ConfigBefore, Body, Bytes, BodyStart
<1>13. read \in Frames /\ Frames \subseteq Nat
  BY <1>2 DEF Frames
<1>14. \A i \in Frames : i < read <=> \E k \in 1..Len(delivered) : delivered[k].from = i
  BY <1>1 DEF IInv, AllDelivered
<1>15. AllDelivered'
  BY <1>1, <1>2, <1>6, <1>7, <1>12, <1>13, <1>14 DEF AllDelivered
<1>16. FramesIntact'
  <2> SUFFICES ASSUME NEW k \in 1..Len(delivered')
               PROVE  /\ delivered'[k].from \in Frames
                      /\ delivered'[k].bytes = Expected(delivered'[k].from)
                      /\ \A i \in Frames : i < delivered'[k].from
                           <=> \E j \in 1..(k - 1) : delivered'[j].from = i
    BY <1>12 DEF FramesIntact
  <2>1. CASE k \in 1..Len(delivered)
    <3>1. delivered'[k] = delivered[k] /\ \A j \in 1..(k - 1) : delivered'[j] = delivered[j]
      BY <2>1, <1>7
    <3> QED BY <2>1, <3>1 DEF IInv, FramesIntact
  <2>2. CASE k = Len(delivered) + 1
    <3>1. k - 1 = Len(delivered)
      BY <2>2, <1>7
    <3>2. delivered'[k] = d /\ \A j \in 1..(k - 1) : delivered'[j] = delivered[j]
      BY <2>2, <3>1, <1>7
    <3> QED BY <3>1, <3>2, <1>6, <1>13, <1>14
  <2> QED BY <2>1, <2>2, <1>7
<1> QED BY <1>8, <1>9, <1>10, <1>11, <1>15, <1>16 DEF IInv

(* A short read, a recycled packet and a stutter preserve the invariant.   *)
LEMMA OtherStep ==
  ASSUME IInv, RecvShort \/ Recycle \/ Closed \/ UNCHANGED vars PROVE IInv'
<1>1. CASE RecvShort
  <2>1. /\ pc' = "closed" /\ buffer' = <<>>
        /\ UNCHANGED <<sent, header, config, busy, read, delivered>>
        /\ free' = (IF pc = "body" THEN Append(free, buffer) ELSE free)
    BY <1>1 DEF RecvShort
  <2>2. pos' \in Nat
    <3>1. pos \in Nat /\ Wanted \in Nat
      BY DEF IInv, TypeOK, Wanted
    <3> QED BY <1>1, <3>1 DEF RecvShort
  <2>3. free' \in Seq(Seq(Nat))
    BY <2>1 DEF IInv, TypeOK
  <2>4. TypeOK'
    BY <2>1, <2>2, <2>3 DEF IInv, TypeOK
  <2>5. Aligned' /\ InBounds' /\ Prefixed' /\ AllDelivered'
    BY <2>1 DEF IInv, Aligned, InBounds, Prefixed, AllDelivered
  <2> QED BY <2>1, <2>4, <2>5, SameStream DEF IInv
<1>2. CASE Recycle
  <2>1. /\ busy # <<>> /\ free' = Append(free, Head(busy)) /\ busy' = Tail(busy)
        /\ UNCHANGED <<sent, pos, pc, header, config, buffer, read, delivered>>
    BY <1>2 DEF Recycle
  <2>2. busy \in Seq(Seq(Nat)) /\ free \in Seq(Seq(Nat))
    BY DEF IInv, TypeOK
  <2>3. Head(busy) \in Seq(Nat) /\ busy' \in Seq(Seq(Nat)) /\ free' \in Seq(Seq(Nat))
    BY <2>1, <2>2, HeadTailProperties
  <2>4. TypeOK'
    BY <2>1, <2>3 DEF IInv, TypeOK
  <2>5. Aligned'
    BY <2>1, SameStream DEF IInv, Aligned
  <2>6. InBounds' /\ Prefixed' /\ AllDelivered'
    BY <2>1, SameStream DEF IInv, InBounds, Prefixed, AllDelivered
  <2> QED BY <2>1, <2>4, <2>5, <2>6, SameStream DEF IInv
<1>3. CASE UNCHANGED vars
  <2>1. TypeOK'
    BY <1>3 DEF vars, IInv, TypeOK
  <2>2. Aligned' /\ InBounds' /\ Prefixed' /\ AllDelivered'
    BY <1>3, SameStream DEF vars, IInv, Aligned, InBounds, Prefixed, AllDelivered
  <2> QED BY <1>3, <2>1, <2>2, SameStream DEF vars, IInv
<1> QED BY <1>1, <1>2, <1>3 DEF Closed
-----------------------------------------------------------------------------
(* read_frame keeps its place in the stream whatever the phone sends and   *)
(* wherever a recv comes back short.                                       *)
THEOREM Invariance == Spec => []IInv
<1>1. IInv /\ [Next]_vars => IInv'
  <2> SUFFICES ASSUME IInv, [Next]_vars PROVE IInv'
    OBVIOUS
  <2> QED BY SendStep, RejectStep, ConfigHeaderStep, FrameHeaderStep, ConfigStep, BodyStep,
             OtherStep DEF Next, read_frame
<1> QED BY <1>1, InitInv, PTL DEF Spec

(* The decoder gets exactly the phone's frames, each with the              *)
(* configuration that precedes it, in order and without gaps.              *)
THEOREM FramesDelivered == Spec => []FramesIntact
<1>1. IInv => FramesIntact
  BY DEF IInv
<1> QED BY <1>1, Invariance, PTL

(* No frame is received into a buffer that is too small for it.            *)
THEOREM BuffersSuffice == Spec => []InBounds
<1>1. IInv => InBounds
  BY DEF IInv
<1> QED BY <1>1, Invariance, PTL
=============================================================================
