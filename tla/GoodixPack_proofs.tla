-------------------------- MODULE GoodixPack_proofs --------------------------
(***************************************************************************)
(* Proofs about GoodixPack, for every set of payloads and all sizes: the   *)
(* types, the buffer that never overflows, and the packs that arrive as    *)
(* they were sent.                                                         *)
(***************************************************************************)
EXTENDS GoodixPack, SequenceTheorems, TLAPS

Size(pack) == HeaderLength + Len(pack.payload)

-----------------------------------------------------------------------------
(* What goodix_encode_pack writes.                                          *)
LEMMA Encoding ==
  ASSUME NEW pack \in Packs
  PROVE  /\ pack.flags \in Cells \ {0}
         /\ pack.payload \in Seq(Cells) /\ Len(pack.payload) \in 0 .. MaxLength
         /\ Encode(pack) \in Seq(Cells)
         /\ Len(Encode(pack)) = Size(pack) /\ Size(pack) \in Nat
         /\ Encode(pack)[1] = pack.flags
         /\ Encode(pack)[2] = Len(pack.payload)
         /\ \A k \in 1 .. Len(pack.payload) :
              Encode(pack)[HeaderLength + k] = pack.payload[k]
<1> DEFINE payload == pack.payload
           header == <<pack.flags, Len(payload), Checksum(pack)>>
<1>1. MaxLength \in Nat /\ pack.flags \in Cells \ {0} /\ payload \in Payloads
  BY FlagsAssumption, LengthAssumption DEF Packs
<1>2. payload \in Seq(Cells) /\ Len(payload) \in 0 .. MaxLength
  BY <1>1, LengthAssumption, LenProperties
<1>3. pack.flags \in Nat /\ Len(payload) \in Nat
  BY <1>1, <1>2 DEF Cells
<1>4. Checksum(pack) \in Cells
  BY <1>1, <1>3 DEF Checksum, Cells
<1>5. header \in Seq(Cells) /\ Len(header) = 3
  BY <1>1, <1>2, <1>4 DEF Cells
<1>6. Encode(pack) = header \o payload
  BY DEF Encode
<1>7. /\ header \o payload \in Seq(Cells)
      /\ Len(header \o payload) = Len(header) + Len(payload)
      /\ \A i \in 1 .. Len(header) + Len(payload) : (header \o payload)[i] =
           IF i <= Len(header) THEN header[i] ELSE payload[i - Len(header)]
  BY <1>2, <1>5, ConcatProperties
<1>8. header[1] = pack.flags /\ header[2] = Len(payload)
  OBVIOUS
<1> HIDE DEF header, payload
<1>9. Encode(pack)[1] = pack.flags /\ Encode(pack)[2] = Len(payload)
  BY <1>3, <1>5, <1>6, <1>7, <1>8
<1>10. \A k \in 1 .. Len(payload) : Encode(pack)[HeaderLength + k] = payload[k]
  BY <1>3, <1>5, <1>6, <1>7 DEF HeaderLength
<1>11. Len(Encode(pack)) = Size(pack) /\ Size(pack) \in Nat
  BY <1>3, <1>5, <1>6, <1>7 DEF HeaderLength, Size, payload
<1> QED
  BY <1>1, <1>2, <1>6, <1>7, <1>9, <1>10, <1>11 DEF payload

LEMMA PaddingIsBlank ==
  ASSUME NEW n \in Nat
  PROVE  /\ Padding(n) \in Seq(Cells) /\ Len(Padding(n)) = n
         /\ \A i \in 1 .. n : Padding(n)[i] = 0
<1>1. 0 \in Cells
  BY LengthAssumption DEF Cells
<1>2. Padding(n) \in [1 .. n -> Cells]
  BY <1>1 DEF Padding
<1>3. Padding(n) \in Seq(Cells) /\ Len(Padding(n)) = n
  BY <1>2
<1> QED
  BY <1>3 DEF Padding

(* What the sensor adds to the stream.                                      *)
LEMMA Sending ==
  ASSUME stream \in Seq(Cells), NEW pack \in Packs, NEW n \in Nat,
         stream' = stream \o Encode(pack) \o Padding(n)
  PROVE  /\ stream' \in Seq(Cells) /\ Len(stream) \in Nat
         /\ Len(stream') = Len(stream) + Size(pack) + n
         /\ \A i \in 1 .. Len(stream) : stream'[i] = stream[i]
         /\ \A i \in 1 .. Size(pack) : stream'[Len(stream) + i] = Encode(pack)[i]
         /\ \A i \in 1 .. n : stream'[Len(stream) + Size(pack) + i] = 0
<1> DEFINE mid == stream \o Encode(pack)
<1>1. /\ Encode(pack) \in Seq(Cells) /\ Len(Encode(pack)) = Size(pack)
      /\ Size(pack) \in Nat /\ Len(stream) \in Nat
  BY Encoding, LenProperties
<1>2. /\ mid \in Seq(Cells) /\ Len(mid) = Len(stream) + Size(pack)
      /\ \A i \in 1 .. Len(stream) + Size(pack) : mid[i] =
           IF i <= Len(stream) THEN stream[i] ELSE Encode(pack)[i - Len(stream)]
  BY <1>1, ConcatProperties
<1>3. Padding(n) \in Seq(Cells) /\ Len(Padding(n)) = n
  BY PaddingIsBlank
<1>4. /\ mid \o Padding(n) \in Seq(Cells)
      /\ Len(mid \o Padding(n)) = Len(mid) + n
      /\ \A i \in 1 .. Len(mid) + n : (mid \o Padding(n))[i] =
           IF i <= Len(mid) THEN mid[i] ELSE Padding(n)[i - Len(mid)]
  <2> DEFINE pad == Padding(n)
  <2>1. mid \in Seq(Cells) /\ pad \in Seq(Cells) /\ Len(pad) = n
    BY <1>2, <1>3
  <2> HIDE DEF mid, pad
  <2>2. /\ mid \o pad \in Seq(Cells)
        /\ Len(mid \o pad) = Len(mid) + Len(pad)
        /\ \A i \in 1 .. Len(mid) + Len(pad) : (mid \o pad)[i] =
             IF i <= Len(mid) THEN mid[i] ELSE pad[i - Len(mid)]
    BY <2>1, ConcatProperties
  <2> QED BY <2>1, <2>2 DEF pad
<1>5. stream' = mid \o Padding(n)
  OBVIOUS
<1> HIDE DEF mid
<1>6. stream' \in Seq(Cells) /\ Len(stream') = Len(stream) + Size(pack) + n
  BY <1>1, <1>2, <1>4, <1>5
<1>7. \A i \in 1 .. Len(stream) : stream'[i] = stream[i]
  BY <1>1, <1>2, <1>4, <1>5
<1>8. \A i \in 1 .. Size(pack) : stream'[Len(stream) + i] = Encode(pack)[i]
  BY <1>1, <1>2, <1>4, <1>5
<1>9. \A i \in 1 .. n : stream'[Len(stream) + Size(pack) + i] = 0
  <2> TAKE i \in 1 .. n
  <2>1. stream'[Len(mid) + i] = Padding(n)[i]
    BY <1>1, <1>2, <1>4, <1>5
  <2> QED BY <1>2, <2>1, PaddingIsBlank
<1> QED
  BY <1>1, <1>6, <1>7, <1>8, <1>9

(* What a read that fails leaves of the stream.                             *)
Cut(n) == SubSeq(stream, 1, read) \o SubSeq(stream, read + n + 1, Len(stream))

LEMMA Losing ==
  ASSUME stream \in Seq(Cells), read \in 0 .. Len(stream), NEW n \in Nat,
         read + n <= Len(stream)
  PROVE  Cut(n) \in Seq(Cells) /\ Len(Cut(n)) \in Nat /\ read <= Len(Cut(n))
<1> DEFINE before == SubSeq(stream, 1, read)
           after == SubSeq(stream, read + n + 1, Len(stream))
<1>1. /\ Len(stream) \in Nat /\ read \in Nat
      /\ \A i \in 1 .. Len(stream) : stream[i] \in Cells
  BY LenProperties, ElementOfSeq
<1>2. before \in Seq(Cells) /\ Len(before) = read
  <2>1. \A i \in 1 .. read : stream[i] \in Cells
    BY <1>1
  <2> QED BY <1>1, <2>1, SubSeqProperties
<1>3. after \in Seq(Cells) /\ Len(after) \in Nat
  <2>1. \A i \in read + n + 1 .. Len(stream) : stream[i] \in Cells
    BY <1>1
  <2> QED BY <1>1, <2>1, SubSeqProperties, LenProperties
<1>4. Cut(n) = before \o after
  BY DEF Cut
<1> HIDE DEF before, after
<1>5. before \o after \in Seq(Cells) /\ Len(before \o after) = Len(before) + Len(after)
  <2>1. before \in Seq(Cells) /\ after \in Seq(Cells)
    BY <1>2, <1>3
  <2> QED BY <2>1, ConcatProperties
<1> QED
  BY <1>1, <1>2, <1>3, <1>4, <1>5

(* What goodix_decode_pack returns.                                         *)
LEMMA Decoding ==
  ASSUME PackTypeOK, AtPack, Decodes
  PROVE  /\ Stated \in 0 .. MaxLength
         /\ done + Consumed \in done .. read
         /\ Decoded \in Readable
         /\ Decoded.flags = stream[done + 1]
         /\ Len(Decoded.payload) = Stated
         /\ \A k \in 1 .. Stated :
              Decoded.payload[k] = stream[done + HeaderLength + k]
<1>1. stream \in Seq(Cells) /\ Len(stream) \in Nat /\ read \in 0 .. Len(stream) /\ done \in 0 .. read
  BY LenProperties DEF PackTypeOK
<1>2. Length >= HeaderLength /\ Length >= Stated + HeaderLength
  BY DEF Decodes
<1>3. Stated \in Cells /\ MaxLength \in Nat
  BY <1>1, <1>2, ElementOfSeq, LengthAssumption DEF Stated, Length, HeaderLength
<1>4. done + Consumed \in done .. read
  BY <1>1, <1>2, <1>3 DEF Consumed, Length, HeaderLength, Cells
<1>5. stream[done + 1] \in Cells \ {0}
  BY <1>1, <1>2, ElementOfSeq DEF AtPack, Length, HeaderLength
<1> DEFINE from == done + HeaderLength + 1
           to == done + Consumed
           payload == SubSeq(stream, from, to)
<1>6. /\ from \in Int /\ to \in Int /\ to - from + 1 = Stated
      /\ IF from <= to THEN to - from + 1 = Stated ELSE Stated = 0
  BY <1>1, <1>3 DEF Consumed, HeaderLength, Cells
<1>7. \A i \in from .. to : stream[i] \in Cells
  BY <1>1, <1>4, ElementOfSeq DEF HeaderLength
<1>8. /\ payload \in Seq(Cells)
      /\ Len(payload) = IF from <= to THEN to - from + 1 ELSE 0
      /\ \A i \in 1 .. to - from + 1 : payload[i] = stream[from + i - 1]
  <2> HIDE DEF from, to
  <2> QED BY <1>6, <1>7, SubSeqProperties
<1>9. Len(payload) = Stated
  BY <1>3, <1>6, <1>8 DEF Cells
<1>10. \A k \in 1 .. Stated : payload[k] = stream[done + HeaderLength + k]
  BY <1>1, <1>3, <1>6, <1>8 DEF Cells, HeaderLength
<1>11. Decoded = [flags |-> stream[done + 1], payload |-> payload]
  BY DEF Decoded
<1> HIDE DEF payload, from, to
<1> QED
  BY <1>3, <1>4, <1>5, <1>8, <1>9, <1>10, <1>11 DEF Readable, Cells
-----------------------------------------------------------------------------
(* Type correctness.                                                        *)
LEMMA TypeInit == PackInit => PackTypeOK
BY PackBoundsAssumption DEF PackInit, PackTypeOK

LEMMA TypeNext == PackTypeOK /\ [PackNext]_packVars => PackTypeOK'
<1> SUFFICES ASSUME PackTypeOK, [PackNext]_packVars PROVE PackTypeOK'
  OBVIOUS
<1> USE DEF PackTypeOK
<1>0. /\ stream \in Seq(Cells) /\ Len(stream) \in Nat /\ Len(sent) \in Nat
      /\ read \in 0 .. Len(stream) /\ done \in 0 .. read
  BY LenProperties
<1>1. CASE SendPack
  <2>1. PICK pack \in Packs, n \in 0 .. MaxPadding :
          /\ stream' = stream \o Encode(pack) \o Padding(n)
          /\ sent' = Append(sent, pack)
    BY <1>1 DEF SendPack
  <2>2. n \in Nat
    BY PackBoundsAssumption
  <2>3. stream' \in Seq(Cells) /\ Len(stream') = Len(stream) + Size(pack) + n
    BY <1>0, <2>1, <2>2, Sending
  <2>4. Size(pack) \in Nat
    BY Encoding
  <2>5. read' \in 0 .. Len(stream') /\ done' \in 0 .. read'
    BY <1>0, <1>1, <2>2, <2>3, <2>4 DEF SendPack
  <2>6. sent' \in Seq(Packs) /\ Len(sent') = Len(sent) + 1
    BY <2>1
  <2>7. starts' \in Seq(Nat) /\ Len(starts') = Len(starts) + 1
    BY <1>0, <1>1 DEF SendPack
  <2> QED BY <1>0, <1>1, <2>3, <2>5, <2>6, <2>7, PackBoundsAssumption DEF SendPack
<1>2. ASSUME NEW n \in 1 .. MaxRead, Receive(n) PROVE PackTypeOK'
  BY <1>0, <1>2, SizeAssumption DEF Receive
<1>3. ASSUME NEW n \in 1 .. MaxRead, ReadFails(n) PROVE PackTypeOK'
  <2>1. stream' \in Seq(Cells) /\ Len(stream') \in Nat /\ read <= Len(stream')
    <3>1. n \in Nat /\ read + n <= Len(stream)
      BY <1>3, SizeAssumption DEF ReadFails
    <3>2. stream' = Cut(n)
      BY <1>3 DEF ReadFails, Cut
    <3> QED BY <1>0, <3>1, <3>2, Losing
  <2>2. /\ UNCHANGED <<read, done, phase, sent, starts, got>>
        /\ lost' = lost + 1
    BY <1>3 DEF ReadFails
  <2>3. read' \in 0 .. Len(stream') /\ done' \in 0 .. read'
    BY <1>0, <2>1, <2>2
  <2> QED BY <2>1, <2>2, <2>3
<1>4. CASE SkipPadding
  BY <1>0, <1>4 DEF SkipPadding, Length
<1>5. CASE Dispatch
  <2>1. done + Consumed \in done .. read /\ Decoded \in Readable
    BY <1>5, Decoding DEF Dispatch
  <2> QED BY <1>0, <1>5, <2>1 DEF Dispatch
<1>6. CASE CallbackReturns
  BY <1>6 DEF CallbackReturns
<1>7. CASE ReadAgain
  BY <1>7 DEF ReadAgain
<1>8. CASE Close
  BY <1>0, <1>8 DEF Close
<1>9. CASE UNCHANGED packVars
  BY <1>9 DEF packVars
<1> QED
  BY <1>1, <1>2, <1>3, <1>4, <1>5, <1>6, <1>7, <1>8, <1>9 DEF PackNext, Reads, Loop

(* The state of the reader keeps its types, and no more is consumed than    *)
(* was read.                                                                *)
THEOREM PackTypeCorrect == PackSpec => []PackTypeOK
BY TypeInit, TypeNext, PTL DEF PackSpec

-----------------------------------------------------------------------------
(* The buffer.                                                              *)
Bounded == phase = "reading" => Length < HeaderLength + MaxLength

LEMMA BoundedNext == PackTypeOK /\ Bounded /\ [PackNext]_packVars => Bounded'
<1> SUFFICES ASSUME PackTypeOK, Bounded, [PackNext]_packVars, phase' = "reading"
             PROVE  Length' < HeaderLength + MaxLength
  BY DEF Bounded
<1>0. /\ stream \in Seq(Cells) /\ Len(stream) \in Nat /\ MaxLength \in Nat
      /\ read \in 0 .. Len(stream) /\ done \in 0 .. read
  BY LenProperties, LengthAssumption DEF PackTypeOK
<1>1. CASE phase = "reading" /\ Length' = Length
  BY <1>1 DEF Bounded
<1>2. CASE Length' = 0
  BY <1>0, <1>2 DEF HeaderLength
<1>3. CASE ReadAgain
  <2>1. Length' = Length
    BY <1>3 DEF ReadAgain, Length
  <2>2. CASE Length < HeaderLength
    BY <1>0, <2>1, <2>2 DEF HeaderLength, Length
  <2>3. CASE ~(Length < HeaderLength) /\ Length > 0
    <3>1. Length < Stated + HeaderLength \/ ~(Length >= HeaderLength)
      BY <1>0, <1>3, <2>3, ElementOfSeq DEF ReadAgain, Decodes, Length, Stated, HeaderLength, Cells
    <3>2. Stated \in Cells
      BY <1>0, <2>3, ElementOfSeq DEF Stated, Length, HeaderLength
    <3> QED BY <1>0, <2>1, <2>3, <3>1, <3>2 DEF HeaderLength, Cells, Length
  <2> QED BY <1>0, <2>2, <2>3 DEF Length, HeaderLength
<1>4. ASSUME NEW n \in 1 .. MaxRead, Receive(n)
      PROVE  Length' = 0
  BY <1>0, <1>4, SizeAssumption DEF Receive, Length
<1>5. ASSUME NEW n \in 1 .. MaxRead, ReadFails(n)
      PROVE  phase = "reading" /\ Length' = Length
  BY <1>5 DEF ReadFails, Length
<1>6. SendPack => phase = "reading" /\ Length' = Length
  BY DEF SendPack, Length
<1>7. Close => Length' = 0
  BY <1>0 DEF Close, Length
<1>8. ~SkipPadding /\ ~Dispatch /\ ~CallbackReturns
  BY DEF SkipPadding, Dispatch, CallbackReturns
<1>9. UNCHANGED packVars => phase = "reading" /\ Length' = Length
  BY DEF packVars, Length
<1> QED
  BY <1>1, <1>2, <1>3, <1>4, <1>5, <1>6, <1>7, <1>8, <1>9 DEF PackNext, Reads, Loop

LEMMA BoundedFits == PackTypeOK /\ Bounded => NeverTooLarge
BY SizeAssumption, LengthAssumption, LenProperties
   DEF PackTypeOK, Bounded, NeverTooLarge, TooLarge, Length, HeaderLength

(* A read always finds room for all it can return: the error of a packet    *)
(* that exceeds the maximum size cannot occur, even on a garbled stream.    *)
THEOREM ReadsFit == PackSpec => []NeverTooLarge
<1>1. PackInit => Bounded
  BY LengthAssumption DEF PackInit, Bounded, Length, HeaderLength
<1> QED
  BY <1>1, TypeInit, TypeNext, BoundedNext, BoundedFits, PTL DEF PackSpec

-----------------------------------------------------------------------------
(* The frames.  While nothing is lost, every pack of the sensor is in the   *)
(* stream where `starts' says, in order, and one that is not dispatched is  *)
(* not consumed either.                                                     *)
End(i) == starts[i] + Size(sent[i])

InStream(i) ==
  /\ starts[i] \in Nat /\ End(i) <= Len(stream)
  /\ stream[starts[i] + 1] = sent[i].flags
  /\ stream[starts[i] + 2] = Len(sent[i].payload)
  /\ \A k \in 1 .. Len(sent[i].payload) :
       stream[starts[i] + HeaderLength + k] = sent[i].payload[k]

Undispatched == Len(got) + 1 .. Len(sent)

InFrame(k) == \E i \in Undispatched : starts[i] < k /\ k <= End(i)

Framed ==
  /\ Len(got) <= Len(sent)
  /\ \A i \in 1 .. Len(sent) : InStream(i)
  /\ \A i \in Undispatched : done <= starts[i]
  /\ \A i, j \in 1 .. Len(sent) : i < j => End(i) <= starts[j]
  /\ \A k \in done + 1 .. Len(stream) : stream[k] = 0 \/ InFrame(k)

FrameOK == lost = 0 => Framed

(* What the types say about a pack that was sent.                           *)
LEMMA SentPack ==
  ASSUME PackTypeOK, NEW i \in 1 .. Len(sent)
  PROVE  /\ sent[i] \in Packs
         /\ sent[i].flags \in Cells \ {0}
         /\ sent[i].payload \in Seq(Cells)
         /\ Len(sent[i].payload) \in 0 .. MaxLength
         /\ Size(sent[i]) = HeaderLength + Len(sent[i].payload)
         /\ starts[i] \in Nat
<1>1. sent[i] \in Packs /\ starts[i] \in Nat
  BY ElementOfSeq DEF PackTypeOK
<1> QED
  BY <1>1, Encoding DEF Size

LEMMA Numbers ==
  ASSUME PackTypeOK
  PROVE  /\ Len(stream) \in Nat /\ Len(sent) \in Nat /\ Len(got) \in Nat
         /\ read \in 0 .. Len(stream) /\ done \in 0 .. read
         /\ \A i \in 1 .. Len(stream) : stream[i] \in Cells
BY LenProperties, ElementOfSeq DEF PackTypeOK

(* The host finds a pack where the next undispatched one is, and reads it   *)
(* as it was sent.                                                          *)
LEMMA NextFrame ==
  ASSUME PackTypeOK, Framed, AtPack, Decodes
  PROVE  /\ Len(got) + 1 \in 1 .. Len(sent)
         /\ starts[Len(got) + 1] = done
         /\ Decoded = sent[Len(got) + 1]
         /\ done + Consumed = End(Len(got) + 1)
<1> DEFINE next == Len(got) + 1
<1>0. /\ Len(stream) \in Nat /\ Len(sent) \in Nat /\ Len(got) \in Nat
      /\ read \in 0 .. Len(stream) /\ done \in 0 .. read
  BY Numbers
<1>1. done + 1 \in done + 1 .. Len(stream) /\ stream[done + 1] # 0
  BY <1>0 DEF AtPack, Length
<1>2. PICK i \in Undispatched : starts[i] < done + 1 /\ done + 1 <= End(i)
  BY <1>1 DEF Framed, InFrame
<1>3. i \in 1 .. Len(sent) /\ next \in 1 .. Len(sent) /\ next <= i
  BY <1>0 DEF Undispatched
<1>4. done <= starts[i] /\ done <= starts[next]
  BY <1>0, <1>3 DEF Framed, Undispatched
<1>5. starts[i] = done
  BY <1>0, <1>2, <1>3, <1>4, SentPack
<1>6. i = next
  <2> SUFFICES ASSUME next < i PROVE FALSE
    BY <1>0, <1>3
  <2>1. End(next) <= starts[i]
    BY <1>3 DEF Framed
  <2>2. /\ End(next) = starts[next] + Size(sent[next]) /\ starts[next] \in Nat
        /\ Size(sent[next]) = HeaderLength + Len(sent[next].payload)
        /\ Len(sent[next].payload) \in Nat
    BY <1>3, SentPack DEF End
  <2> QED BY <1>0, <1>4, <1>5, <2>1, <2>2 DEF HeaderLength
<1>7. InStream(next)
  BY <1>3 DEF Framed
<1>8. Stated = Len(sent[next].payload) /\ Decoded.flags = sent[next].flags
  BY <1>5, <1>6, <1>7, Decoding DEF InStream, Stated
<1>9. done + Consumed = End(next)
  BY <1>0, <1>3, <1>5, <1>6, <1>8, SentPack DEF Consumed, End, HeaderLength
<1>10. Decoded.payload = sent[next].payload
  <2>1. Decoded.payload \in Seq(Cells) /\ sent[next].payload \in Seq(Cells)
    BY <1>3, SentPack, Decoding DEF Readable
  <2>2. Len(Decoded.payload) = Len(sent[next].payload)
    BY <1>8, Decoding
  <2>3. \A k \in 1 .. Len(Decoded.payload) : Decoded.payload[k] = sent[next].payload[k]
    BY <1>5, <1>6, <1>7, <1>8, Decoding DEF InStream
  <2> QED BY <2>1, <2>2, <2>3, SeqEqual
<1>11. Decoded = sent[next]
  <2>1. /\ Decoded \in Readable /\ sent[next] \in Packs
    BY <1>3, SentPack, Decoding
  <2> QED BY <1>8, <1>10, <2>1 DEF Readable, Packs
<1> QED
  BY <1>3, <1>5, <1>6, <1>9, <1>11

LEMMA Later ==
  ASSUME NEW a \in Nat, NEW b \in Nat, a <= b, NEW n \in Nat,
         NEW k \in b + 1 .. n
  PROVE  k \in a + 1 .. n
OBVIOUS

(* Padding is consumed, by the loop or by a close.                          *)
LEMMA FramedSkip ==
  ASSUME PackTypeOK, Framed, done' \in done .. Len(stream), Blank(done, done'),
         UNCHANGED <<stream, sent, starts, got>>
  PROVE  Framed'
<1>0. /\ Len(stream) \in Nat /\ Len(sent) \in Nat /\ Len(got) \in Nat
      /\ read \in 0 .. Len(stream) /\ done \in 0 .. read /\ done' \in Nat
  BY Numbers
<1>1. \A i \in Undispatched : done' <= starts[i]
  <2> SUFFICES ASSUME NEW i \in Undispatched, starts[i] < done' PROVE FALSE
    BY <1>0, SentPack DEF Undispatched
  <2>1. i \in 1 .. Len(sent)
    BY <1>0 DEF Undispatched
  <2>2. starts[i] \in Nat /\ done <= starts[i] /\ stream[starts[i] + 1] = sent[i].flags
    BY <2>1 DEF Framed, InStream
  <2>3. stream[starts[i] + 1] = 0
    BY <1>0, <2>2 DEF Blank
  <2> QED BY <2>1, <2>2, <2>3, SentPack
<1>2. \A k \in done' + 1 .. Len(stream) : stream[k] = 0 \/ InFrame(k)
  <2> SUFFICES ASSUME NEW k \in done' + 1 .. Len(stream)
               PROVE  k \in done + 1 .. Len(stream)
    BY DEF Framed
  <2>1. done \in Nat /\ done' \in Nat /\ done <= done'
    BY <1>0
  <2> QED BY <1>0, <2>1, Later
<1> QED
  BY <1>1, <1>2 DEF Framed, InStream, Undispatched, InFrame, End

(* A pack is dispatched.                                                    *)
LEMMA FramedDispatch ==
  ASSUME PackTypeOK, Framed, Dispatch
  PROVE  Framed'
<1> DEFINE next == Len(got) + 1
<1>0. /\ Len(stream) \in Nat /\ Len(sent) \in Nat /\ Len(got) \in Nat
      /\ read \in 0 .. Len(stream) /\ done \in 0 .. read
  BY Numbers
<1>1. /\ next \in 1 .. Len(sent) /\ done' = End(next)
      /\ UNCHANGED <<stream, sent, starts>>
  BY NextFrame DEF Dispatch
<1>2. Len(got') = next
  <2>1. got \in Seq(Readable) /\ Decoded \in Readable /\ got' = Append(got, Decoded)
    BY Decoding DEF Dispatch, PackTypeOK
  <2> QED BY <2>1
<1>3. \A i \in next + 1 .. Len(sent) : done' <= starts[i]
  BY <1>0, <1>1 DEF Framed
<1>4. ASSUME NEW k \in done' + 1 .. Len(stream)
      PROVE  stream[k] = 0 \/ \E i \in next + 1 .. Len(sent) : starts[i] < k /\ k <= End(i)
  <2>1. done' \in Nat /\ done <= done'
    <3>1. starts[next] \in Nat /\ Size(sent[next]) \in Nat /\ starts[next] = done
      BY <1>1, SentPack, NextFrame, Encoding DEF Dispatch
    <3>2. done' = done + Size(sent[next])
      BY <1>1, <3>1 DEF End
    <3>3. done \in Nat
      BY <1>0
    <3> QED BY <3>1, <3>2, <3>3
  <2>2. stream[k] = 0 \/ InFrame(k)
    <3>1. k \in done + 1 .. Len(stream)
      <4>1. done \in Nat
        BY <1>0
      <4> QED BY <1>0, <2>1, <4>1, Later
    <3> QED BY <3>1 DEF Framed
  <2>3. CASE InFrame(k)
    <3>1. PICK i \in Undispatched : starts[i] < k /\ k <= End(i)
      BY <2>3 DEF InFrame
    <3>2. i # next
      BY <1>0, <1>1, <2>1, <3>1
    <3>3. i \in next + 1 .. Len(sent)
      BY <1>0, <1>1, <3>2 DEF Undispatched
    <3> QED BY <3>1, <3>3
  <2> QED BY <2>2, <2>3
<1> QED
  <2>1. Undispatched' = next + 1 .. Len(sent)
    BY <1>1, <1>2 DEF Undispatched
  <2>2. Len(got') <= Len(sent')
    BY <1>0, <1>1, <1>2
  <2>3. \A i \in 1 .. Len(sent') : InStream(i)'
    BY <1>1 DEF Framed, InStream, End
  <2>4. \A i \in Undispatched' : done' <= starts'[i]
    BY <1>1, <1>3, <2>1
  <2>5. \A i, j \in 1 .. Len(sent') : i < j => End(i)' <= starts'[j]
    BY <1>1 DEF Framed, End
  <2>6. \A k \in done' + 1 .. Len(stream') : stream'[k] = 0 \/ InFrame(k)'
    BY <1>1, <1>4, <2>1 DEF InFrame, End
  <2> QED BY <2>2, <2>3, <2>4, <2>5, <2>6 DEF Framed

LEMMA Inside ==
  ASSUME NEW a \in Nat, NEW l \in Nat, NEW t \in Nat, a + 3 + l <= t
  PROVE  /\ a + 1 \in 1 .. t /\ a + 2 \in 1 .. t
         /\ \A k \in 1 .. l : a + 3 + k \in 1 .. t
OBVIOUS

(* A pack is sent.                                                          *)
LEMMA FramedSend ==
  ASSUME PackTypeOK, PackTypeOK', Framed, SendPack
  PROVE  Framed'
<1> DEFINE top == Len(stream)
<1>a. PICK last \in Nat : last = Len(sent) + 1
  BY Numbers
<1>0. /\ top \in Nat /\ Len(sent) \in Nat /\ Len(got) \in Nat
      /\ read \in 0 .. top /\ done \in Nat /\ done <= top
  BY Numbers
<1>1. PICK pack \in Packs, n \in 0 .. MaxPadding :
        /\ stream' = stream \o Encode(pack) \o Padding(n)
        /\ sent' = Append(sent, pack)
  BY DEF SendPack
<1>2. n \in Nat
  BY PackBoundsAssumption
<1>3. starts' = Append(starts, top) /\ UNCHANGED <<read, done, got>>
  BY DEF SendPack
<1>4. /\ Len(sent') = last
      /\ \A i \in 1 .. Len(sent) : sent'[i] = sent[i]
      /\ sent'[last] = pack
  BY <1>0, <1>a, <1>1 DEF PackTypeOK
<1>5. /\ \A i \in 1 .. Len(sent) : starts'[i] = starts[i]
      /\ starts'[last] = top
  BY <1>0, <1>a, <1>3 DEF PackTypeOK
<1>6. /\ Size(pack) \in Nat /\ Len(stream') = top + Size(pack) + n
      /\ Size(pack) = HeaderLength + Len(pack.payload) /\ Len(pack.payload) \in Nat
      /\ \A i \in 1 .. top : stream'[i] = stream[i]
      /\ \A i \in 1 .. Size(pack) : stream'[top + i] = Encode(pack)[i]
      /\ \A i \in 1 .. n : stream'[top + Size(pack) + i] = 0
  <2>1. Size(pack) = HeaderLength + Len(pack.payload) /\ Len(pack.payload) \in Nat
    BY Encoding DEF Size
  <2>2. stream \in Seq(Cells)
    BY DEF PackTypeOK
  <2>3. Size(pack) \in Nat
    BY Encoding
  <2> QED BY <1>1, <1>2, <2>1, <2>2, <2>3, Sending
<1> HIDE DEF top
<1>7. ASSUME NEW i \in 1 .. Len(sent)
      PROVE  /\ InStream(i)' /\ End(i)' = End(i) /\ End(i) \in Nat
             /\ starts[i] \in Nat /\ End(i) <= top
  <2>1. InStream(i) /\ starts'[i] = starts[i] /\ sent'[i] = sent[i]
    BY <1>4, <1>5 DEF Framed
  <2>2. /\ starts[i] \in Nat /\ Len(sent[i].payload) \in Nat
        /\ End(i) = starts[i] + HeaderLength + Len(sent[i].payload) /\ End(i) \in Nat
        /\ End(i) <= top
    <3>1. starts[i] \in Nat /\ Len(sent[i].payload) \in Nat
      BY SentPack
    <3>2. Size(sent[i]) = HeaderLength + Len(sent[i].payload)
      BY SentPack
    <3>3. End(i) <= top
      BY <2>1 DEF InStream, top
    <3>4. End(i) = starts[i] + Size(sent[i])
      BY DEF End
    <3>5. End(i) = starts[i] + 3 + Len(sent[i].payload)
      BY <3>1, <3>2, <3>4 DEF HeaderLength
    <3> QED BY <3>1, <3>3, <3>5 DEF HeaderLength
  <2>3. /\ starts[i] + 1 \in 1 .. top /\ starts[i] + 2 \in 1 .. top
        /\ \A k \in 1 .. Len(sent[i].payload) : starts[i] + HeaderLength + k \in 1 .. top
    <3>1. starts[i] + 3 + Len(sent[i].payload) <= top
      BY <2>2 DEF HeaderLength
    <3>2. starts[i] + 1 \in 1 .. top /\ starts[i] + 2 \in 1 .. top
      BY <1>0, <2>2, <3>1, Inside
    <3>3. \A k \in 1 .. Len(sent[i].payload) : starts[i] + HeaderLength + k \in 1 .. top
      BY <1>0, <2>2, <3>1, Inside DEF HeaderLength
    <3> QED BY <3>2, <3>3
  <2>4. End(i)' = End(i)
    BY <2>1 DEF End
  <2>5. End(i)' <= Len(stream')
    BY <1>0, <1>2, <1>6, <2>2, <2>4
  <2>6. InStream(i)'
    BY <1>6, <2>1, <2>2, <2>3, <2>5 DEF InStream
  <2> QED BY <2>2, <2>4, <2>6
<1>8. /\ InStream(last)' /\ End(last)' = top + Size(pack)
  <2>1. starts'[last] = top /\ sent'[last] = pack
    BY <1>4, <1>5
  <2>2. End(last)' = top + Size(pack)
    BY <2>1 DEF End
  <2>3. End(last)' <= Len(stream')
    BY <1>0, <1>2, <1>6, <2>2
  <2>4. stream'[top + 1] = pack.flags /\ stream'[top + 2] = Len(pack.payload)
    BY <1>6, Encoding DEF HeaderLength
  <2>5. \A k \in 1 .. Len(pack.payload) :
          stream'[top + HeaderLength + k] = pack.payload[k]
    <3> TAKE k \in 1 .. Len(pack.payload)
    <3>1. HeaderLength + k \in 1 .. Size(pack)
      BY <1>6 DEF HeaderLength
    <3>2. stream'[top + (HeaderLength + k)] = Encode(pack)[HeaderLength + k]
      BY <1>6, <3>1
    <3>3. top + (HeaderLength + k) = top + HeaderLength + k
      BY <1>0, <1>6 DEF HeaderLength
    <3> QED BY <3>2, <3>3, Encoding
  <2>6. starts'[last] \in Nat
    BY <1>0, <2>1
  <2>7. InStream(last)'
    BY <2>1, <2>3, <2>4, <2>5, <2>6 DEF InStream
  <2> QED BY <2>2, <2>7
<1>9. /\ 1 .. Len(sent') = (1 .. Len(sent)) \cup {last}
      /\ Undispatched' = Undispatched \cup {last}
  BY <1>0, <1>a, <1>3, <1>4 DEF Framed, Undispatched
<1>10. Len(got') <= Len(sent')
  BY <1>0, <1>a, <1>3, <1>4 DEF Framed
<1>11. \A i \in 1 .. Len(sent') : InStream(i)'
  <2> TAKE i \in 1 .. Len(sent')
  <2>1. CASE i \in 1 .. Len(sent)
    BY <1>7, <2>1
  <2>2. CASE i = last
    BY <1>8, <2>2
  <2> QED BY <1>9, <2>1, <2>2
<1>12. \A i \in Undispatched' : done' <= starts'[i]
  <2>1. \A i \in Undispatched : i \in 1 .. Len(sent) /\ done <= starts[i]
    BY <1>0 DEF Framed, Undispatched
  <2> QED BY <1>0, <1>3, <1>5, <1>9, <2>1
<1>13. \A i, j \in 1 .. Len(sent') : i < j => End(i)' <= starts'[j]
  <2> SUFFICES ASSUME NEW i \in 1 .. Len(sent'), NEW j \in 1 .. Len(sent'), i < j
               PROVE  End(i)' <= starts'[j]
    OBVIOUS
  <2>1. i \in 1 .. Len(sent)
    BY <1>0, <1>a, <1>4, <1>9
  <2>2. CASE j = last
    BY <1>5, <1>7, <2>1, <2>2
  <2>3. CASE j \in 1 .. Len(sent)
    BY <1>5, <1>7, <2>1, <2>3 DEF Framed
  <2> QED BY <1>9, <2>2, <2>3
<1>14. \A k \in done' + 1 .. Len(stream') : stream'[k] = 0 \/ InFrame(k)'
  <2> SUFFICES ASSUME NEW k \in done + 1 .. Len(stream')
               PROVE  stream'[k] = 0 \/ InFrame(k)'
    BY <1>3
  <2>0. k \in Nat /\ k >= 1
    BY <1>0, <1>2, <1>6
  <2>1. CASE k <= top
    <3>1. stream'[k] = stream[k] /\ k \in done + 1 .. top
      BY <1>0, <1>6, <2>0, <2>1
    <3>2. stream[k] = 0 \/ InFrame(k)
      BY <3>1 DEF Framed, top
    <3>3. ASSUME InFrame(k) PROVE InFrame(k)'
      <4>1. PICK i \in Undispatched : starts[i] < k /\ k <= End(i)
        BY <3>3 DEF InFrame
      <4>2. i \in 1 .. Len(sent)
        BY <1>0 DEF Undispatched
      <4>3. i \in Undispatched' /\ starts'[i] < k /\ k <= End(i)'
        BY <1>5, <1>7, <1>9, <4>1, <4>2
      <4> QED BY <4>3 DEF InFrame
    <3> QED BY <3>1, <3>2, <3>3
  <2>2. CASE top < k /\ k <= top + Size(pack)
    <3>1. last \in Undispatched' /\ starts'[last] < k /\ k <= End(last)'
      BY <1>5, <1>8, <1>9, <2>2
    <3> QED BY <3>1 DEF InFrame
  <2>3. CASE top + Size(pack) < k
    <3>1. k - (top + Size(pack)) \in 1 .. n
      BY <1>0, <1>2, <1>6, <2>0, <2>3
    <3>2. stream'[top + Size(pack) + (k - (top + Size(pack)))] = 0
      BY <1>6, <3>1
    <3>3. top + Size(pack) + (k - (top + Size(pack))) = k
      BY <1>0, <1>6, <2>0
    <3> QED BY <3>2, <3>3
  <2> QED BY <1>0, <1>6, <2>0, <2>1, <2>2, <2>3
<1> QED
  BY <1>10, <1>11, <1>12, <1>13, <1>14 DEF Framed

(* What a step does to the frames, or that it loses something.              *)
LEMMA FrameNext ==
  PackTypeOK /\ PackTypeOK' /\ FrameOK /\ [PackNext]_packVars => FrameOK'
<1> SUFFICES ASSUME PackTypeOK, PackTypeOK', FrameOK, [PackNext]_packVars, lost' = 0
             PROVE  Framed'
  BY DEF FrameOK
<1>0. /\ Len(stream) \in Nat /\ read \in 0 .. Len(stream) /\ done \in 0 .. read
      /\ lost \in Nat
  BY Numbers DEF PackTypeOK
<1>1. lost' = lost + 1 => FALSE
  BY <1>0
<1>2. lost' = lost => Framed
  BY DEF FrameOK
<1>3. ASSUME Framed, UNCHANGED <<stream, done, sent, starts, got>>
      PROVE  Framed'
  BY <1>3 DEF Framed, InStream, Undispatched, InFrame, End
<1>4. CASE SendPack
  BY <1>2, <1>4, FramedSend DEF SendPack
<1>5. ASSUME NEW n \in 1 .. MaxRead, Receive(n) PROVE Framed'
  BY <1>1, <1>2, <1>3, <1>5 DEF Receive
<1>6. ASSUME NEW n \in 1 .. MaxRead, ReadFails(n) PROVE FALSE
  BY <1>1, <1>6 DEF ReadFails
<1>7. CASE SkipPadding
  <2>1. done' \in done .. Len(stream) /\ Blank(done, done')
    BY <1>0, <1>7 DEF SkipPadding, Blank, Length
  <2> QED BY <1>2, <1>7, <2>1, FramedSkip DEF SkipPadding
<1>8. CASE Dispatch
  BY <1>2, <1>8, FramedDispatch DEF Dispatch
<1>9. CASE CallbackReturns
  BY <1>2, <1>3, <1>9 DEF CallbackReturns
<1>10. CASE ReadAgain
  BY <1>2, <1>3, <1>10 DEF ReadAgain
<1>11. CASE Close
  <2>1. done' = read /\ Blank(done, read) /\ lost' = lost
    BY <1>1, <1>11 DEF Close
  <2>2. done' \in done .. Len(stream) /\ Blank(done, done')
    BY <1>0, <2>1
  <2> QED BY <1>2, <1>11, <2>1, <2>2, FramedSkip DEF Close
<1>12. CASE UNCHANGED packVars
  BY <1>2, <1>3, <1>12 DEF packVars
<1> QED
  BY <1>4, <1>5, <1>6, <1>7, <1>8, <1>9, <1>10, <1>11, <1>12 DEF PackNext, Reads, Loop

LEMMA FrameInit == PackInit => FrameOK
BY DEF PackInit, FrameOK, Framed, Undispatched

(* Each step of the reader is one of PackStream, or a stutter.              *)
LEMMA StreamStep ==
  ASSUME PackTypeOK, FrameOK, [PackNext]_packVars
  PROVE  [Stream!Send \/ Stream!Deliver \/ Stream!Lose \/ Stream!Garble]_(Stream!streamVars)
<1> USE DEF Stream!streamVars
<1>1. CASE SendPack
  <2>1. Stream!Send
    BY <1>1 DEF SendPack, Stream!Send
  <2> QED BY <2>1
<1>2. ASSUME UNCHANGED <<sent, got>>, lost' = lost + 1
      PROVE  Stream!Lose
  BY <1>2 DEF Stream!Lose, PackTypeOK
<1>3. ASSUME NEW n \in 1 .. MaxRead, Receive(n)
      PROVE  UNCHANGED <<sent, got, lost>> \/ Stream!Lose
  BY <1>2, <1>3 DEF Receive
<1>4. ASSUME NEW n \in 1 .. MaxRead, ReadFails(n) PROVE Stream!Lose
  BY <1>2, <1>4 DEF ReadFails
<1>5. CASE Dispatch
  <2>1. /\ Decoded \in Readable /\ got \in Seq(Readable) /\ Len(got) \in Nat
        /\ got' = Append(got, Decoded) /\ UNCHANGED <<sent, lost>>
    BY <1>5, Decoding, Numbers DEF Dispatch, PackTypeOK
  <2>2. CASE lost = 0
    <3>1. /\ Len(got) + 1 \in 1 .. Len(sent) /\ Len(sent) \in Nat
          /\ Decoded = sent[Len(got) + 1]
      BY <1>5, <2>2, NextFrame, Numbers DEF FrameOK, Dispatch
    <3>2. Stream!Deliver
      BY <2>1, <2>2, <3>1 DEF Stream!Deliver
    <3> QED BY <3>2
  <2>3. CASE lost # 0
    <3>1. got'[Len(got) + 1] = Decoded
      BY <2>1
    <3>2. Stream!Garble
      BY <2>1, <2>3, <3>1 DEF Stream!Garble
    <3> QED BY <3>2
  <2> QED BY <2>2, <2>3
<1>6. CASE Close
  <2>1. UNCHANGED <<sent, got>> /\ (lost' = lost \/ lost' = lost + 1)
    BY <1>6 DEF Close
  <2> QED BY <1>2, <2>1
<1>7. CASE SkipPadding \/ CallbackReturns \/ ReadAgain \/ UNCHANGED packVars
  <2>1. UNCHANGED <<sent, got, lost>>
    BY <1>7 DEF SkipPadding, CallbackReturns, ReadAgain, packVars
  <2> QED BY <2>1
<1> QED
  BY <1>1, <1>3, <1>4, <1>5, <1>6, <1>7 DEF PackNext, Reads, Loop

(* Until a byte is lost, the packs are dispatched as they were sent, each   *)
(* once, however the stream is padded and cut into reads.                   *)
THEOREM PacksKept == PackSpec => KeepsPacks
<1>1. PackInit => Stream!StreamInit
  BY DEF PackInit, Stream!StreamInit
<1>2. PackTypeOK /\ FrameOK /\ [PackNext]_packVars =>
        [Stream!Send \/ Stream!Deliver \/ Stream!Lose \/ Stream!Garble]_(Stream!streamVars)
  BY StreamStep
<1> QED
  BY <1>1, <1>2, TypeInit, TypeNext, FrameInit, FrameNext, PTL
     DEF PackSpec, KeepsPacks, Stream!StreamSpec
=============================================================================
