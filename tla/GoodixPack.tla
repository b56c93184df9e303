------------------------------ MODULE GoodixPack ------------------------------
(***************************************************************************)
(* How the Goodix driver cuts the stream of USB reads into packs           *)
(* (goodix_receive_pack and goodix_decode_pack).  The sensor sends packs,  *)
(* padded or not; a bulk read returns any part of what is there; the host  *)
(* collects the reads in a buffer, skips padding, and dispatches every     *)
(* complete pack it finds, whose callback may close the device.            *)
(*                                                                         *)
(* The stream is one of cells: the flags, the length and the checksum of a *)
(* pack are a cell each, and so is every byte of its payload.  It is kept  *)
(* whole: the host has read its first `read' cells and consumed the first  *)
(* `done', so that priv->data is what lies between the two.                *)
(***************************************************************************)
EXTENDS Naturals, Sequences

CONSTANTS
  Flags,       \* the flags of packs
  Payloads,    \* the payloads the sensor sends
  MaxLength,   \* the largest number of a cell, and length of a pack (0xffff)
  MaxRead,     \* the size of a bulk read (GOODIX_EP_IN_MAX_BUF_SIZE)
  MaxPacket,   \* the limit of the buffer (GOODIX_MAX_PACKET_SIZE)
  MaxPadding,  \* bound on the padding after a pack
  MaxPacks,    \* bound on the packs of one behaviour
  MaxLosses    \* bound on the losses after which a read may fail

HeaderLength == 3   \* flags, length, checksum

Cells == 0 .. MaxLength

ASSUME FlagsAssumption == Flags \subseteq Cells \ {0}
ASSUME LengthAssumption ==
  /\ MaxLength \in Nat
  /\ Payloads \subseteq Seq(Cells)
  /\ \A payload \in Payloads : Len(payload) <= MaxLength
ASSUME SizeAssumption ==
  /\ MaxRead \in Nat \ {0}
  /\ MaxPacket \in Nat
  /\ HeaderLength + MaxLength + MaxRead <= MaxPacket + 1
ASSUME PackBoundsAssumption == {MaxPadding, MaxPacks, MaxLosses} \subseteq Nat

VARIABLES
  stream,   \* every cell the sensor sent that was not lost
  read,     \* the cells the host has read
  done,     \* the cells the host has consumed
  phase,    \* what the read loop is doing
  sent,     \* the packs sent
  starts,   \* where each of them starts in the stream
  got,      \* the packs dispatched
  lost      \* how often cells were lost

buffers == <<stream, read, done, phase>>
ghosts == <<sent, starts, got, lost>>
packVars == <<stream, read, done, phase, sent, starts, got, lost>>

Packs == [flags : Flags, payload : Payloads]
Readable == [flags : Cells \ {0}, payload : Seq(Cells)]

-----------------------------------------------------------------------------
(* goodix_encode_pack.  The checksum is that of the header; nothing looks   *)
(* at it.                                                                   *)
Checksum(pack) == (pack.flags + Len(pack.payload)) % (MaxLength + 1)
Encode(pack) ==
  <<pack.flags, Len(pack.payload), Checksum(pack)>> \o pack.payload

Padding(n) == [i \in 1 .. n |-> 0]

(* goodix_decode_pack, on the buffer.                                       *)
Length == read - done      \* priv->length
Stated == stream[done + 2]
(* Mutation: a complete pack is thought to lack a byte.                     *)
DecodesLate == Length >= HeaderLength /\ Length > Stated + HeaderLength
Decodes == Length >= HeaderLength /\ Length >= Stated + HeaderLength
(* Mutation: the checksum is not consumed.                                  *)
ConsumedShort == HeaderLength - 1 + Stated
Consumed == HeaderLength + Stated
Decoded ==
  [flags |-> stream[done + 1],
   payload |-> SubSeq(stream, done + HeaderLength + 1, done + Consumed)]

(* Only padding is between two positions of the stream.                     *)
Blank(from, to) == \A i \in from + 1 .. to : stream[i] = 0

-----------------------------------------------------------------------------
PackInit ==
  /\ stream = <<>> /\ read = 0 /\ done = 0
  /\ phase = "reading"
  /\ sent = <<>> /\ starts = <<>> /\ got = <<>>
  /\ lost = 0

SendPack ==
  /\ Len(sent) < MaxPacks
  /\ \E pack \in Packs, n \in 0 .. MaxPadding :
       /\ stream' = stream \o Encode(pack) \o Padding(n)
       /\ sent' = Append(sent, pack)
  /\ starts' = Append(starts, Len(stream))
  /\ UNCHANGED <<read, done, phase, got, lost>>

(* A read of n bytes ends.  What the buffer cannot hold is dropped with it, *)
(* and the command fails.                                                   *)
TooLarge(n) == n > MaxPacket \/ Length > MaxPacket - n

Receive(n) ==
  /\ phase = "reading"
  /\ read + n <= Len(stream)
  /\ read' = read + n
  /\ IF TooLarge(n)
     THEN done' = read + n /\ lost' = lost + 1 /\ UNCHANGED phase
     ELSE phase' = "parsing" /\ UNCHANGED <<done, lost>>
  /\ UNCHANGED <<stream, sent, starts, got>>

(* A read fails: its bytes are lost, and the host reads again.              *)
ReadFails(n) ==
  /\ phase = "reading" /\ lost < MaxLosses
  /\ read + n <= Len(stream)
  /\ stream' = SubSeq(stream, 1, read)
                 \o SubSeq(stream, read + n + 1, Len(stream))
  /\ lost' = lost + 1
  /\ UNCHANGED <<read, done, phase, sent, starts, got>>

(* The loop over the buffer.                                                *)
SkipPadding ==
  /\ phase = "parsing"
  /\ Length > 0 /\ stream[done + 1] = 0
  /\ done' = done + 1
  /\ UNCHANGED <<stream, read, phase, sent, starts, got, lost>>

AtPack == phase = "parsing" /\ Length > 0 /\ stream[done + 1] # 0

Dispatch ==
  /\ AtPack /\ Decodes
  /\ done' = done + Consumed
  /\ got' = Append(got, Decoded)
  /\ phase' = "callback"
  /\ UNCHANGED <<stream, read, sent, starts, lost>>

CallbackReturns ==
  /\ phase = "callback"
  /\ phase' = "parsing"
  /\ UNCHANGED <<stream, read, done, sent, starts, got, lost>>

(* Mutation: the beginning of a pack is thrown away.                        *)
ReadAgainDrops ==
  /\ phase = "parsing"
  /\ Length = 0 \/ (AtPack /\ ~Decodes)
  /\ phase' = "reading"
  /\ done' = read
  /\ UNCHANGED <<stream, read, sent, starts, got, lost>>

(* The buffer is empty, or it holds the beginning of a pack: read again.    *)
ReadAgain ==
  /\ phase = "parsing"
  /\ Length = 0 \/ (AtPack /\ ~Decodes)
  /\ phase' = "reading"
  /\ UNCHANGED <<stream, read, done, sent, starts, got, lost>>

(* goodix_dev_deinit, from the main loop or from a callback, forgets the    *)
(* buffer; the next session reads on.                                       *)
Close ==
  /\ phase \in {"reading", "callback"}
  /\ done' = read
  /\ lost' = IF Blank(done, read) THEN lost ELSE lost + 1
  /\ UNCHANGED <<stream, read, phase, sent, starts, got>>

-----------------------------------------------------------------------------
Reads == \E n \in 1 .. MaxRead : Receive(n)
Loop == SkipPadding \/ Dispatch \/ CallbackReturns \/ ReadAgain

PackNext ==
  \/ SendPack
  \/ Reads
  \/ \E n \in 1 .. MaxRead : ReadFails(n)
  \/ Loop
  \/ Close

(* The main loop completes a read for which there is data, and the loop     *)
(* over the buffer is straight code.                                        *)
PackSpec == PackInit /\ [][PackNext]_packVars
PackFairSpec == PackSpec /\ WF_packVars(Reads) /\ WF_packVars(Loop)

-----------------------------------------------------------------------------
(* The state keeps its types, and the host never consumes more than it has  *)
(* read.                                                                    *)
PackTypeOK ==
  /\ stream \in Seq(Cells)
  /\ read \in 0 .. Len(stream) /\ done \in 0 .. read
  /\ phase \in {"reading", "parsing", "callback"}
  /\ sent \in Seq(Packs) /\ Len(sent) <= MaxPacks
  /\ starts \in Seq(Nat) /\ Len(starts) = Len(sent)
  /\ got \in Seq(Readable)
  /\ lost \in Nat

(* When the host reads, what it keeps is less than a pack, so that a read   *)
(* of any size fits: the error of goodix_receive_pack for what is too large *)
(* is never reached, whatever the sensor sends and whatever is lost.        *)
NeverTooLarge ==
  phase = "reading" => \A n \in 1 .. MaxRead : ~TooLarge(n)

(* Whatever the sizes of the reads and the padding, the packs are           *)
(* dispatched as they were sent, in order and once each, until a byte is    *)
(* lost.                                                                    *)
Stream == INSTANCE PackStream WITH intact <- lost = 0
KeepsPacks == Stream!StreamSpec

(* Every pack is dispatched, unless bytes are lost: none stays in the       *)
(* buffer waiting for bytes that belong to no pack.                         *)
PacksArrive == []<>(Len(got) = Len(sent) \/ lost > 0)

=============================================================================
