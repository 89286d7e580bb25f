---------------------------- MODULE PacketStream ----------------------------
(***************************************************************************)
(* One direction of a TCP connection below the codecs of                   *)
(* reborn_protocol/codec.py: _frame puts a two-byte big-endian length in   *)
(* front of each payload, TCP hands the bytes over in segments cut         *)
(* anywhere, and PacketBuffer puts the payloads together again.            *)
(*                                                                         *)
(* A byte is a digit below Base (256 in the code), the same digits the     *)
(* length prefix is written with: a payload can look like a prefix.        *)
(***************************************************************************)
EXTENDS Integers, Sequences

CONSTANTS Base,       \* number of byte values
          Payload,    \* the payloads a codec asks _frame to frame
          None,       \* the Python value None
          MaxQueued   \* bound: payloads sent and not yet handed to a codec

Byte         == 0 .. Base - 1
MaxPacketLen == Base * Base - 1        \* MAX_PACKET_LEN, 0xFFFF

ASSUME StreamAssumption ==
    /\ Base \in Nat \ {0, 1}
    /\ Payload \subseteq Seq(Byte)
    /\ None \notin Payload
    /\ MaxQueued \in Nat

VARIABLES wire,    \* bytes written to the socket and not yet read
          buffer,  \* PacketBuffer._buffer
          ready,   \* result of get_packets the host has not decoded yet
          sent,    \* history: payloads framed and not yet handed to a codec
          got      \* the payload last handed to recv_packet

vars == <<wire, buffer, ready, sent, got>>

-----------------------------------------------------------------------------
\* Fault: the limit is one too high for the length field.
FitsOneMore(payload) == Len(payload) <= MaxPacketLen + 1

\* _frame, for a payload that fits the length field.
Prefix(payload) == <<Len(payload) \div Base, Len(payload) % Base>>
Frame(payload)  == Prefix(payload) \o payload
Fits(payload)   == Len(payload) <= MaxPacketLen

\* struct.unpack('>H', buffer[:2])
PacketLen(bytes) == bytes[1] * Base + bytes[2]

\* Fault: a packet that ends with the buffer is taken for incomplete.
HasPacketLate(bytes) == Len(bytes) >= 2 /\ Len(bytes) > 2 + PacketLen(bytes)

\* The loop condition of get_packets and its break.
HasPacket(bytes) == Len(bytes) >= 2 /\ Len(bytes) >= 2 + PacketLen(bytes)

\* get_packets: the complete packets in front, and what stays in the buffer.
GetPackets[bytes \in Seq(Byte)] ==
    IF ~ HasPacket(bytes) THEN [packets |-> <<>>, rest |-> bytes]
    ELSE LET end  == 2 + PacketLen(bytes)
             tail == GetPackets[SubSeq(bytes, end + 1, Len(bytes))]
         IN  [packets |-> <<SubSeq(bytes, 3, end)>> \o tail.packets,
              rest    |-> tail.rest]

-----------------------------------------------------------------------------
Init == /\ wire = <<>> /\ buffer = <<>> /\ ready = <<>>
        /\ sent = <<>> /\ got = None

\* A codec frames a payload and its host writes the bytes; a payload that does
\* not fit is dropped.
Send(payload) ==
    /\ Len(sent) < MaxQueued
    /\ IF Fits(payload) THEN /\ wire' = wire \o Frame(payload)
                             /\ sent' = Append(sent, payload)
                        ELSE UNCHANGED <<wire, sent>>
    /\ UNCHANGED <<buffer, ready, got>>

\* The host reads a segment of n bytes: add_data, then get_packets.
Receive(n) ==
    LET result == GetPackets[buffer \o SubSeq(wire, 1, n)]
    IN  /\ wire' = SubSeq(wire, n + 1, Len(wire))
        /\ buffer' = result.rest
        /\ ready' = ready \o result.packets
        /\ UNCHANGED <<sent, got>>

ReceiveSome == \E n \in 1 .. Len(wire) : Receive(n)

\* The host's loop hands the next packet to its codec.
Take == /\ ready # <<>>
        /\ got' = Head(ready)
        /\ ready' = Tail(ready)
        /\ sent' = Tail(sent)
        /\ UNCHANGED <<wire, buffer>>

\* Fault: the partial packet of the old connection stays buffered.
DisconnectNoClear == /\ wire' = <<>> /\ ready' = <<>> /\ sent' = <<>>
                     /\ UNCHANGED <<buffer, got>>

\* The connection is lost anywhere in the stream; the host calls clear()
\* before it uses the buffer for the next one.
Disconnect == /\ wire' = <<>> /\ buffer' = <<>> /\ ready' = <<>> /\ sent' = <<>>
              /\ UNCHANGED got

Next == (\E p \in Payload : Send(p)) \/ ReceiveSome \/ Take \/ Disconnect

Spec == Init /\ [][Next]_vars

\* The host's read loop keeps running; senders and the network need not.
FairSpec == Spec /\ WF_vars(ReceiveSome) /\ WF_vars(Take)

-----------------------------------------------------------------------------
\* Type invariant: bytes are digits, and only real payloads are handed out.
TypeOK == /\ wire \in Seq(Byte) /\ buffer \in Seq(Byte)
          /\ ready \in Seq(Payload) /\ sent \in Seq(Payload)
          /\ got \in Payload \cup {None}

\* get_packets never leaves a complete packet waiting for the next segment:
\* what stays buffered is a proper prefix of the next frame in the stream.
NoHeldPacket ==
    /\ ~ HasPacket(buffer)
    /\ buffer # <<>> => /\ Len(ready) < Len(sent)
                        /\ LET next == Frame(sent[Len(ready) + 1])
                           IN  /\ Len(buffer) < Len(next)
                               /\ buffer = SubSeq(next, 1, Len(buffer))

\* The bytes are the frames of the payloads, one after the other: the i-th
\* starts after at[i] bytes.
Framed(bytes, payloads) ==
    \E at \in [1 .. Len(payloads) + 1 -> 0 .. Len(bytes)] :
        /\ at[1] = 0
        /\ at[Len(payloads) + 1] = Len(bytes)
        /\ \A i \in 1 .. Len(payloads) :
              LET frame == Frame(payloads[i])
              IN  /\ at[i + 1] = at[i] + Len(frame)
                  /\ \A j \in 1 .. Len(frame) : bytes[at[i] + j] = frame[j]

Unread == [i \in 1 .. Len(sent) - Len(ready) |-> sent[Len(ready) + i]]

\* The inductive invariant behind NoHeldPacket and StreamChannel: what is
\* ready is what was sent first, and the buffer, which holds no whole packet,
\* starts the frames of all the rest.
StreamInv ==
    /\ ~ HasPacket(buffer)
    /\ \A i \in 1 .. Len(sent) : Fits(sent[i])
    /\ Len(ready) <= Len(sent)
    /\ \A i \in 1 .. Len(ready) : ready[i] = sent[i]
    /\ Framed(buffer \o wire, Unread)

Link == INSTANCE BundleChannel WITH queue <- sent, Bundle <- Payload

\* Whatever the segmentation, the payloads come out of the buffer unchanged,
\* once and in order, empty ones included, and each is eventually handed to
\* the codec unless the connection is lost.
StreamChannel == Link!FairSpec
=============================================================================
