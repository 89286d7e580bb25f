----------------------------- MODULE OldSession -----------------------------
(***************************************************************************)
(* The codecs of older peers (reborn_protocol/codec.py), one direction of  *)
(* a connection at a time: Gen4Codec (bz2 and the cipher of Cipher.tla, no *)
(* type byte), Gen3Codec from client to server (zlib, and one filler byte  *)
(* inserted per packet where the same LCG says), Gen2Codec (zlib, and raw  *)
(* data let through) and Gen1Codec (the bytes as they are).  A body is a   *)
(* sequence of blocks, as in Cipher.                                       *)
(*                                                                         *)
(* The server of a GEN_3 connection is not in the repository: its half is  *)
(* what the class docstring says of gs2lib's CEncryption::decrypt.  From   *)
(* server to client GEN_3 has no cipher, and is GEN_2 without raw data.    *)
(***************************************************************************)
EXTENDS Cipher, SequencesExt

CONSTANTS Message,      \* what hosts send
          Raw,          \* Message -> its bytes, without a trailing newline
          Packed,       \* Message -> its bz2 or zlib image
          MaxPacketLen, \* MAX_PACKET_LEN, in blocks
          PosModulus,   \* the & 0xFFFF of a filler's position, 2^16
          Filler,       \* the byte Gen3Codec inserts, ')'
          Gen3Message,  \* what hosts send over GEN_3
          MaxInFlight,  \* bound: packets on the wire
          None

VARIABLES gen,         \* which of the codecs the connection uses
          out, in,     \* out_codec of the sender, in_codec of the receiver
          wire,        \* bodies in flight
          sent,        \* history: the messages they carry; None: a foreign one
          got          \* result of the last recv_packet

vars == <<gen, out, in, wire, sent, got>>

ASSUME OldAssumption ==
    /\ Raw \in [Message -> Seq(Block)] /\ Packed \in [Message -> Seq(Block)]
    /\ MaxPacketLen \in Nat /\ MaxInFlight \in Nat /\ None \notin Message
    /\ PosModulus \in Nat \ {0} /\ Gen3Message \subseteq Message
    /\ Filler \in Block
    /\ \A m \in Message : Packed[m] # <<>>
    /\ \A m1, m2 \in Message : /\ Packed[m1] # Raw[m2]
                               /\ Packed[m1] = Packed[m2] => m1 = m2
                               /\ Raw[m1] = Raw[m2] => m1 = m2

\* The message whose image a body is; None stands for the exception.
From(image, body) == IF \E m \in Message : image[m] = body
                     THEN CHOOSE m \in Message : image[m] = body ELSE None

-----------------------------------------------------------------------------
\* limit_from_type(CompressionType.BZ2), on both ends, for every bundle.
Armed(codec) == LimitFromType(codec, BZ2)

\* Gen3Codec advances the LCG once per packet, the position is of a packet of
\* n bytes, filler included.
Stepped(codec)         == [codec EXCEPT !.iterator = Advance(codec.key, @)]
Position(iterator, n)  == (iterator % PosModulus) % n
Inserted(codec, body)  ==
    InsertAt(body, Position(Stepped(codec).iterator, Len(body) + 1) + 1, Filler)
Stripped(codec, packet) ==
    RemoveAt(packet, Position(Stepped(codec).iterator, Len(packet)) + 1)

\* _frame, or the size check of Gen4Codec that comes before the cipher.
Fits(m) == Len(Packed[m]) <= MaxPacketLen

\* What goes on the wire for a message.
Body(m) == CASE gen = 4 -> CryptData(Armed(out), Packed[m])
             [] gen = 3 -> Inserted(out, Raw[m])
             [] gen = 2 -> Packed[m]
             [] gen = 1 -> Raw[m]

\* Fault: the limit is armed for the first bundle only.
OpenedArmedOnce(body) ==
    IF gen = 4 /\ in.limit >= 0 THEN From(Packed, CryptData(in, body))
    ELSE IF gen = 4 THEN From(Packed, CryptData(Armed(in), body))
    ELSE IF gen = 3 THEN From(Raw, Stripped(in, body))
    ELSE IF From(Packed, body) # None THEN From(Packed, body)
    ELSE From(Raw, body)

\* recv_packet, or the server of GEN_3; Gen2Codec hands data on that zlib
\* refuses.
Opened(body) ==
    IF body = <<>> THEN None
    ELSE CASE gen = 4 -> From(Packed, CryptData(Armed(in), body))
           [] gen = 3 -> From(Raw, Stripped(in, body))
           [] gen = 2 -> IF From(Packed, body) # None THEN From(Packed, body)
                                                      ELSE From(Raw, body)
           [] gen = 1 -> From(Raw, body)

Init == /\ gen \in 1 .. 4
        /\ \E k \in Key : out = Reset(k) /\ in = Reset(k)
        /\ wire = <<>> /\ sent = <<>> /\ got = None

\* A new connection: new codecs, or set_key on those of the old one.
Connect(g, k) == /\ gen' = g
                 /\ out' = Reset(k) /\ in' = Reset(k)
                 /\ wire' = <<>> /\ sent' = <<>>
                 /\ UNCHANGED got

\* What a codec's state is after it has sent or received a body.
After(codec, body) == CASE gen = 4 -> CryptState(Armed(codec), body)
                        [] gen = 3 -> Stepped(codec)
                        [] gen \in {1, 2} -> codec

\* Fault: Gen4Codec encrypts before it looks at the size.
SendAdvancing(m) ==
    /\ Len(wire) < MaxInFlight
    /\ gen = 3 => m \in Gen3Message
    /\ out' = After(out, Packed[m])
    /\ IF gen # 1 /\ ~ Fits(m)
       THEN UNCHANGED <<wire, sent>>
       ELSE /\ wire' = Append(wire, Body(m))
            /\ sent' = Append(sent, m)
    /\ UNCHANGED <<gen, in, got>>

\* send_packet: what does not fit is dropped; by then Gen3Codec, which sees
\* the size only after it inserted the filler, has advanced.
Send(m) ==
    /\ Len(wire) < MaxInFlight
    /\ gen = 3 => m \in Gen3Message
    /\ IF gen # 1 /\ ~ Fits(m)
       THEN /\ out' = IF gen = 3 THEN Stepped(out) ELSE out
            /\ UNCHANGED <<wire, sent>>
       ELSE /\ out' = After(out, Packed[m])
            /\ wire' = Append(wire, Body(m))
            /\ sent' = Append(sent, m)
    /\ UNCHANGED <<gen, in, got>>

\* A peer of another make: a GEN_2 bundle that is not compressed, or a GEN_4
\* bundle that is not bz2 below the cipher.
ForeignSend(m) ==
    /\ gen \in {2, 4} /\ Len(wire) < MaxInFlight
    /\ out' = IF gen = 4 THEN CryptState(Armed(out), Raw[m]) ELSE out
    /\ wire' = Append(wire, IF gen = 4 THEN CryptData(Armed(out), Raw[m])
                                       ELSE Raw[m])
    /\ sent' = Append(sent, IF gen = 4 \/ Raw[m] = <<>> THEN None ELSE m)
    /\ UNCHANGED <<gen, in, got>>

\* recv_packet, or the server of GEN_3.
Recv == /\ wire # <<>>
        /\ got' = Opened(Head(wire))
        /\ in' = IF Head(wire) # <<>> THEN After(in, Head(wire)) ELSE in
        /\ wire' = Tail(wire) /\ sent' = Tail(sent)
        /\ UNCHANGED <<gen, out>>

Next == \/ \E g \in 1 .. 4, k \in Key : Connect(g, k)
        \/ \E m \in Message : Send(m) \/ ForeignSend(m)
        \/ Recv

\* The receiving host keeps reading.
Spec == Init /\ [][Next]_vars /\ WF_vars(Recv)

-----------------------------------------------------------------------------
\* The iterators of both ends agree when nothing is in flight, also after a
\* bundle that was too big and after one that did not decompress.
InStep == wire = <<>> => in.iterator = out.iterator

\* Type invariant: the iterators stay in range, the history follows the wire,
\* and recv_packet returns a bundle or None.
TypeOK ==
    /\ gen \in 1 .. 4
    /\ out \in Codec /\ in \in Codec
    /\ wire \in Seq(Seq(Block))
    /\ sent \in Seq(Message \cup {None}) /\ Len(sent) = Len(wire)
    /\ got \in Message \cup {None}

\* A body that codec g puts on the wire for m with the iterator at `from`; its
\* sender leaves the iterator at `to`.
Carried(g, body, m, key, from, to) ==
    LET codec == Armed([key |-> key, iterator |-> from, limit |-> -1])
        Crypted(plain) == /\ body = CryptData(codec, plain)
                          /\ to = CryptState(codec, plain).iterator
    IN  \/ g = 4 /\ m \in Message /\ Crypted(Packed[m])
        \/ g = 4 /\ m = None /\ \E f \in Message : Crypted(Raw[f])
        \/ g = 3 /\ m \in Message /\ body = Inserted(codec, Raw[m])
                 /\ to = Advance(key, from)
        \/ g = 2 /\ m \in Message /\ body \in {Packed[m], Raw[m]} \ {<<>>}
                 /\ to = from
        \/ g = 2 /\ m = None /\ body = <<>> /\ to = from
        \/ g = 1 /\ m \in Message /\ body = Raw[m] /\ to = from

\* Bodies in flight lead the iterator from the receiver's to the sender's, one
\* after the other.
Chained(g, bodies, ms, sender, receiver) ==
    /\ sender.key = receiver.key
    /\ \E at \in [1 .. Len(bodies) + 1 -> Word] :
          /\ at[1] = receiver.iterator
          /\ at[Len(bodies) + 1] = sender.iterator
          /\ \A i \in 1 .. Len(bodies) :
                Carried(g, bodies[i], ms[i], sender.key, at[i], at[i + 1])

\* The inductive invariant behind InStep and the channel.
SessionInv == Chained(gen, wire, sent, out, in)

\* An empty body has no packet; Gen1Codec returns None for it.
Empty == {m \in Message : Raw[m] = <<>>}

\* What recv_packet owes the host for what is in flight.
Owed == [i \in 1 .. Len(sent) |->
            IF gen = 1 /\ sent[i] \in Empty THEN None ELSE sent[i]]

Link == INSTANCE BundleChannel WITH queue <- Owed, Bundle <- Message

\* Each bundle a codec accepted is returned by recv_packet unchanged, once, in
\* order and eventually; the connection's loss is the only other way out.
Channel == Link!FairSpec
=============================================================================
