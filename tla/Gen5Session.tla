---------------------------- MODULE Gen5Session ----------------------------
(***************************************************************************)
(* One ENCRYPT_GEN_5 session: a client's Gen5Codec and a server's          *)
(* ServerCodec (reborn_protocol/codec.py) joined by two ordered pipes.     *)
(* The pipes carry whole packets here; PacketStream models how they are    *)
(* cut out of TCP segments.                                                *)
(*                                                                         *)
(* The two hosts (pyReborn, pygserver) are outside the repository.  What   *)
(* they do is fixed by the codecs' docstrings: the client logs in with a   *)
(* plain zlib packet that carries the key, both sides call set_key, the    *)
(* first answer is a plain zlib login response, and a server that accepts  *)
(* a new connection calls reset_decode_state and, separately, set_key.     *)
(***************************************************************************)
EXTENDS Cipher

CONSTANTS Message,       \* what a host can ask a codec to send
          Size,          \* Message -> len(data)
          Image,         \* Message -> CompressionType -> compressed blocks
          Login,         \* Key -> the login message that announces it
          ClientPolicy,  \* the client's CompressionPolicy
          ServerPolicy,  \* the thresholds of compress_data
          MaxPacketLen,  \* MAX_PACKET_LEN, in blocks
          MaxInFlight,   \* bound: packets on each pipe, [up, down]
          None,          \* the Python value None
          Garbage        \* bytes no host ever sent

PLAIN   == 120           \* 0x78, the first byte of a plain zlib stream
FOREIGN == 1             \* a first byte that is no compression type
EMPTY   == 0             \* a packet of length 0 has no first byte
Policy  == [uncompressed_max : Nat, zlib_max : Nat \cup {-1}]  \* -1: None

ASSUME SessionAssumption ==
    /\ Size \in [Message -> Nat]
    /\ Image \in [Message -> [CompressionType -> Seq(Block)]]
    /\ Login \in [Key -> Message]
    /\ {ClientPolicy, ServerPolicy} \subseteq Policy
    /\ MaxPacketLen \in Nat /\ MaxInFlight \in [up : Nat, down : Nat]
    /\ None \notin Message /\ Garbage \notin Message /\ None # Garbage
    /\ \A k1, k2 \in Key : Login[k1] = Login[k2] => k1 = k2
    /\ \A m1, m2 \in Message, t \in CompressionType :
          Image[m1][t] = Image[m2][t] => m1 = m2

VARIABLES client,        \* Gen5Codec: in_codec and out_codec
          server,        \* ServerCodec: the same and _first_decode
          up, down,      \* packets in flight, client to server and back
          phase,         \* how far each host's login handling has got
          loginKey,      \* the key in the login packet last decoded
          upSent, downSent,  \* history: what the packets in flight stand for
          upGot, downGot     \* result of the last decode on each side

codecs == <<client, server>>
pipes  == <<up, down, upSent, downSent>>
vars   == <<client, server, up, down, phase, loginKey,
            upSent, downSent, upGot, downGot>>

Packet == [tag : CompressionType \cup {PLAIN, FOREIGN, EMPTY}, body : Seq(Block)]
Entry  == Message \cup {None}         \* what a packet in flight stands for
Result == Message \cup {None, Garbage}

-----------------------------------------------------------------------------
\* CompressionPolicy.compress and compress_data: the type a size selects.
TypeFor(policy, m) ==
    IF Size[m] <= policy.uncompressed_max THEN UNCOMPRESSED
    ELSE IF policy.zlib_max # -1 /\ Size[m] > policy.zlib_max THEN BZ2
    ELSE ZLIB

\* decompress_data: uncompressed bytes come back whatever they are, while a
\* damaged zlib or bz2 stream raises, which every caller turns into None.
Decompress(type, body) ==
    IF \E m \in Message : Image[m][type] = body
    THEN CHOOSE m \in Message : Image[m][type] = body
    ELSE IF type = UNCOMPRESSED THEN Garbage ELSE None

\* len(compressed) + 1 > MAX_PACKET_LEN
Oversize(policy, m) == Len(Image[m][TypeFor(policy, m)]) + 1 > MaxPacketLen

\* The tail of send_packet and encode_packet for a bundle that fits: the
\* packet, and the out_codec it leaves behind.
SealedPacket(codec, type, m) ==
    [tag  |-> type,
     body |-> CryptData(LimitFromType(codec, type), Image[m][type])]

SealedState(codec, type, m) ==
    CryptState(LimitFromType(codec, type), Image[m][type])

\* encode_packet(data, is_login_response=True): plain zlib, no cipher.
PlainPacket(m) == [tag |-> PLAIN, body |-> Image[m][ZLIB]]
PlainFits(m)   == Len(Image[m][ZLIB]) <= MaxPacketLen

\* Fault: the receiver does not set the limit of the packet's type.
OpenedStateOldLimit(codec, p) ==
    IF p.tag \in CompressionType THEN CryptState(codec, p.body) ELSE codec

\* The tail of recv_packet and decode_packet: the result, and in_codec after.
OpenedData(codec, p) ==
    IF p.tag \in CompressionType
    THEN Decompress(p.tag, CryptData(LimitFromType(codec, p.tag), p.body))
    ELSE None

OpenedState(codec, p) ==
    IF p.tag \in CompressionType
    THEN CryptState(LimitFromType(codec, p.tag), p.body)
    ELSE codec

\* The packets of some other peer that no codec of this library emits.
ForeignPacket == {[tag |-> EMPTY,   body |-> <<>>],
                  [tag |-> FOREIGN, body |-> <<InitialIterator>>]}

-----------------------------------------------------------------------------
Init ==
    /\ client = [in |-> Reset(0), out |-> Reset(0)]
    /\ server = [in |-> Reset(0), out |-> Reset(0), first |-> TRUE]
    /\ up = <<>> /\ down = <<>>
    /\ phase = [client |-> "closed", server |-> "login"]
    /\ loginKey = None
    /\ upSent = <<>> /\ downSent = <<>>
    /\ upGot = None /\ downGot = None

\* The client host connects, sends the plain login packet and calls set_key.
ClientLogin(k) ==
    /\ phase.client = "closed"
    /\ phase' = [phase EXCEPT !.client = "open"]
    /\ client' = [in |-> Reset(k), out |-> Reset(k)]
    /\ up' = Append(up, PlainPacket(Login[k]))
    /\ upSent' = Append(upSent, Login[k])
    /\ UNCHANGED <<server, down, loginKey, downSent, upGot, downGot>>

\* Gen5Codec.send_packet
ClientSend(m) ==
    LET type == TypeFor(ClientPolicy, m)
    IN  /\ phase.client = "open"
        /\ Len(up) < MaxInFlight.up
        /\ IF Oversize(ClientPolicy, m)
           THEN UNCHANGED <<client, up, upSent>>
           ELSE /\ client' = [client EXCEPT !.out = SealedState(@, type, m)]
                /\ up' = Append(up, SealedPacket(client.out, type, m))
                /\ upSent' = Append(upSent, m)
        /\ UNCHANGED <<server, down, phase, loginKey, downSent, upGot, downGot>>

\* ServerCodec.decode_packet on the next packet, called by a host that has
\* no key waiting to be set.  The login packet makes the host remember its key.
FirstResult(p) == IF p.tag = PLAIN THEN Decompress(ZLIB, p.body) ELSE None

ServerDecode ==
    LET p      == Head(up)
        result == IF p.tag = EMPTY THEN None
                  ELSE IF server.first THEN FirstResult(p)
                  ELSE OpenedData(server.in, p)
        login  == server.first /\ \E k \in Key : Login[k] = result
    IN  /\ up # <<>>
        /\ phase.server # "key"
        /\ up' = Tail(up) /\ upSent' = Tail(upSent)
        /\ upGot' = result
        /\ server' = IF server.first
                     THEN [server EXCEPT !.first = (result = None)]
                     ELSE [server EXCEPT !.in = OpenedState(@, p)]
        /\ phase' = IF login THEN [phase EXCEPT !.server = "key"] ELSE phase
        /\ loginKey' = IF login THEN CHOOSE k \in Key : Login[k] = result
                                ELSE loginKey
        /\ UNCHANGED <<client, down, downSent, downGot>>

\* The server host calls ServerCodec.set_key with the key of the login.
ServerSetKey ==
    /\ phase.server = "key"
    /\ phase' = [phase EXCEPT !.server = "respond"]
    /\ server' = [server EXCEPT !.in = Reset(loginKey), !.out = Reset(loginKey)]
    /\ UNCHANGED <<client, pipes, loginKey, upGot, downGot>>

\* ServerCodec.encode_packet(data, is_login_response=True)
ServerRespond(m) ==
    /\ phase.server = "respond"
    /\ Len(down) < MaxInFlight.down
    /\ phase' = [phase EXCEPT !.server = "open"]
    /\ IF PlainFits(m)
       THEN /\ down' = Append(down, PlainPacket(m))
            /\ downSent' = Append(downSent, m)
       ELSE UNCHANGED <<down, downSent>>
    /\ UNCHANGED <<codecs, up, loginKey, upSent, upGot, downGot>>

\* Fault: the cipher has advanced when the oversize bundle is dropped.
ServerSendAdvancing(m) ==
    LET type == TypeFor(ServerPolicy, m)
    IN  /\ phase.server = "open"
        /\ Len(down) < MaxInFlight.down
        /\ server' = [server EXCEPT !.out = SealedState(@, type, m)]
        /\ IF Oversize(ServerPolicy, m)
           THEN UNCHANGED <<down, downSent>>
           ELSE /\ down' = Append(down, SealedPacket(server.out, type, m))
                /\ downSent' = Append(downSent, m)
        /\ UNCHANGED <<client, up, phase, loginKey, upSent, upGot, downGot>>

\* ServerCodec.encode_packet
ServerSend(m) ==
    LET type == TypeFor(ServerPolicy, m)
    IN  /\ phase.server = "open"
        /\ Len(down) < MaxInFlight.down
        /\ IF Oversize(ServerPolicy, m)
           THEN UNCHANGED <<server, down, downSent>>
           ELSE /\ server' = [server EXCEPT !.out = SealedState(@, type, m)]
                /\ down' = Append(down, SealedPacket(server.out, type, m))
                /\ downSent' = Append(downSent, m)
        /\ UNCHANGED <<client, up, phase, loginKey, upSent, upGot, downGot>>

\* Fault: a plain packet goes through the cipher as well.
ClientRecvAdvancing ==
    LET p == Head(down)
    IN  /\ down # <<>>
        /\ down' = Tail(down) /\ downSent' = Tail(downSent)
        /\ downGot' = IF p.tag = PLAIN THEN Decompress(ZLIB, p.body)
                                       ELSE OpenedData(client.in, p)
        /\ client' = [client EXCEPT !.in = IF p.tag = PLAIN
                                           THEN CryptState(@, p.body)
                                           ELSE OpenedState(@, p)]
        /\ UNCHANGED <<server, up, phase, loginKey, upSent, upGot>>

\* Gen5Codec.recv_packet on the next packet.
ClientRecv ==
    LET p == Head(down)
    IN  /\ down # <<>>
        /\ down' = Tail(down) /\ downSent' = Tail(downSent)
        /\ downGot' = IF p.tag = PLAIN THEN Decompress(ZLIB, p.body)
                                       ELSE OpenedData(client.in, p)
        /\ client' = [client EXCEPT !.in = OpenedState(@, p)]
        /\ UNCHANGED <<server, up, phase, loginKey, upSent, upGot>>

\* A peer that is not this library sends a packet the codecs do not know.
ForeignUp(p) ==
    /\ phase.client = "open"
    /\ Len(up) < MaxInFlight.up
    /\ up' = Append(up, p) /\ upSent' = Append(upSent, None)
    /\ UNCHANGED <<codecs, down, phase, loginKey, downSent, upGot, downGot>>

ForeignDown(p) ==
    /\ phase.server = "open"
    /\ Len(down) < MaxInFlight.down
    /\ down' = Append(down, p) /\ downSent' = Append(downSent, None)
    /\ UNCHANGED <<codecs, up, phase, loginKey, upSent, upGot, downGot>>

\* Fault: the host does not call reset_decode_state.
DisconnectNoReset ==
    /\ phase.client = "open"
    /\ up' = <<>> /\ down' = <<>> /\ upSent' = <<>> /\ downSent' = <<>>
    /\ phase' = [client |-> "closed", server |-> "login"]
    /\ UNCHANGED <<codecs, loginKey, upGot, downGot>>

\* The connection is lost with packets in flight; the server host keeps its
\* codec and calls reset_decode_state for the next connection.
Disconnect ==
    /\ phase.client = "open"
    /\ up' = <<>> /\ down' = <<>> /\ upSent' = <<>> /\ downSent' = <<>>
    /\ phase' = [client |-> "closed", server |-> "login"]
    /\ server' = [server EXCEPT !.first = TRUE]
    /\ UNCHANGED <<client, loginKey, upGot, downGot>>

Next ==
    \/ \E k \in Key : ClientLogin(k)
    \/ \E m \in Message : ClientSend(m) \/ ServerRespond(m) \/ ServerSend(m)
    \/ ServerDecode \/ ServerSetKey \/ ClientRecv
    \/ \E p \in ForeignPacket : ForeignUp(p) \/ ForeignDown(p)
    \/ Disconnect

Spec == Init /\ [][Next]_vars

\* Both hosts keep reading: each has a loop that feeds every packet of
\* get_packets to its codec, and the login handler runs to its end.
FairSpec == Spec /\ WF_vars(ServerDecode) /\ WF_vars(ServerSetKey)
                 /\ WF_vars(ClientRecv)

-----------------------------------------------------------------------------
\* Type invariant: the codec states stay in range, the histories follow the
\* pipes, and every decode result is a bundle, None or garbage.
TypeOK ==
    /\ client \in [in : Codec, out : Codec]
    /\ server \in [in : Codec, out : Codec, first : BOOLEAN]
    /\ up \in Seq(Packet) /\ down \in Seq(Packet)
    /\ phase \in [client : {"closed", "open"},
                  server : {"login", "key", "respond", "open"}]
    /\ loginKey \in Key \cup {None}
    /\ upSent \in Seq(Entry) /\ Len(upSent) = Len(up)
    /\ downSent \in Seq(Entry) /\ Len(downSent) = Len(down)
    /\ upGot \in Result /\ downGot \in Result

Keyed == phase.server \in {"respond", "open"}

SameCipher(c1, c2) == c1.key = c2.key /\ c1.iterator = c2.iterator

\* Each side's in_codec is where the peer's out_codec is whenever nothing is
\* in flight between them.  The cipher has no resynchronisation: a packet
\* that advances one iterator and not the other garbles all that follow.
InStep ==
    Keyed => /\ up = <<>>   => SameCipher(client.out, server.in)
             /\ down = <<>> => SameCipher(server.out, client.in)

\* Packet p, sealed under key with the iterator at `from`, stands for m and
\* leaves the iterator at `to`.
Sealed(p, m, key, from, to) ==
    \/ /\ p.tag \in CompressionType /\ m \in Message
       /\ LET codec == LimitFromType([key |-> key, iterator |-> from, limit |-> -1],
                                     p.tag)
          IN  /\ p.body = CryptData(codec, Image[m][p.tag])
              /\ to = CryptState(codec, Image[m][p.tag]).iterator
    \/ /\ p.tag = PLAIN /\ m \in Message /\ p.body = Image[m][ZLIB]
       /\ to = from
    \/ /\ p.tag \in {FOREIGN, EMPTY} /\ m = None
       /\ to = from

\* The packets of a pipe lead the iterator from the receiver's to the
\* sender's, one after the other.
Chained(packets, sent, sender, receiver) ==
    /\ sender.key = receiver.key
    /\ \E at \in [1 .. Len(packets) + 1 -> Word] :
          /\ at[1] = receiver.iterator
          /\ at[Len(packets) + 1] = sender.iterator
          /\ \A i \in 1 .. Len(packets) :
                Sealed(packets[i], sent[i], sender.key, at[i], at[i + 1])

\* The in_codec the server will have once the login in progress is handled.
UpReceiver == IF Keyed THEN server.in ELSE Reset(client.out.key)

\* Without a connection nothing is in flight; with one, the pipe to the
\* server is chained.
UpChain ==
    IF phase.client = "open" THEN Chained(up, upSent, client.out, UpReceiver)
                             ELSE up = <<>> /\ phase.server = "login"

\* A plain packet travels to the server only as the login the server's
\* _first_decode waits for, and it announces the client's key.
LoginFirst ==
    /\ server.first <=> phase.server = "login"
    /\ \A i \in 1 .. Len(up) :
          up[i].tag = PLAIN <=> i = 1 /\ phase.server = "login"
    /\ phase.client = "open" /\ phase.server = "login" =>
          up # <<>> /\ client.out.key \in Key /\ upSent[1] = Login[client.out.key]

\* The key the server is about to set is the client's.
KeyPending ==
    phase.server = "key" => loginKey \in Key /\ loginKey = client.out.key

\* Nothing is sent to the client before the server has the key; from then on
\* the pipe to the client is chained.
DownChain ==
    IF Keyed THEN Chained(down, downSent, server.out, client.in)
    ELSE /\ down = <<>>
         /\ phase.client = "open" => client.in = Reset(client.out.key)

\* The inductive invariant behind InStep and the two channel refinements.
SessionInv == UpChain /\ LoginFirst /\ KeyPending /\ DownChain

UpLink   == INSTANCE BundleChannel
    WITH queue <- upSent, got <- upGot, Bundle <- Message
DownLink == INSTANCE BundleChannel
    WITH queue <- downSent, got <- downGot, Bundle <- Message

\* Bundles reach the server unchanged, once and in order, through the cipher,
\* dropped oversize bundles, foreign packets and reconnections, and a bundle
\* in flight is eventually decoded unless the connection is lost.
UpChannel == UpLink!FairSpec

\* The same of the bundles on their way to the client.
DownChannel == DownLink!FairSpec
=============================================================================
