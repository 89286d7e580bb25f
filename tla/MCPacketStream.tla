--------------------------- MODULE MCPacketStream ---------------------------
(* PacketStream with one-bit bytes, so that a packet holds at most three.  *)
EXTENDS PacketStream

\* An empty payload, one of each length up to the limit, and an oversize one.
MCPayload == {<<>>, <<1>>, <<0, 1>>, <<1, 1, 0>>, <<1, 0, 1, 1>>}
=============================================================================
