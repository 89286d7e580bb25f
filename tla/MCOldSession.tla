--------------------------- MODULE MCOldSession ---------------------------
(* OldSession with a two-bit iterator and three messages.                  *)
EXTENDS OldSession, TLC

MCXor(b, w) == ((b + w) % 2) + 2 * (((b \div 2) + (w \div 2)) % 2)
MCLimitOf   == (UNCOMPRESSED :> 2) @@ (ZLIB :> 1) @@ (BZ2 :> 2)

\* Message 2 is longer than the cipher's limit, 3 is oversize when packed and
\* 1 has no bytes at all.
MCRaw    == <<<<>>, <<3>>, <<0, 1>>>>
MCFits   == {1, 2}
MCPacked == <<<<1>>, <<2, 0, 3>>, <<0, 1, 2, 3>>>>
=============================================================================
