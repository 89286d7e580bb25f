--------------------------- MODULE MCGen5Session ---------------------------
(* Gen5Session with a two-bit iterator, two keys and four messages.        *)
EXTENDS Gen5Session, TLC

\* Exclusive or of two-bit numbers.
MCXor(b, w) == ((b + w) % 2) + 2 * (((b \div 2) + (w \div 2)) % 2)

MCKey     == {1, 2}
MCLimitOf == (UNCOMPRESSED :> 2) @@ (ZLIB :> 1) @@ (BZ2 :> 1)

\* 1 and 2 are the login packets, zlib when they are sent as ordinary
\* messages; 3 goes out uncompressed and is longer than the cipher's limit;
\* 4 goes out as bz2 and is oversize.
MCMessage == 1 .. 4
MCLogin   == [k \in MCKey |-> k]
MCSize    == <<5, 5, 3, 9>>
MCImage   == [m \in MCMessage |->
                (UNCOMPRESSED :> IF m = 3 THEN <<3, 2, 1>> ELSE <<m % 4>>) @@
                (ZLIB :> <<m % 4, 3>>) @@
                (BZ2  :> IF m = 4 THEN <<0, 1, 2, 3>> ELSE <<m>>)]
MCPolicy  == [uncompressed_max |-> 3, zlib_max |-> 6]
MCInFlight == [up |-> 2, down |-> 1]
=============================================================================
