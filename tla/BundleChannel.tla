--------------------------- MODULE BundleChannel ---------------------------
(***************************************************************************)
(* What one direction of a session promises its host, with no cipher, no   *)
(* compression and no framing: every bundle the sending codec accepted is  *)
(* handed to the receiving host unchanged, once, in the order of sending;  *)
(* only the loss of the connection discards bundles, and then all of them. *)
(***************************************************************************)
EXTENDS Sequences

CONSTANTS Bundle,   \* what a host can send
          None      \* recv_packet / decode_packet returned None

VARIABLES queue,    \* accepted and not yet delivered; None: a foreign packet
          got       \* result of the last receive call

vars == <<queue, got>>

Init == queue = <<>> /\ got = None

Accept(b) == queue' = Append(queue, b) /\ UNCHANGED got

Deliver == /\ queue # <<>>
           /\ got' = Head(queue)
           /\ queue' = Tail(queue)

Lose == queue' = <<>> /\ UNCHANGED got

Next == Deliver \/ Lose \/ \E b \in Bundle \cup {None} : Accept(b)

Spec == Init /\ [][Next]_vars

FairSpec == Spec /\ WF_vars(Deliver)
=============================================================================
