---------------------------- MODULE MCGS2Operands ----------------------------
(* Scripts of four statements over a bare name and a member of this, and an *)
(* object of the host that may get a member of that name as well.           *)
EXTENDS GS2Operands

MCTarget == {[in |-> "bare", name |-> "x"], [in |-> "this", name |-> "x"]}
MCLiteral == {Null}
=============================================================================
