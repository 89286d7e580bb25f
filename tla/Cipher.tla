------------------------------- MODULE Cipher -------------------------------
(***************************************************************************)
(* RebornEncryption (reborn_protocol/encryption.py): the LCG stream cipher *)
(* of ENCRYPT_GEN_4 and ENCRYPT_GEN_5.                                     *)
(*                                                                         *)
(* A body is a sequence of blocks.  One block stands for the (up to four)  *)
(* bytes the code XORs with one packed value of the LCG: the code advances *)
(* the iterator exactly when i % 4 = 0 and counts the limit in the same    *)
(* unit.  Word is the range of the masked iterator; its width is the       *)
(* constant Modulus (2^32 in the code).                                    *)
(***************************************************************************)
EXTENDS Integers, Sequences

CONSTANTS Modulus,          \* iterator values are taken modulo this (2^32)
          Multiplier,       \* MULTIPLIER of the LCG
          InitialIterator,  \* INITIAL_ITERATOR
          Key,              \* the login keys (0..127 in the code)
          LimitOf,          \* CompressionType -> blocks that get encrypted
          Xor(_, _)         \* bytewise exclusive or of a block and a Word

UNCOMPRESSED == 2
ZLIB         == 4
BZ2          == 6
CompressionType == {UNCOMPRESSED, ZLIB, BZ2}

Word  == 0 .. Modulus - 1
Block == Word

ASSUME CipherAssumption ==
    /\ Modulus \in Nat \ {0}
    /\ Multiplier \in Nat
    /\ InitialIterator \in Word
    /\ Key \subseteq Nat
    /\ LimitOf \in [CompressionType -> Nat \ {0}]
    /\ \A b \in Block, w \in Word : /\ Xor(b, w) \in Block
                                    /\ Xor(Xor(b, w), w) = b

-----------------------------------------------------------------------------
\* The state of one RebornEncryption object.
Codec == [key : Nat, iterator : Word, limit : Int]

\* __init__ and reset leave the object in the same state.
Reset(key) == [key |-> key, iterator |-> InitialIterator, limit |-> -1]

\* limit_from_type: a type it does not know leaves the limit alone.
LimitFromType(codec, type) ==
    IF type \in CompressionType THEN [codec EXCEPT !.limit = LimitOf[type]]
                                ELSE codec

\* Fault: the mask is forgotten.
AdvanceUnmasked(key, iterator) == iterator * Multiplier + key

\* iterator = (iterator * multiplier + key) & 0xFFFFFFFF
Advance(key, iterator) == (iterator * Multiplier + key) % Modulus

\* The iterator after n advances.
Lcg(key, iterator) ==
    LET after[n \in Nat] == IF n = 0 THEN iterator
                                     ELSE Advance(key, after[n - 1])
    IN  after

\* bytes_to_encrypt, in blocks.
Encrypted(codec, body) ==
    IF codec.limit < 0 \/ Len(body) <= codec.limit THEN Len(body)
                                                   ELSE codec.limit

\* encrypt, and decrypt, which is the same function: the result, and the
\* state the object is left in.
CryptData(codec, body) ==
    [i \in 1 .. Len(body) |->
        IF i <= Encrypted(codec, body)
        THEN Xor(body[i], Lcg(codec.key, codec.iterator)[i])
        ELSE body[i]]

CryptState(codec, body) ==
    LET n == Encrypted(codec, body)
    IN  [codec EXCEPT !.iterator = Lcg(codec.key, codec.iterator)[n],
                      !.limit = IF @ > 0 THEN @ - n ELSE @]

=============================================================================
