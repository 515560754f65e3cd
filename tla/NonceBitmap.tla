----------------------------- MODULE NonceBitmap -----------------------------
(***************************************************************************)
(* The registry of processed cross-chain nonces, as both ends of the       *)
(* bridge keep it: one bit per nonce in 256-bit words.                     *)
(*   - x/bridge:    KVStore key 0x01 ++ wordIndex  ->  word bytes          *)
(*   - LockBox.sol: mapping(uint256 => uint256) nonceBitmap                *)
(* A nonce is the natural number its bytes denote.  A word is the set of   *)
(* the positions of its 1 bits; a word that was never stored is absent     *)
(* from the function's domain, as the key is absent from the store.        *)
(***************************************************************************)
EXTENDS Naturals

\* wordIndex = nonce / 256 and bitIndex = nonce % 256.
WordIndex(nonce) == nonce \div 256
BitIndex(nonce)  == nonce % 256

\* The contents of a word; an absent word reads as zero.
WordAt(bitmap, w) == IF w \in DOMAIN bitmap THEN bitmap[w] ELSE {}

EmptyBitmap == [w \in {} |-> {}]

IsNonceProcessed(bitmap, nonce) ==
    BitIndex(nonce) \in WordAt(bitmap, WordIndex(nonce))

\* Mutant: the mask is and-ed into the word.
AndsMask(bitmap, nonce) ==
    [w \in DOMAIN bitmap \cup {WordIndex(nonce)} |->
        IF w = WordIndex(nonce) THEN WordAt(bitmap, w) \cap {BitIndex(nonce)} ELSE bitmap[w]]

\* The word is read, the bit is or-ed in, the word is stored.
SetNonceProcessed(bitmap, nonce) ==
    [w \in DOMAIN bitmap \cup {WordIndex(nonce)} |->
        IF w = WordIndex(nonce)
        THEN WordAt(bitmap, w) \cup {BitIndex(nonce)}
        ELSE bitmap[w]]

\* Every stored word is a set of bit positions.
IsBitmap(bitmap) ==
    /\ DOMAIN bitmap \subseteq Nat
    /\ \A w \in DOMAIN bitmap : bitmap[w] \subseteq 0..255
    /\ bitmap = [w \in DOMAIN bitmap |-> bitmap[w]]
=============================================================================
