----------------------------- MODULE KhashHash -----------------------------
(***************************************************************************)
(* The hash functions of khash.h that compute, on words of HashBits bits.  *)
(* A word is a natural number, a text a sequence of characters that are    *)
(* words already (a char is sign-extended), with its terminator, 0.        *)
(***************************************************************************)
EXTENDS Bits, SequencesExt

CONSTANT HashBits   \* width of khint_t: 32

ASSUME HashBitsAssumption == HashBits \in Nat \ {0}

Modulus == Shl1[HashBits]
Wrap(n) == n % Modulus
Left(key, s) == IF s < HashBits THEN (key % Shl1[HashBits - s]) * Shl1[s] ELSE 0
Right(key, s) == IF s < HashBits THEN key \div Shl1[s] ELSE 0
Complement(key) == (Shl1[HashBits] - 1) - key

-----------------------------------------------------------------------------
(* __ac_X31_hash_string; its loop starts only when the first character is  *)
(* not the terminator, and ends at the next one.                           *)
TextLengthUntested(text) ==                                    \* mutant
  SelectInSubSeq(text, 2, Len(text), LAMBDA char : char = 0) - 1
TextLength(text) == SelectInSeq(text, LAMBDA char : char = 0) - 1

X31HashString(text) ==
  LET n == TextLength(text)
      hash[i \in 0..n] ==
        IF i = 0 THEN 0
        ELSE Wrap(Left(hash[i - 1], 5) - hash[i - 1] + text[i])
  IN  hash[n]

-----------------------------------------------------------------------------
(* __ac_Wang_hash: key += (key << s), ~ and ^= as in the code. *)
AddNotLeftOnly(key, s) == Complement(Left(key, s))                    \* mutant
AddNotLeft(key, s) == Wrap(key + Complement(Left(key, s)))
AddLeft(key, s) == Wrap(key + Left(key, s))
XorRight(key, s) == Xor(key, Right(key, s), HashBits)

WangHash(key) ==
  XorRight(AddNotLeft(XorRight(AddLeft(XorRight(AddNotLeft(key,
    15), 10), 3), 6), 11), 16)
=============================================================================
