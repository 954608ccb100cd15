------------------------------ MODULE MCBitOps ------------------------------
(***************************************************************************)
(* BitOps, KhashFlags and KhashHash for TLC: every word in turn, and what  *)
(* the code computes from it compared with the definition it stands for.   *)
(* A word is an argument, the flags of a table, and a text with two bits   *)
(* for each character, whose terminator other characters may follow.       *)
(***************************************************************************)
EXTENDS BitOps, KhashFlags, KhashHash

VARIABLE word

(* From several words at once, so that TLC's workers share the work. *)
Init == word \in {Wrap(k * Shl1[10]) : k \in 0..127}
NextWord == word' = Wrap(word + 1)
Next == NextWord
Spec == Init /\ [][Next]_word

val == word % Shl1[WordBits]

-----------------------------------------------------------------------------
(* findLastSet is the highest position, -1 without one (mp_findLastSet). *)
LastSetIsHighest ==
  LET last == FindLastSet(val)
  IN  IF val = 0 THEN last = -1 ELSE Shl1[last] <= val /\ val < Shl1[last + 1]

(* countTrailingZeros is the lowest position, -1 without one (idxpyr.c). *)
TrailingZerosIsLowest ==
  LET zeros == CountTrailingZeros(val)
  IN  IF val = 0 THEN zeros = -1
      ELSE val % Shl1[zeros] = 0 /\ val % Shl1[zeros + 1] # 0

(***************************************************************************)
(* log2Envelope is the least exponent whose power of two holds val, up to  *)
(* the width itself: mp_init sizes its clusters with it.                   *)
(***************************************************************************)
EnvelopeIsLeast ==
  LET envelope == Log2Envelope(val)
  IN  val <= Shl1[envelope] /\ (envelope # 0 => Shl1[envelope - 1] < val)

-----------------------------------------------------------------------------
Buckets == 0..(2 * WordBuckets - 1)
Flags == [w \in {0, 1} |-> (val \div Shl1[w * FlagBits]) % Shl1[FlagBits]]
StateOf(flags, i) ==
  IF IsEmpty(flags, i) THEN "empty" ELSE IF IsDel(flags, i) THEN "deleted" ELSE "live"

FilledIsEmpty ==
  \A m \in {WordBuckets \div 2, WordBuckets, 2 * WordBuckets} :
    \A i \in 0..(m - 1) : StateOf(Filled(m), i) = "empty"

(***************************************************************************)
(* The bits are a state for each bucket, as KhashOps takes them for: each  *)
(* macro that sets bits, called as kh_put, kh_del and kh_resize call it,   *)
(* changes the state of its bucket and of none that shares the word, and   *)
(* the memset makes all empty, in tables of less than a word and of more.  *)
(***************************************************************************)
FlagsAreStates ==
  LET Is(flags, i, new) ==
        \A b \in Buckets : StateOf(flags, b) = IF b = i THEN new ELSE StateOf(Flags, b)
  IN  /\ (\A i \in Buckets : ~(IsEmpty(Flags, i) /\ IsDel(Flags, i))) =>
           \A i \in Buckets :
             /\ ~IsEither(Flags, i) => Is(SetIsDelTrue(Flags, i), i, "deleted")
             /\ IsEmpty(Flags, i) => Is(SetIsEmptyFalse(Flags, i), i, "live")
             /\ IsEither(Flags, i) => Is(SetIsBothFalse(Flags, i), i, "live")
      /\ FilledIsEmpty

-----------------------------------------------------------------------------
SignedChars == <<0, 1, 127, -128>>
Place == [i \in 1..(HashBits \div 2) |-> Shl1[2 * (i - 1)]]
Signed == [i \in DOMAIN Place |-> SignedChars[1 + ((word \div Place[i]) % 4)]]
Text == [i \in 1..(HashBits \div 2 + 1) |->
           IF i \in DOMAIN Signed THEN Wrap(Signed[i]) ELSE 0]

Power31[k \in Nat] == IF k = 0 THEN 1 ELSE Wrap(31 * Power31[k - 1])
Polynomial(n) ==
  LET sum[k \in 0..n] ==
        IF k = 0 THEN 0 ELSE sum[k - 1] + Signed[k] * Power31[n - k]
  IN  sum[n]

(***************************************************************************)
(* The hash of a string is its characters' polynomial in 31, of nothing    *)
(* but the characters before the terminator: also for the empty string,    *)
(* behind which there may be anything, and for negative characters         *)
(* (__ac_X31_hash_string).                                                 *)
(***************************************************************************)
HashIsPolynomial ==
  LET n == CHOOSE k \in 0..(Len(Text) - 1) :
             Text[k + 1] = 0 /\ \A i \in 1..k : Text[i] # 0
  IN  X31HashString(Text) = Wrap(Polynomial(n))

WangHashes == {WangHash(key) : key \in 0..(Shl1[HashBits] - 1)}

(***************************************************************************)
(* Every word is the hash of a key, so of exactly one: __ac_Wang_hash      *)
(* mixes integer keys and lets no two of them meet before the mask does.   *)
(***************************************************************************)
EveryHashOccurs == word \in WangHashes
=============================================================================
