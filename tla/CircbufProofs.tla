--------------------------- MODULE CircbufProofs ---------------------------
(***************************************************************************)
(* Proofs about circbuf.c: what each function does to the sequence of      *)
(* elements, for any set of elements and any capacity that keeps           *)
(* 1 << capacityLog2 inside an int, and from that the invariants of        *)
(* Circbuf and its refinement of Fifo.                                     *)
(***************************************************************************)
EXTENDS Circbuf, NatProofs, SequenceTheorems

(* Rotation within a buffer of c slots, for an index less than twice c. *)
LEMMA RotateFacts ==
  ASSUME NEW c \in Nat \ {0}, NEW n \in Nat
  PROVE  /\ Rotate(n, c - 1) \in 0..(c - 1)
         /\ n < c => Rotate(n, c - 1) = n
         /\ c <= n /\ n < 2 * c => Rotate(n, c - 1) = n - c
<1>1. Rotate(n, c - 1) = n % c
  BY DEF Rotate
<1>2. n % c \in 0..(c - 1)
  OBVIOUS
<1>3. n < c => n % c = n
  OBVIOUS
<1>4. c <= n /\ n < 2 * c => n % c = n - c
  OBVIOUS
<1>5. QED
  BY <1>1, <1>2, <1>3, <1>4

(* The fields of a buffer, and what its rotation does to an index. *)
LEMMA FieldFacts ==
  ASSUME NEW b, IsBuffer(b)
  PROVE  /\ b.capacityLog2 \in Nat
         /\ Shl1[b.capacityLog2] \in Nat \ {0}
         /\ b.rotationMask = Shl1[b.capacityLog2] - 1
         /\ b.start \in 0..(Shl1[b.capacityLog2] - 1)
         /\ b.length \in 0..Shl1[b.capacityLog2]
         /\ b.a \in [0..(Shl1[b.capacityLog2] - 1) -> Elem \cup {NULL}]
BY Shl1Facts DEF IsBuffer

(* A window lies in one or two pieces of the storage. *)
LEMMA SlotFacts ==
  ASSUME NEW b, IsBuffer(b), NEW n \in Nat, n < 2 * Shl1[b.capacityLog2]
  PROVE  /\ Rotate(n, b.rotationMask) =
              IF n < Shl1[b.capacityLog2] THEN n ELSE n - Shl1[b.capacityLog2]
         /\ Rotate(n, b.rotationMask) \in 0..(Shl1[b.capacityLog2] - 1)
<1> DEFINE c == Shl1[b.capacityLog2]
<1>1. c \in Nat \ {0} /\ b.rotationMask = c - 1
  BY FieldFacts
<1>2. n < 2 * c
  OBVIOUS
<1> HIDE DEF c
<1>3. Rotate(n, c - 1) = (IF n < c THEN n ELSE n - c) /\ Rotate(n, c - 1) \in 0..(c - 1)
  BY <1>1, <1>2, RotateFacts
<1>4. QED
  BY <1>1, <1>3 DEF c

(* The slot of the window's i-th element. *)
LEMMA WindowSlot ==
  ASSUME NEW b, IsBuffer(b), NEW i \in 1..Shl1[b.capacityLog2]
  PROVE  /\ Rotate(b.start + i - 1, b.rotationMask) =
              IF b.start + i - 1 < Shl1[b.capacityLog2]
                THEN b.start + i - 1 ELSE b.start + i - 1 - Shl1[b.capacityLog2]
         /\ Rotate(b.start + i - 1, b.rotationMask) \in 0..(Shl1[b.capacityLog2] - 1)
<1> DEFINE c == Shl1[b.capacityLog2]
           n == b.start + i - 1
<1>1. n \in Nat /\ n < 2 * c
  <2>1. c \in Nat /\ b.start \in 0..(c - 1) /\ i \in 1..c
    BY FieldFacts
  <2> HIDE DEF c
  <2>2. QED
    BY <2>1
<1> HIDE DEF n
<1>2. /\ Rotate(n, b.rotationMask) = IF n < c THEN n ELSE n - c
      /\ Rotate(n, b.rotationMask) \in 0..(c - 1)
  BY <1>1, SlotFacts
<1>3. QED
  BY <1>1, <1>2, FieldFacts DEF n

(* The window's slots, and that it is a sequence. *)
LEMMA ContentsFacts ==
  ASSUME NEW b, IsBuffer(b)
  PROVE  /\ Contents(b) \in Seq(Elem \cup {NULL})
         /\ Len(Contents(b)) = b.length
         /\ DOMAIN Contents(b) = 1..b.length
         /\ \A i \in 1..b.length :
              Contents(b)[i] = b.a[Rotate(b.start + i - 1, b.rotationMask)]
<1>1. b.length \in Nat
  BY FieldFacts
<1>2. \A i \in 1..b.length :
        b.a[Rotate(b.start + i - 1, b.rotationMask)] \in Elem \cup {NULL}
  <2> SUFFICES ASSUME NEW i \in 1..b.length
               PROVE  Rotate(b.start + i - 1, b.rotationMask) \in DOMAIN b.a
    BY FieldFacts
  <2>1. i \in 1..Shl1[b.capacityLog2]
    BY FieldFacts
  <2>2. QED
    BY <2>1, WindowSlot, FieldFacts
<1>3. Contents(b) \in [1..b.length -> Elem \cup {NULL}]
  BY <1>2 DEF Contents
<1>4. Contents(b) \in Seq(Elem \cup {NULL})
  BY <1>1, <1>3, SeqDef
<1>5. Len(Contents(b)) = b.length /\ DOMAIN Contents(b) = 1..b.length
  BY <1>1, <1>3, <1>4, LenProperties
<1>6. QED
  BY <1>4, <1>5 DEF Contents

(* circbuf_make returns a buffer with nothing in it. *)
LEMMA MakeFacts ==
  ASSUME NEW k \in Nat
  PROVE  IsBuffer(Make(k)) /\ Contents(Make(k)) = <<>> /\ Make(k).capacityLog2 = k
<1>1. Shl1[k] \in Nat \ {0}
  BY Shl1Facts
<1>2. IsBuffer(Make(k))
  BY <1>1 DEF IsBuffer, Make
<1>3. Contents(Make(k)) \in Seq(Elem \cup {NULL}) /\ Len(Contents(Make(k))) = 0
  BY <1>2, ContentsFacts DEF Make
<1>4. QED
  BY <1>2, <1>3, EmptySeq DEF Make

(* circbuf_put appends to the sequence of elements. *)
LEMMA PutFacts ==
  ASSUME NEW b, IsBuffer(b), NEW e \in Elem, b.length < Shl1[b.capacityLog2]
  PROVE  /\ IsBuffer(Put(b, e))
         /\ Put(b, e).capacityLog2 = b.capacityLog2
         /\ Put(b, e).length = b.length + 1
         /\ Contents(Put(b, e)) = Append(Contents(b), e)
<1> DEFINE c == Shl1[b.capacityLog2]
           last == Rotate(b.start + b.length, b.rotationMask)
           p == Put(b, e)
<1>1. c \in Nat \ {0} /\ b.length \in 0..(c - 1) /\ b.start \in 0..(c - 1)
  BY FieldFacts
<1>2. last \in 0..(c - 1)
      /\ last = IF b.start + b.length < c THEN b.start + b.length
                                          ELSE b.start + b.length - c
  BY <1>1, SlotFacts
<1>3. /\ p.capacityLog2 = b.capacityLog2 /\ p.rotationMask = b.rotationMask
      /\ p.start = b.start /\ p.length = b.length + 1
      /\ p.a = [b.a EXCEPT ![last] = e]
      /\ p = [b EXCEPT !.length = b.length + 1, !.a = [b.a EXCEPT ![last] = e]]
  BY DEF Put, IsBuffer
<1>4. [b.a EXCEPT ![last] = e] \in [0..(c - 1) -> Elem \cup {NULL}]
  BY <1>2, FieldFacts
<1>5. IsBuffer(p)
  <2>1. b.length + 1 \in 0..c
    BY <1>1
  <2>2. QED
    BY <1>1, <1>3, <1>4, <2>1 DEF IsBuffer
<1> HIDE DEF p, last
<1>6. ASSUME NEW i \in 1..p.length
      PROVE  Contents(p)[i] = Append(Contents(b), e)[i]
  <2> DEFINE slot == Rotate(b.start + i - 1, b.rotationMask)
  <2>1. i \in 1..(b.length + 1)
    BY <1>3
  <2>2. /\ slot \in 0..(c - 1)
        /\ slot = IF b.start + i - 1 < c THEN b.start + i - 1 ELSE b.start + i - 1 - c
    <3>1. i \in 1..c
      BY <1>1, <2>1
    <3>2. QED
      BY <3>1, WindowSlot
  <2>3. Contents(p)[i] = p.a[slot]
    <3>1. Contents(p)[i] = p.a[Rotate(p.start + i - 1, p.rotationMask)]
      BY <1>5, ContentsFacts
    <3>2. QED
      BY <1>3, <3>1
  <2> HIDE DEF slot, c
  <2>4. CASE i = b.length + 1
    <3>1. slot = last
      BY <1>1, <1>2, <2>2, <2>4
    <3>2. p.a[slot] = e
      BY <1>2, <1>3, <3>1, FieldFacts DEF c
    <3>3. QED
      BY <2>3, <2>4, <3>2, ContentsFacts, AppendProperties
  <2>5. CASE i # b.length + 1
    <3>1. i \in 1..b.length
      BY <1>1, <2>1, <2>5
    <3>2. slot # last
      BY <1>1, <1>2, <2>2, <3>1
    <3>3. p.a[slot] = b.a[slot]
      BY <1>3, <2>2, <3>2, FieldFacts DEF c
    <3>4. Contents(b)[i] = b.a[slot]
      BY <3>1, ContentsFacts DEF slot
    <3>5. QED
      BY <2>3, <3>1, <3>3, <3>4, ContentsFacts, AppendProperties
  <2>6. QED
    BY <2>4, <2>5
<1>7. /\ Contents(p) \in Seq(Elem \cup {NULL})
      /\ Len(Contents(p)) = b.length + 1
  BY <1>3, <1>5, ContentsFacts
<1>8. /\ Append(Contents(b), e) \in Seq(Elem \cup {NULL})
      /\ Len(Append(Contents(b), e)) = b.length + 1
  BY ContentsFacts, AppendProperties
<1>9. Contents(p) = Append(Contents(b), e)
  BY <1>3, <1>6, <1>7, <1>8, SeqEqual
<1>10. QED
  BY <1>3, <1>5, <1>9 DEF p

(* circbuf_popBack takes the first element off the sequence. *)
LEMMA PopFacts ==
  ASSUME NEW b, IsBuffer(b), b.length # 0
  PROVE  /\ IsBuffer(PopBack(b))
         /\ PopBack(b).capacityLog2 = b.capacityLog2
         /\ Contents(b) # <<>>
         /\ b.a[b.start] = Head(Contents(b))
         /\ Contents(PopBack(b)) = Tail(Contents(b))
<1> DEFINE c == Shl1[b.capacityLog2]
           first == Rotate(b.start + 1, b.rotationMask)
           p == PopBack(b)
<1>1. c \in Nat \ {0} /\ b.length \in 1..c /\ b.start \in 0..(c - 1)
  BY FieldFacts
<1>2. /\ first \in 0..(c - 1)
      /\ first = IF b.start + 1 < c THEN b.start + 1 ELSE b.start + 1 - c
  <2>1. b.start + 1 \in Nat /\ b.start + 1 < 2 * c
    <3> HIDE DEF c
    <3>1. QED
      BY <1>1
  <2>2. QED
    BY <1>1, <2>1, SlotFacts
<1>3. /\ p.capacityLog2 = b.capacityLog2 /\ p.rotationMask = b.rotationMask
      /\ p.start = first /\ p.length = b.length - 1 /\ p.a = b.a
      /\ p = [b EXCEPT !.start = first, !.length = b.length - 1]
  BY DEF PopBack, IsBuffer
<1>4. IsBuffer(p)
  <2>1. b.length - 1 \in 0..c
    BY <1>1
  <2>2. QED
    BY <1>1, <1>2, <1>3, <2>1 DEF IsBuffer
<1> HIDE DEF p, first
<1>5. /\ Contents(b) \in Seq(Elem \cup {NULL}) /\ Len(Contents(b)) = b.length
      /\ Contents(b) # <<>>
  BY <1>1, ContentsFacts, EmptySeq
<1>6. b.a[b.start] = Head(Contents(b))
  <2>1. 1 \in 1..b.length /\ 1 \in 1..c
    BY <1>1
  <2>2. Contents(b)[1] = b.a[Rotate(b.start + 1 - 1, b.rotationMask)]
    BY <2>1, ContentsFacts
  <2>3. Rotate(b.start + 1 - 1, b.rotationMask) = b.start
    BY <1>1, <2>1, WindowSlot
  <2>4. QED
    BY <1>5, <2>2, <2>3
<1>7. /\ Tail(Contents(b)) \in Seq(Elem \cup {NULL})
      /\ Len(Tail(Contents(b))) = b.length - 1
      /\ \A i \in 1..(b.length - 1) : Tail(Contents(b))[i] = Contents(b)[i + 1]
  BY <1>5, HeadTailProperties
<1>8. /\ Contents(p) \in Seq(Elem \cup {NULL})
      /\ Len(Contents(p)) = b.length - 1
  BY <1>3, <1>4, ContentsFacts
<1>9. ASSUME NEW i \in 1..(b.length - 1)
      PROVE  Contents(p)[i] = Tail(Contents(b))[i]
  <2>1. i + 1 \in 1..b.length /\ i + 1 \in 1..c /\ i \in 1..c
    BY <1>1
  <2>2. Contents(b)[i + 1] = b.a[Rotate(b.start + (i + 1) - 1, b.rotationMask)]
    BY <2>1, ContentsFacts
  <2>3. Contents(p)[i] = b.a[Rotate(p.start + i - 1, p.rotationMask)]
    <3>1. Contents(p)[i] = p.a[Rotate(p.start + i - 1, p.rotationMask)]
      <4>1. IsBuffer(p) /\ i \in 1..p.length
        BY <1>3, <1>4
      <4> HIDE DEF p
      <4>2. QED
        BY <4>1, ContentsFacts
    <3>2. QED
      BY <1>3, <3>1
  <2> DEFINE s1 == Rotate(b.start + (i + 1) - 1, b.rotationMask)
             s2 == Rotate(p.start + i - 1, p.rotationMask)
  <2>4. s1 = IF b.start + (i + 1) - 1 < c THEN b.start + (i + 1) - 1
                                          ELSE b.start + (i + 1) - 1 - c
    BY <2>1, WindowSlot
  <2>5. s2 = IF p.start + i - 1 < c THEN p.start + i - 1 ELSE p.start + i - 1 - c
    <3>1. IsBuffer(p) /\ i \in 1..Shl1[p.capacityLog2] /\ Shl1[p.capacityLog2] = c
      BY <1>3, <1>4, <2>1
    <3> HIDE DEF p, c
    <3>2. QED
      BY <3>1, WindowSlot
  <2>6. s1 = s2
    <3> HIDE DEF s1, s2, c
    <3>1. QED
      BY <1>1, <1>2, <1>3, <2>4, <2>5
  <2>7. QED
    BY <1>7, <2>2, <2>3, <2>6
<1>10. Contents(p) = Tail(Contents(b))
  BY <1>7, <1>8, <1>9, SeqEqual
<1>11. QED
  BY <1>3, <1>4, <1>5, <1>6, <1>10 DEF p

(* Where the int shift is defined, it is the size_t shift. *)
LEMMA IntShl1InRange ==
  ASSUME NEW k \in Nat, k < IntBits - 1
  PROVE  IntShl1(k) = Shl1[k]
BY WidthAssumption DEF IntShl1

(* While 1 << capacityLog2 fits an int, CIRCBUF_FULL compares with the storage. *)
LEMMA FullFacts ==
  ASSUME NEW b, IsBuffer(b), b.capacityLog2 < IntBits - 1
  PROVE  Full(b) <=> b.length = Shl1[b.capacityLog2]
BY FieldFacts, IntShl1InRange DEF Full

(* circbuf_resize moves the elements, in order, into storage of another size. *)
LEMMA ResizeFacts ==
  ASSUME NEW b, IsBuffer(b), b.capacityLog2 < IntBits - 1,
         NEW k \in Nat, b.length <= Shl1[k]
  PROVE  /\ IsBuffer(Resize(b, k))
         /\ Resize(b, k).capacityLog2 = k
         /\ Resize(b, k).length = b.length
         /\ Contents(Resize(b, k)) = Contents(b)
<1> DEFINE c  == Shl1[b.capacityLog2]
           n1 == IF b.length > c - b.start THEN c - b.start ELSE b.length
           moved(i) == IF i < n1 THEN b.a[b.start + i]
                       ELSE IF i < n1 + (b.length - n1) THEN b.a[i - n1] ELSE NULL
           r == Resize(b, k)
<1>1. c \in Nat \ {0} /\ b.length \in 0..c /\ b.start \in 0..(c - 1)
      /\ Shl1[k] \in Nat \ {0} /\ b.a \in [0..(c - 1) -> Elem \cup {NULL}]
  BY FieldFacts, Shl1Facts
<1>2. IntShl1(b.capacityLog2) = c
  BY FieldFacts, IntShl1InRange
<1>3. r = [Make(k) EXCEPT !.length = b.length,
                          !.a = [i \in 0..(Shl1[k] - 1) |-> moved(i)]]
  <2>1. Make(k).a = [i \in 0..(Shl1[k] - 1) |-> NULL]
    BY DEF Make
  <2>2. r = [Make(k) EXCEPT !.length = b.length,
                            !.a = [i \in DOMAIN Make(k).a |->
                                     IF i < n1 THEN b.a[b.start + i]
                                     ELSE IF i < n1 + (b.length - n1) THEN b.a[i - n1]
                                     ELSE Make(k).a[i]]]
    BY <1>2, Zenon DEF Resize
  <2>3. [i \in DOMAIN Make(k).a |->
           IF i < n1 THEN b.a[b.start + i]
           ELSE IF i < n1 + (b.length - n1) THEN b.a[i - n1] ELSE Make(k).a[i]]
        = [i \in 0..(Shl1[k] - 1) |-> moved(i)]
    <3> HIDE DEF n1
    <3>1. QED
      BY <2>1
  <2>4. QED
    BY <2>2, <2>3, Zenon
<1>4. n1 \in 0..b.length /\ n1 <= c - b.start
  <2> HIDE DEF c
  <2>1. QED
    BY <1>1
<1>5. \A i \in 0..(Shl1[k] - 1) : moved(i) \in Elem \cup {NULL}
  <2> SUFFICES ASSUME NEW i \in 0..(Shl1[k] - 1) PROVE moved(i) \in Elem \cup {NULL}
    OBVIOUS
  <2>1. i < n1 => b.start + i \in 0..(c - 1)
    <3> HIDE DEF c, n1
    <3>1. QED
      BY <1>1, <1>4
  <2>2. ~(i < n1) /\ i < n1 + (b.length - n1) => i - n1 \in 0..(c - 1)
    <3> HIDE DEF c, n1
    <3>1. QED
      BY <1>1, <1>4
  <2> HIDE DEF c, n1
  <2>3. QED
    BY <1>1, <2>1, <2>2
<1>6. IsBuffer(r)
  <2> DEFINE newA == [i \in 0..(Shl1[k] - 1) |-> moved(i)]
  <2>1. newA \in [0..(Shl1[k] - 1) -> Elem \cup {NULL}]
    BY <1>5
  <2>2. b.length \in 0..Shl1[k]
    BY <1>1
  <2>3. r = [a |-> newA, start |-> 0, length |-> b.length, capacityLog2 |-> k,
             rotationMask |-> Shl1[k] - 1]
    BY <1>3 DEF Make
  <2> HIDE DEF newA, r
  <2>4. QED
    BY <1>1, <2>1, <2>2, <2>3 DEF IsBuffer
<1>7. /\ r.length = b.length /\ r.start = 0 /\ r.capacityLog2 = k
      /\ r.a = [i \in 0..(Shl1[k] - 1) |-> moved(i)]
  BY <1>3 DEF Make
<1> HIDE DEF r
<1>8. ASSUME NEW i \in 1..b.length
      PROVE  Contents(r)[i] = Contents(b)[i]
  <2>1. i \in 1..c /\ i \in 1..Shl1[k]
    BY <1>1
  <2>2. Contents(b)[i] = b.a[Rotate(b.start + i - 1, b.rotationMask)]
    BY ContentsFacts
  <2>3. Contents(r)[i] = r.a[Rotate(r.start + i - 1, r.rotationMask)]
    BY <1>6, <1>7, ContentsFacts
  <2>4. Rotate(r.start + i - 1, r.rotationMask) = i - 1
    <3>1. Rotate(r.start + i - 1, r.rotationMask) =
            IF r.start + i - 1 < Shl1[k] THEN r.start + i - 1 ELSE r.start + i - 1 - Shl1[k]
      BY <1>6, <1>7, <2>1, WindowSlot
    <3>2. QED
      BY <1>1, <1>7, <2>1, <3>1
  <2>5. Contents(r)[i] = moved(i - 1)
    <3>1. i - 1 \in 0..(Shl1[k] - 1)
      BY <1>1, <2>1
    <3> HIDE DEF moved
    <3>2. QED
      BY <1>7, <2>3, <2>4, <3>1
  <2> DEFINE s == Rotate(b.start + i - 1, b.rotationMask)
  <2>6. s = IF b.start + i - 1 < c THEN b.start + i - 1 ELSE b.start + i - 1 - c
    BY <2>1, WindowSlot
  <2>7. moved(i - 1) = b.a[s]
    <3> HIDE DEF c, s
    <3>1. CASE b.start + i - 1 < c
      <4>1. i - 1 < n1
        BY <1>1, <2>1, <3>1
      <4>2. b.start + (i - 1) = s
        BY <1>1, <2>1, <2>6, <3>1
      <4> HIDE DEF n1
      <4>3. QED
        BY <4>1, <4>2
    <3>2. CASE ~(b.start + i - 1 < c)
      <4>1. n1 = c - b.start
        BY <1>1, <2>1, <3>2
      <4>2. ~(i - 1 < n1) /\ i - 1 < n1 + (b.length - n1)
        <5> HIDE DEF n1
        <5>1. QED
          BY <1>1, <2>1, <3>2, <4>1
      <4>3. i - 1 - n1 = s
        <5> HIDE DEF n1
        <5>1. QED
          BY <1>1, <2>1, <2>6, <3>2, <4>1
      <4> HIDE DEF n1
      <4>4. QED
        BY <4>2, <4>3
    <3>3. QED
      BY <3>1, <3>2
  <2>8. QED
    BY <2>2, <2>5, <2>7
<1>9. /\ Contents(r) \in Seq(Elem \cup {NULL}) /\ Len(Contents(r)) = b.length
      /\ Contents(b) \in Seq(Elem \cup {NULL}) /\ Len(Contents(b)) = b.length
  BY <1>6, <1>7, ContentsFacts
<1>10. Contents(r) = Contents(b)
  BY <1>8, <1>9, SeqEqual
<1>11. QED
  BY <1>6, <1>7, <1>10 DEF r

(* circbuf_dynamicPut appends too, with room made when there is none. *)
LEMMA DynamicPutFacts ==
  ASSUME NEW b, IsBuffer(b), b.capacityLog2 < IntBits - 1, NEW e \in Elem
  PROVE  /\ IsBuffer(DynamicPut(b, e))
         /\ DynamicPut(b, e).capacityLog2 =
              IF Full(b) THEN b.capacityLog2 + 1 ELSE b.capacityLog2
         /\ Contents(DynamicPut(b, e)) = Append(Contents(b), e)
         /\ b.length < Shl1[DynamicPut(b, e).capacityLog2]
<1> DEFINE k == b.capacityLog2
<1>1. k \in Nat /\ Shl1[k] \in Nat \ {0} /\ b.length \in 0..Shl1[k]
  BY FieldFacts
<1>2. CASE Full(b)
  <2> DEFINE r == Resize(b, k + 1)
  <2>1. b.length = Shl1[k] /\ Shl1[k + 1] = 2 * Shl1[k]
    BY <1>1, <1>2, FullFacts, Shl1Facts
  <2>2. k + 1 \in Nat /\ b.length <= Shl1[k + 1] /\ b.length < Shl1[k + 1]
    BY <1>1, <2>1
  <2>3. /\ IsBuffer(r) /\ r.capacityLog2 = k + 1 /\ r.length = b.length
        /\ Contents(r) = Contents(b)
    BY <2>2, ResizeFacts
  <2>4. DynamicPut(b, e) = Put(r, e)
    BY <1>2 DEF DynamicPut
  <2> HIDE DEF r
  <2>5. /\ IsBuffer(Put(r, e)) /\ Put(r, e).capacityLog2 = r.capacityLog2
        /\ Contents(Put(r, e)) = Append(Contents(r), e)
    BY <2>2, <2>3, PutFacts
  <2>6. QED
    BY <1>2, <2>2, <2>3, <2>4, <2>5
<1>3. CASE ~Full(b)
  <2>1. b.length < Shl1[k]
    BY <1>1, <1>3, FullFacts
  <2>2. DynamicPut(b, e) = Put(b, e)
    BY <1>3 DEF DynamicPut
  <2>3. QED
    BY <1>3, <2>1, <2>2, PutFacts
<1>4. QED
  BY <1>2, <1>3

(* circbuf_destroy frees the elements of the sequence, and no other slot. *)
LEMMA FreedFacts ==
  ASSUME NEW b, IsBuffer(b), NEW e
  PROVE  e \in Freed(b) <=> \E i \in 1..Len(Contents(b)) : Contents(b)[i] = e
<1>1. Len(Contents(b)) = b.length /\ b.length \in Nat /\ b.start \in Nat
  BY ContentsFacts, FieldFacts
<1>2. ASSUME NEW i \in 1..b.length
      PROVE  Contents(b)[i] = b.a[Rotate(b.start + (i - 1), b.rotationMask)]
  <2>1. b.start + i - 1 = b.start + (i - 1)
    BY <1>1
  <2>2. QED
    BY <2>1, ContentsFacts
<1>3. ASSUME NEW j \in 0..(b.length - 1)
      PROVE  /\ j + 1 \in 1..b.length
             /\ Contents(b)[j + 1] = b.a[Rotate(b.start + j, b.rotationMask)]
  <2>1. j + 1 \in 1..b.length /\ (j + 1) - 1 = j
    BY <1>1
  <2>2. Contents(b)[j + 1] = b.a[Rotate(b.start + ((j + 1) - 1), b.rotationMask)]
    BY <1>2, <2>1
  <2>3. QED
    BY <2>1, <2>2
<1>4. ASSUME NEW i \in 1..b.length PROVE i - 1 \in 0..(b.length - 1)
  BY <1>1
<1>5. ASSUME e \in Freed(b) PROVE \E i \in 1..b.length : Contents(b)[i] = e
  <2>1. PICK j \in 0..(b.length - 1) : e = b.a[Rotate(b.start + j, b.rotationMask)]
    BY <1>5 DEF Freed
  <2>2. j + 1 \in 1..b.length /\ Contents(b)[j + 1] = e
    BY <1>3, <2>1
  <2>3. QED
    BY <2>2
<1>6. ASSUME NEW i \in 1..b.length, Contents(b)[i] = e PROVE e \in Freed(b)
  <2>1. PICK j \in 0..(b.length - 1) : j = i - 1
    BY <1>4
  <2>2. e = b.a[Rotate(b.start + j, b.rotationMask)]
    BY <1>2, <1>6, <2>1
  <2>3. QED
    BY <2>1, <2>2 DEF Freed
<1>7. QED
  BY <1>1, <1>5, <1>6

-----------------------------------------------------------------------------
(* CIRCBUF_FRONT_INDEX in any window. *)
LEMMA FrontFacts ==
  ASSUME NEW b, IsBuffer(b), b.length # 0
  PROVE  b.a[FrontIndex(b)] = Contents(b)[b.length]
<1>1. b.length \in 1..b.length
  BY FieldFacts
<1>2. Contents(b)[b.length] = b.a[Rotate(b.start + b.length - 1, b.rotationMask)]
  BY <1>1, ContentsFacts
<1>3. QED
  BY <1>2 DEF FrontIndex

-----------------------------------------------------------------------------
(***************************************************************************)
(* Each step of Circbuf keeps the buffer well-formed and is, through the   *)
(* mapping, the step of Fifo with the same name.                           *)
(***************************************************************************)
LEMMA HeldFacts ==
  ASSUME TypeOK
  PROVE  /\ held \in Seq(Elem \cup {NULL})
         /\ live => Len(held) = buf.length
BY ContentsFacts, EmptySeq DEF TypeOK, held

LEMMA MakeStep ==
  ASSUME TypeOK, NEW k \in 0..MaxCapacityLog2, MakeBuf(k)
  PROVE  TypeOK' /\ Queue!Make(Shl1[k])
<1>1. k \in Nat /\ k <= MaxCapacityLog2
  BY MaxCapacityAssumption
<1>2. IsBuffer(buf') /\ Contents(buf') = <<>> /\ buf'.capacityLog2 = k
  BY <1>1, MakeFacts DEF MakeBuf
<1>3. TypeOK'
  BY <1>1, <1>2 DEF TypeOK, MakeBuf
<1>4. QED
  BY <1>2, <1>3 DEF MakeBuf, Queue!Make, held

LEMMA PutStep ==
  ASSUME TypeOK, MaxCapacityLog2 < IntBits - 1, NEW e \in Elem, PutElem(e)
  PROVE  TypeOK' /\ Queue!Put(e)
<1>1. IsBuffer(buf) /\ buf.capacityLog2 < IntBits - 1 /\ buf.capacityLog2 \in Nat
  BY FieldFacts, MaxCapacityAssumption, WidthAssumption DEF TypeOK
<1>2. buf.length < Shl1[buf.capacityLog2]
  BY <1>1, FullFacts, FieldFacts DEF PutElem
<1>3. /\ IsBuffer(buf') /\ buf'.capacityLog2 = buf.capacityLog2
      /\ Contents(buf') = Append(Contents(buf), e)
  BY <1>1, <1>2, PutFacts DEF PutElem
<1>4. TypeOK'
  BY <1>3 DEF TypeOK, PutElem
<1>5. Len(held) < Shl1[buf.capacityLog2]
  BY <1>2, HeldFacts DEF PutElem
<1>6. QED
  BY <1>3, <1>4, <1>5 DEF PutElem, Queue!Put, held

LEMMA DynamicPutStep ==
  ASSUME TypeOK, MaxCapacityLog2 < IntBits - 1, NEW e \in Elem, DynamicPutElem(e)
  PROVE  TypeOK' /\ Queue!Put(e)
<1> DEFINE k == buf.capacityLog2
<1>1. IsBuffer(buf) /\ k < IntBits - 1 /\ k \in Nat /\ k <= MaxCapacityLog2
  BY FieldFacts, MaxCapacityAssumption, WidthAssumption DEF TypeOK
<1>2. /\ IsBuffer(buf') /\ buf'.capacityLog2 = IF Full(buf) THEN k + 1 ELSE k
      /\ Contents(buf') = Append(Contents(buf), e)
      /\ buf.length < Shl1[buf'.capacityLog2]
  BY <1>1, DynamicPutFacts DEF DynamicPutElem
<1>3. buf'.capacityLog2 \in 0..MaxCapacityLog2
  BY <1>1, <1>2, MaxCapacityAssumption DEF DynamicPutElem
<1>4. TypeOK'
  BY <1>2, <1>3 DEF TypeOK, DynamicPutElem
<1>5. Len(held) = buf.length /\ live /\ live'
  BY HeldFacts DEF DynamicPutElem
<1>6. IF Len(held) < Shl1[k] THEN Shl1[buf'.capacityLog2] = Shl1[k]
        ELSE Shl1[buf'.capacityLog2] \in {c \in Capacities : c > Len(held)}
  <2>1. Full(buf) <=> ~(Len(held) < Shl1[k])
    BY <1>1, <1>5, FullFacts, FieldFacts
  <2>2. Shl1[buf'.capacityLog2] \in Capacities
    BY <1>3 DEF Capacities
  <2>3. Shl1[buf'.capacityLog2] > Len(held)
    BY <1>2, <1>3, <1>5, FieldFacts, Shl1Facts, MaxCapacityAssumption
  <2>4. QED
    BY <1>2, <2>1, <2>2, <2>3
<1>7. QED
  BY <1>2, <1>4, <1>5, <1>6 DEF DynamicPutElem, Queue!Put, held

LEMMA PopStep ==
  ASSUME TypeOK, PopElem
  PROVE  TypeOK' /\ Queue!PopBack
<1>1. /\ IsBuffer(buf') /\ buf'.capacityLog2 = buf.capacityLog2
      /\ Contents(buf) # <<>> /\ buf.a[buf.start] = Head(Contents(buf))
      /\ Contents(buf') = Tail(Contents(buf))
  BY PopFacts DEF PopElem, TypeOK
<1>2. TypeOK'
  BY <1>1 DEF TypeOK, PopElem
<1>3. QED
  BY <1>1, <1>2 DEF PopElem, Queue!PopBack, held

LEMMA ResizeStep ==
  ASSUME TypeOK, MaxCapacityLog2 < IntBits - 1, NEW k \in 0..MaxCapacityLog2, ResizeBuf(k)
  PROVE  TypeOK' /\ Queue!Resize(Shl1[k])
<1>1. /\ IsBuffer(buf) /\ buf.capacityLog2 < IntBits - 1 /\ buf.capacityLog2 \in Nat
      /\ k \in Nat /\ k < IntBits - 1 /\ k <= MaxCapacityLog2
  BY FieldFacts, MaxCapacityAssumption, WidthAssumption DEF TypeOK
<1>2. buf.length <= Shl1[k]
  BY <1>1, IntShl1InRange DEF ResizeBuf
<1>3. /\ IsBuffer(buf') /\ buf'.capacityLog2 = k
      /\ Contents(buf') = Contents(buf)
  BY <1>1, <1>2, ResizeFacts DEF ResizeBuf
<1>4. TypeOK'
  BY <1>1, <1>3 DEF TypeOK, ResizeBuf
<1>5. Len(held) <= Shl1[k]
  BY <1>2, HeldFacts DEF ResizeBuf
<1>6. QED
  BY <1>3, <1>4, <1>5 DEF ResizeBuf, Queue!Resize, held

LEMMA DestroyStep ==
  ASSUME TypeOK, DestroyBuf
  PROVE  TypeOK' /\ Queue!Destroy
<1>1. owner' = [e \in Elem |-> IF \E i \in 1..Len(held) : held[i] = e
                                 THEN "free" ELSE owner[e]]
  BY FreedFacts DEF DestroyBuf, TypeOK, held
<1>2. TypeOK'
  BY <1>1 DEF DestroyBuf, TypeOK
<1>3. QED
  BY <1>1, <1>2 DEF DestroyBuf, Queue!Destroy, held

LEMMA CallerStep ==
  ASSUME TypeOK, NEW e \in Elem
  PROVE  /\ Alloc(e) => TypeOK' /\ Queue!Alloc(e)
         /\ CallerFree(e) => TypeOK' /\ Queue!CallerFree(e)
BY DEF TypeOK, Alloc, CallerFree, Queue!Alloc, Queue!CallerFree, held

LEMMA NextStep ==
  ASSUME TypeOK, MaxCapacityLog2 < IntBits - 1, [Next]_vars
  PROVE  TypeOK' /\ [Queue!Next]_(Queue!vars)
<1>1. ASSUME NEW k \in 0..MaxCapacityLog2, MakeBuf(k)
      PROVE  TypeOK' /\ Queue!Next
  BY <1>1, MakeStep DEF Queue!Next, Capacities
<1>2. ASSUME NEW k \in 0..MaxCapacityLog2, ResizeBuf(k)
      PROVE  TypeOK' /\ Queue!Next
  BY <1>2, ResizeStep DEF Queue!Next, Capacities
<1>3. CASE IncreaseSize
  <2>1. buf.capacityLog2 + 1 \in 0..MaxCapacityLog2
    BY <1>3, FieldFacts, MaxCapacityAssumption DEF IncreaseSize, TypeOK
  <2>2. QED
    BY <1>2, <1>3, <2>1 DEF IncreaseSize
<1>4. ASSUME NEW e \in Elem, PutElem(e)
      PROVE  TypeOK' /\ Queue!Next
  BY <1>4, PutStep DEF Queue!Next
<1>5. ASSUME NEW e \in Elem, DynamicPutElem(e)
      PROVE  TypeOK' /\ Queue!Next
  BY <1>5, DynamicPutStep DEF Queue!Next
<1>6. CASE PopElem
  BY <1>6, PopStep DEF Queue!Next
<1>7. CASE DestroyBuf
  BY <1>7, DestroyStep DEF Queue!Next
<1>8. ASSUME NEW e \in Elem, Alloc(e) \/ CallerFree(e)
      PROVE  TypeOK' /\ Queue!Next
  BY <1>8, CallerStep DEF Queue!Next
<1>9. CASE UNCHANGED vars
  BY <1>9 DEF vars, Queue!vars, TypeOK, held
<1>10. QED
  BY <1>1, <1>2, <1>3, <1>4, <1>5, <1>6, <1>7, <1>8, <1>9 DEF Next

LEMMA InitStep == Init => TypeOK /\ Queue!Init
<1> SUFFICES ASSUME Init PROVE TypeOK /\ Queue!Init
  OBVIOUS
<1>1. IsBuffer(buf) /\ buf.capacityLog2 = 0
  BY MakeFacts DEF Init
<1>2. TypeOK
  <2>1. [e \in Elem |-> "free"] \in [Elem -> {"free", "caller", "buffer"}]
    OBVIOUS
  <2>2. buf.capacityLog2 <= MaxCapacityLog2
    BY <1>1, MaxCapacityAssumption
  <2>3. live \in BOOLEAN /\ owner \in [Elem -> {"free", "caller", "buffer"}]
    BY <2>1 DEF Init
  <2>4. QED
    BY <1>1, <2>2, <2>3 DEF TypeOK
<1>3. QED
  BY <1>2 DEF Init, Queue!Init, held

-----------------------------------------------------------------------------
(***************************************************************************)
(* Ownership, in terms of the sequence of elements: q holds exactly the    *)
(* elements that belong to the buffer, each once.                          *)
(***************************************************************************)
Owns(q, o) ==
  /\ \A e \in Elem : o[e] = "buffer" <=> \E i \in DOMAIN q : q[i] = e
  /\ \A i \in DOMAIN q : q[i] \in Elem
  /\ \A i, j \in DOMAIN q : q[i] = q[j] => i = j

Owners == [Elem -> {"free", "caller", "buffer"}]

LEMMA OwnsAppend ==
  ASSUME NEW q \in Seq(Elem \cup {NULL}), NEW o \in Owners, Owns(q, o),
         NEW e \in Elem, o[e] = "caller"
  PROVE  Owns(Append(q, e), [o EXCEPT ![e] = "buffer"])
<1> DEFINE r == Append(q, e)
           p == [o EXCEPT ![e] = "buffer"]
<1>1. /\ r \in Seq(Elem \cup {NULL}) /\ Len(r) = Len(q) + 1
      /\ \A i \in 1..Len(q) : r[i] = q[i]
      /\ r[Len(q) + 1] = e
      /\ Len(q) \in Nat /\ DOMAIN q = 1..Len(q) /\ DOMAIN r = 1..(Len(q) + 1)
  BY AppendProperties, LenProperties
<1>2. \A i \in 1..Len(q) : q[i] # e
  BY <1>1 DEF Owns
<1>3. p[e] = "buffer" /\ \A x \in Elem : x # e => p[x] = o[x]
  BY DEF Owners
<1> HIDE DEF r, p
<1>4. ASSUME NEW x \in Elem
      PROVE  p[x] = "buffer" <=> \E i \in DOMAIN r : r[i] = x
  <2>1. CASE x = e
    BY <1>1, <1>3, <2>1
  <2>2. CASE x # e
    <3>1. \A i \in DOMAIN r : i = Len(q) + 1 \/ i \in DOMAIN q
      BY <1>1
    <3>2. \A i \in DOMAIN q : i \in DOMAIN r
      BY <1>1
    <3>3. QED
      BY <1>1, <1>3, <2>2, <3>1, <3>2 DEF Owns
  <2>3. QED
    BY <2>1, <2>2
<1>5. \A i \in DOMAIN r : r[i] \in Elem
  BY <1>1 DEF Owns
<1>6. \A i, j \in DOMAIN r : r[i] = r[j] => i = j
  BY <1>1, <1>2 DEF Owns
<1>7. QED
  BY <1>4, <1>5, <1>6 DEF Owns, r, p

LEMMA OwnsTail ==
  ASSUME NEW q \in Seq(Elem \cup {NULL}), NEW o \in Owners, Owns(q, o), q # <<>>
  PROVE  Owns(Tail(q), [o EXCEPT ![Head(q)] = "caller"])
<1> DEFINE r == Tail(q)
           p == [o EXCEPT ![Head(q)] = "caller"]
<1>1. /\ r \in Seq(Elem \cup {NULL}) /\ Len(q) \in Nat \ {0} /\ Len(r) = Len(q) - 1
      /\ \A i \in 1..(Len(q) - 1) : r[i] = q[i + 1]
      /\ DOMAIN q = 1..Len(q) /\ DOMAIN r = 1..(Len(q) - 1)
      /\ Head(q) = q[1]
  BY HeadTailProperties, EmptySeq, LenProperties
<1>2. q[1] \in Elem
  BY <1>1 DEF Owns
<1>3. p[q[1]] = "caller" /\ \A x \in Elem : x # q[1] => p[x] = o[x]
  BY <1>1, <1>2 DEF Owners
<1> HIDE DEF r, p
<1>4. \A i \in DOMAIN r : i + 1 \in DOMAIN q /\ i + 1 # 1 /\ r[i] = q[i + 1]
  BY <1>1
<1>5. ASSUME NEW x \in Elem
      PROVE  p[x] = "buffer" <=> \E i \in DOMAIN r : r[i] = x
  <2>1. CASE x = q[1]
    <3>1. \A i \in DOMAIN r : r[i] # x
      BY <1>1, <1>4, <2>1 DEF Owns
    <3>2. QED
      BY <1>3, <2>1, <3>1
  <2>2. CASE x # q[1]
    <3>1. \A i \in DOMAIN q : q[i] = x => i - 1 \in DOMAIN r /\ r[i - 1] = x
      BY <1>1, <2>2
    <3>2. QED
      BY <1>3, <1>4, <2>2, <3>1 DEF Owns
  <2>3. QED
    BY <2>1, <2>2
<1>6. \A i \in DOMAIN r : r[i] \in Elem
  BY <1>4 DEF Owns
<1>7. ASSUME NEW i \in DOMAIN r, NEW j \in DOMAIN r, r[i] = r[j] PROVE i = j
  <2>1. i + 1 = j + 1
    BY <1>4, <1>7 DEF Owns
  <2>2. QED
    BY <1>1, <2>1
<1>8. QED
  BY <1>5, <1>6, <1>7 DEF Owns, r, p

-----------------------------------------------------------------------------
(* A put into an empty window goes where its front index is. *)
LEMMA FirstPutStep ==
  ASSUME TypeOK, MaxCapacityLog2 < IntBits - 1, buf.length = 0,
         NEW e \in Elem, PutElem(e) \/ DynamicPutElem(e)
  PROVE  FrontIndex(buf') = FrontIndex(buf)
<1>1. IsBuffer(buf) /\ buf.capacityLog2 < IntBits - 1 /\ buf.capacityLog2 \in Nat
  BY FieldFacts, MaxCapacityAssumption, WidthAssumption DEF TypeOK
<1>2. ~Full(buf)
  BY <1>1, FullFacts, FieldFacts
<1>3. buf' = Put(buf, e)
  BY <1>2 DEF PutElem, DynamicPutElem, DynamicPut
<1>4. buf'.start = buf.start /\ buf'.rotationMask = buf.rotationMask /\ buf'.length = 1
  BY <1>1, <1>3 DEF Put, IsBuffer
<1>5. buf.start + 1 - 1 = buf.start + 0 - 0
  BY <1>1, FieldFacts
<1>6. QED
  BY <1>4, <1>5 DEF FrontIndex

(* What the front index points at, when the window is not empty. *)
LEMMA FrontIsLast ==
  ASSUME TypeOK, live, buf.length # 0
  PROVE  /\ front = held[Len(held)] /\ held # <<>>
         /\ held \in Seq(Elem \cup {NULL}) /\ Len(held) = buf.length
BY FrontFacts, HeldFacts, EmptySeq DEF TypeOK, held, front

LEMMA FrontStep ==
  ASSUME TypeOK, MaxCapacityLog2 < IntBits - 1, [Next]_vars, live, live',
         buf'.length # 0
  PROVE  front' \in (IF {e \in Elem : owner[e] = "caller" /\ owner'[e] = "buffer"} = {}
                        THEN {front}
                        ELSE {e \in Elem : owner[e] = "caller" /\ owner'[e] = "buffer"})
<1> DEFINE given == {e \in Elem : owner[e] = "caller" /\ owner'[e] = "buffer"}
<1>1. TypeOK' /\ [Queue!Next]_(Queue!vars)
  BY NextStep
<1>2. /\ front' = held'[Len(held')] /\ held' # <<>>
      /\ held' \in Seq(Elem \cup {NULL}) /\ Len(held') = buf'.length
  BY <1>1, FrontFacts, ContentsFacts, EmptySeq DEF TypeOK, held, front
<1>3. held \in Seq(Elem \cup {NULL}) /\ Len(held) = buf.length /\ Len(held) \in Nat
  BY HeldFacts, LenProperties
<1>4. buf.length # 0 => front = held[Len(held)]
  BY FrontIsLast
<1>5. ASSUME NEW e \in Elem, Queue!Put(e) PROVE e \in given /\ front' = e
  <2>1. held' = Append(held, e)
    BY <1>5 DEF Queue!Put
  <2>2. held'[Len(held')] = e
    BY <1>3, <2>1, AppendProperties
  <2>3. owner[e] = "caller" /\ owner'[e] = "buffer"
    BY <1>5 DEF Queue!Put, TypeOK
  <2>4. QED
    BY <1>2, <2>2, <2>3
<1>6. CASE Queue!PopBack
  <2>1. held' = Tail(held) /\ held # <<>>
    BY <1>6 DEF Queue!PopBack
  <2>2. Len(held') = Len(held) - 1 /\ Len(held') # 0
    BY <1>2, <1>3, <2>1, HeadTailProperties, EmptySeq
  <2>3. held'[Len(held')] = held[Len(held)]
    <3>1. \A i \in 1..(Len(held) - 1) : Tail(held)[i] = held[i + 1]
      BY <1>3, <2>1, HeadTailProperties
    <3>2. Len(held) - 1 \in 1..(Len(held) - 1) /\ (Len(held) - 1) + 1 = Len(held)
      BY <1>3, <2>2
    <3>3. QED
      BY <2>1, <2>2, <3>1, <3>2
  <2>4. given = {}
    BY <1>6 DEF Queue!PopBack, TypeOK
  <2>5. buf.length # 0
    BY <1>3, <2>1, EmptySeq
  <2>6. QED
    BY <1>2, <1>4, <2>3, <2>4, <2>5
<1>7. ASSUME held' = held, owner' = owner \/ \E e \in Elem : Queue!Alloc(e) \/ Queue!CallerFree(e)
      PROVE  given = {} /\ front' = front
  <2>1. given = {}
    BY <1>7 DEF Queue!Alloc, Queue!CallerFree, TypeOK
  <2>2. buf.length # 0
    BY <1>2, <1>3, <1>7, EmptySeq
  <2>3. QED
    BY <1>2, <1>4, <1>7, <2>1, <2>2
<1>8. ASSUME NEW c \in Capacities, Queue!Resize(c) PROVE held' = held /\ owner' = owner
  BY <1>8 DEF Queue!Resize
<1>9. ~Queue!Destroy /\ \A c \in Capacities : ~Queue!Make(c)
  BY DEF Queue!Destroy, Queue!Make
<1>10. ASSUME NEW e \in Elem, Queue!Alloc(e) \/ Queue!CallerFree(e) PROVE held' = held
  BY <1>10 DEF Queue!Alloc, Queue!CallerFree
<1>11. CASE UNCHANGED Queue!vars
  BY <1>7, <1>11 DEF Queue!vars
<1>12. QED
  BY <1>1, <1>5, <1>6, <1>7, <1>8, <1>9, <1>10, <1>11 DEF Queue!Next

(* The inductive invariant: TypeOK alone does not say who owns what. *)
IInv == TypeOK /\ OwnedOnce

LEMMA OwnershipStep ==
  ASSUME IInv, TypeOK', [Queue!Next]_(Queue!vars)
  PROVE  OwnedOnce'
<1>1. /\ held \in Seq(Elem \cup {NULL}) /\ owner \in Owners /\ Owns(held, owner)
      /\ OwnedOnce' = Owns(held', owner')
  BY HeldFacts DEF IInv, TypeOK, OwnedOnce, Owns, Owners
<1>2. ASSUME NEW e \in Elem, Queue!Put(e) PROVE Owns(held', owner')
  BY <1>1, <1>2, OwnsAppend DEF Queue!Put
<1>3. CASE Queue!PopBack
  BY <1>1, <1>3, OwnsTail DEF Queue!PopBack
<1>4. CASE Queue!Destroy
  <2>1. held' = <<>> /\ DOMAIN held' = {} /\ DOMAIN held = 1..Len(held)
    BY <1>1, <1>4, EmptySeq, LenProperties DEF Queue!Destroy
  <2>2. \A e \in Elem : owner'[e] # "buffer"
    <3> SUFFICES ASSUME NEW e \in Elem PROVE owner'[e] # "buffer"
      OBVIOUS
    <3>1. owner'[e] = IF \E i \in DOMAIN held : held[i] = e THEN "free" ELSE owner[e]
      BY <1>4, <2>1 DEF Queue!Destroy
    <3>2. QED
      BY <1>1, <3>1 DEF Owns
  <2>3. QED
    BY <1>1, <2>1, <2>2 DEF Owns
<1>5. ASSUME NEW e \in Elem, Queue!Alloc(e) \/ Queue!CallerFree(e)
      PROVE  Owns(held', owner')
  BY <1>1, <1>5 DEF Queue!Alloc, Queue!CallerFree, Owns, Owners
<1>6. ASSUME NEW c \in Capacities, Queue!Make(c) \/ Queue!Resize(c)
      PROVE  Owns(held', owner')
  BY <1>1, <1>6 DEF Queue!Make, Queue!Resize
<1>7. CASE UNCHANGED Queue!vars
  BY <1>1, <1>7 DEF Queue!vars
<1>8. QED
  BY <1>1, <1>2, <1>3, <1>4, <1>5, <1>6, <1>7 DEF Queue!Next

-----------------------------------------------------------------------------
(***************************************************************************)
(* circbuf_t stays consistent with itself as long as no capacity reaches   *)
(* the width of int: the mask fits the storage, the window lies in it.     *)
(***************************************************************************)
THEOREM TypeCorrect ==
  ASSUME MaxCapacityLog2 < IntBits - 1
  PROVE  Spec => []TypeOK
<1>1. Init => TypeOK
  BY InitStep
<1>2. TypeOK /\ [Next]_vars => TypeOK'
  BY NextStep
<1>3. QED
  BY <1>1, <1>2, PTL DEF Spec

(* The storage holds the window, under the same condition. *)
THEOREM StorageSuffices ==
  ASSUME MaxCapacityLog2 < IntBits - 1
  PROVE  Spec => []StorageHoldsWindow
<1>1. TypeOK => StorageHoldsWindow
  BY FieldFacts DEF TypeOK, StorageHoldsWindow
<1>2. QED
  BY <1>1, TypeCorrect, PTL

(* The ring buffer is a first-in first-out queue: Circbuf implements Fifo. *)
THEOREM ImplementsFifo ==
  ASSUME MaxCapacityLog2 < IntBits - 1
  PROVE  Spec => FifoSpec
<1>1. Init => Queue!Init
  BY InitStep
<1>2. TypeOK /\ [Next]_vars => [Queue!Next]_(Queue!vars)
  BY NextStep
<1>3. QED
  BY <1>1, <1>2, TypeCorrect, PTL DEF Spec, FifoSpec, Queue!Spec

(* IInv is inductive. *)
THEOREM Invariance ==
  ASSUME MaxCapacityLog2 < IntBits - 1
  PROVE  Spec => []IInv
<1>1. Init => IInv
  <2> SUFFICES ASSUME Init PROVE IInv
    OBVIOUS
  <2>1. TypeOK /\ held = <<>> /\ DOMAIN held = {}
    BY InitStep, EmptySeq DEF Init, held
  <2>2. QED
    BY <2>1 DEF Init, IInv, OwnedOnce
<1>2. IInv /\ [Next]_vars => IInv'
  BY NextStep, OwnershipStep DEF IInv
<1>3. QED
  BY <1>1, <1>2, PTL DEF Spec

(* No element is lost, doubled or brought back by a wrap or a resize. *)
THEOREM Ownership ==
  ASSUME MaxCapacityLog2 < IntBits - 1
  PROVE  Spec => []OwnedOnce
<1>1. IInv => OwnedOnce
  BY DEF IInv
<1>2. QED
  BY <1>1, Invariance, PTL

(* CIRCBUF_FRONT_INDEX stays with the element put last, through every pop and *)
(* resize, and goes with the next put into an empty window.                   *)
THEOREM FrontFollowsPuts ==
  ASSUME MaxCapacityLog2 < IntBits - 1
  PROVE  Spec => FrontIsLastPut
<1> DEFINE given == {e \in Elem : owner[e] = "caller" /\ owner'[e] = "buffer"}
           A == live /\ live' =>
                  /\ buf'.length # 0 => front' \in (IF given = {} THEN {front} ELSE given)
                  /\ buf.length = 0 /\ given # {} => FrontIndex(buf') = FrontIndex(buf)
<1>1. ASSUME TypeOK, [Next]_vars, live, live', buf'.length # 0
      PROVE  front' \in (IF given = {} THEN {front} ELSE given)
  BY <1>1, FrontStep
<1>2. ASSUME TypeOK, [Next]_vars, buf.length = 0, live, live', given # {}
      PROVE  FrontIndex(buf') = FrontIndex(buf)
  <2>1. ASSUME NEW e \in Elem, PutElem(e) \/ DynamicPutElem(e)
        PROVE  FrontIndex(buf') = FrontIndex(buf)
    BY <1>2, <2>1, FirstPutStep
  <2>2. \/ buf' = buf
        \/ \E e \in Elem : PutElem(e) \/ DynamicPutElem(e)
        \/ PopElem
        \/ \E k \in 0..MaxCapacityLog2 : MakeBuf(k) \/ ResizeBuf(k)
        \/ IncreaseSize
    BY <1>2 DEF Next, vars, DestroyBuf, Alloc, CallerFree
  <2>3. ~PopElem /\ \A k \in 0..MaxCapacityLog2 : ~MakeBuf(k)
    BY <1>2 DEF PopElem, MakeBuf
  <2>4. ASSUME IncreaseSize \/ \E k \in 0..MaxCapacityLog2 : ResizeBuf(k) PROVE FALSE
    BY <1>2, <2>4 DEF IncreaseSize, ResizeBuf
  <2>5. QED
    BY <2>1, <2>2, <2>3, <2>4
<1>3. TypeOK /\ [Next]_vars => [A]_vars
  BY <1>1, <1>2
<1>4. QED
  BY <1>3, TypeCorrect, PTL DEF Spec, FrontIsLastPut

(* circbuf_destroy never frees an element that was popped before. *)
THEOREM TakenStays ==
  ASSUME MaxCapacityLog2 < IntBits - 1
  PROVE  Spec => NeverFreesTaken
<1>1. ASSUME IInv, [Next]_vars, NEW e \in Elem, owner[e] = "caller", owner'[e] = "free"
      PROVE  live' = live
  <2>1. [Queue!Next]_(Queue!vars)
    BY <1>1, NextStep DEF IInv
  <2>2. CASE Queue!Destroy
    <3>1. DOMAIN held = 1..Len(held)
      BY <1>1, HeldFacts, LenProperties DEF IInv
    <3>2. QED
      BY <1>1, <2>2, <3>1 DEF Queue!Destroy, IInv, OwnedOnce
  <2>3. CASE ~Queue!Destroy /\ Queue!Next
    BY <1>1, <2>3 DEF Queue!Next, Queue!Make, Queue!Put, Queue!PopBack, Queue!Resize,
                      Queue!Alloc, Queue!CallerFree
  <2>4. CASE UNCHANGED Queue!vars
    BY <2>4 DEF Queue!vars
  <2>5. QED
    BY <2>1, <2>2, <2>3, <2>4
<1>2. IInv /\ [Next]_vars =>
        [\A e \in Elem : owner[e] = "caller" /\ owner'[e] = "free" => live' = live]_vars
  BY <1>1
<1>3. QED
  BY <1>2, Invariance, PTL DEF Spec, NeverFreesTaken
=============================================================================
