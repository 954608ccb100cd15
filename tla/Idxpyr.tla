------------------------------- MODULE Idxpyr -------------------------------
(***************************************************************************)
(* One idxpyr_t in the hands of a caller that keeps idxpyr.h's rules.  A   *)
(* call whose assertion fails ends the program, so an assertion is a guard *)
(* here.  The allocation never fails, and idxpyr_make does not test that.  *)
(***************************************************************************)
EXTENDS IdxpyrOps

CONSTANTS
  MakeSizes,   \* the indexCountLog2 that idxpyr_make is called with
  MaxLog2,     \* bound on indexCountLog2
  Touched      \* the indices that idxpyr_set is called with

ASSUME IdxpyrAssumption ==
  /\ MaxLog2 \in BlockLog2..IDXPYR_MAX_INDEX_COUNT_LOG2   \* getHeight's assertion
  /\ MakeSizes \subseteq 0..MaxLog2
  /\ Touched \subseteq Nat

VARIABLES
  pyr,   \* the idxpyr_t
  live   \* pyr.rows[0] points to allocated storage

vars == <<pyr, live>>

(* idxpyr_destroy sets every row pointer to NULL. *)
NoRows == [i \in {} |-> {}]

Init ==
  /\ pyr = [Make(0, FALSE) EXCEPT !.rows = NoRows]
  /\ live = FALSE

-----------------------------------------------------------------------------
MakePyr(n, state) ==
  /\ ~live
  /\ pyr' = Make(n, state)
  /\ live' = TRUE

SetIndex(index, state) ==
  /\ live
  /\ index < Shl1[pyr.indexCountLog2]   \* INDEX_EXISTS
  /\ pyr' = Set(pyr, index, state)
  /\ UNCHANGED live

SetAllTo(state) ==
  /\ live
  /\ pyr' = SetAll(pyr, state)
  /\ UNCHANGED live

PopFirstIndex ==
  /\ live
  /\ pyr' = PopFirst(pyr)
  /\ UNCHANGED live

IncreaseSizePyr ==
  /\ live
  /\ pyr.indexCountLog2 < MaxLog2
  /\ pyr' = IncreaseSize(pyr)
  /\ UNCHANGED live

DestroyPyr ==
  /\ live
  /\ pyr' = [pyr EXCEPT !.rows = NoRows]
  /\ live' = FALSE

Next ==
  \/ \E n \in MakeSizes, state \in BOOLEAN : MakePyr(n, state)
  \/ \E index \in Touched, state \in BOOLEAN : SetIndex(index, state)
  \/ \E state \in BOOLEAN : SetAllTo(state)
  \/ PopFirstIndex
  \/ IncreaseSizePyr
  \/ DestroyPyr

Spec == Init /\ [][Next]_vars

-----------------------------------------------------------------------------
Indices == 0..(Shl1[pyr.indexCountLog2] - 1)
Members == {index \in Indices : Get(pyr, index)}

(***************************************************************************)
(* Type invariant.  The height is what the test idxpyr_getHeight says: as  *)
(* many rows as it takes for one block at the top to cover every index.    *)
(***************************************************************************)
TypeOK ==
  /\ live \in BOOLEAN
  /\ pyr.stateInit \in BOOLEAN
  /\ pyr.indexCountLog2 \in BlockLog2..MaxLog2
  /\ pyr.height \in Nat \ {0}
  /\ Shl1[(pyr.height - 1) * BlockLog2] < Shl1[pyr.indexCountLog2]
  /\ Shl1[pyr.indexCountLog2] <= Shl1[pyr.height * BlockLog2]
  /\ live => /\ DOMAIN pyr.rows = 0..(pyr.height - 1)
             /\ \A i \in DOMAIN pyr.rows :
                  pyr.rows[i] \in
                    [{BlockIndex(i, index) : index \in Indices} -> SUBSET AllBits]

(***************************************************************************)
(* The rows share one allocation: none reaches into the next, and the last *)
(* block idxpyr_set can write is the allocation's last (idxpyr_make).      *)
(***************************************************************************)
RowsFit ==
  \A i \in 0..(pyr.height - 1) :
    pyr.offset[i] + BlockIndex(i, Shl1[pyr.indexCountLog2] - 1) + 1 =
      IF i = pyr.height - 1 THEN pyr.storeSize ELSE pyr.offset[i + 1]

(***************************************************************************)
(* A bit above row 0 says that there is a block below it and that it is    *)
(* not empty, and every block that is not empty has its bit: after any mix *)
(* of set, setAll, popFirst and increaseSize, even when one of them grew   *)
(* the pyramid by a row.                                                   *)
(***************************************************************************)
RowsSummarise ==
  live => \A i \in 1..(pyr.height - 1) :
            \A j \in DOMAIN pyr.rows[i] :
              pyr.rows[i][j] =
                {b \in AllBits : /\ j * BlockBits + b \in DOMAIN pyr.rows[i - 1]
                                 /\ pyr.rows[i - 1][j * BlockBits + b] # {}}

(***************************************************************************)
(* idxpyr_getFirst returns the least index whose state is true, and        *)
(* IDXPYR_EMPTY when there is none.                                        *)
(***************************************************************************)
FirstIsLeast ==
  live => LET first == GetFirst(pyr)
          IN  IF Members = {} THEN first = IDXPYR_EMPTY
              ELSE first \in Members /\ \A index \in Members : first <= index

(***************************************************************************)
(* The assertion of getHeight admits every indexCountLog2 up to            *)
(* IDXPYR_MAX_INDEX_COUNT_LOG2, so rows[IDXPYR_MAX_HEIGHT] should have a   *)
(* place for the pointer to each row of such a pyramid.                    *)
(***************************************************************************)
HeightFits == pyr.height <= IDXPYR_MAX_HEIGHT

-----------------------------------------------------------------------------
Abstract == INSTANCE IndexSet WITH
  set   <- IF live THEN Members ELSE {},
  size  <- IF live THEN Shl1[pyr.indexCountLog2] ELSE 0,
  init  <- live /\ pyr.stateInit,
  Index <- Touched,
  Sizes <- {Shl1[n] : n \in BlockLog2..MaxLog2}

(* Refinement: the pyramid is a set of indices with its least at hand. *)
IndexSetSpec == Abstract!Spec
=============================================================================
