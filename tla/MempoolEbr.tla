----------------------------- MODULE MempoolEbr -----------------------------
(***************************************************************************)
(* mempoolEbr.c: a pool whose elements are addressed by ids.  An id is an  *)
(* index of the pyramid freeIds; locationLut maps it to a location, which  *)
(* names a cluster and an element in it.  The file calls idxpyr_make and   *)
(* idxpyr_increaseSize the way an older idxpyr.h declared them; here they  *)
(* are today's, with the initial state true that the second call passes.   *)
(* A call whose assertion fails ends the program, so an assertion is a     *)
(* guard.  What is in the elements is not kept, nor the id that mp_alloc   *)
(* copies behind each one, which nothing reads.                            *)
(* The clusters are those of Clusters: mp_init, mp_alloc and mp_destroy    *)
(* are its steps InitPool, Take and DestroyPool together with what they do *)
(* to the ids.                                                             *)
(***************************************************************************)
EXTENDS Clusters, BitOps

CONSTANTS
  BlockLog2,   \* UM_BIT_COUNT_LOG2(idxpyr_block_t): 4
  Settings,    \* the mp_poolSettings_t that mp_init is called with
  AskedIds     \* the ids that the caller asks for

sizeofId == IdBits \div 8

ASSUME MempoolAssumption ==
  /\ SizeBits = WordBits
  /\ BlockLog2 \in Nat \ {0}
  /\ BlockLog2 <= IdBits             \* the first ids, and their locations, fit
  /\ BlockLog2 + 1 < SizeBits        \* getHeight's assertion in idxpyr_increaseSize
  /\ AskedIds \subseteq 0..(Shl1[IdBits] - 1)

(* 1 << elementIndexBitCount stays inside an int, clusterSize in a size_t. *)
ASSUME PoolSettingsAssumption ==
  /\ Settings \subseteq [elementSize : Nat, elementsPerCluster : Nat,
                         freeClusterCountMax : 0..MaxFreeClusters]
  /\ \A s \in Settings :
       /\ s.elementsPerCluster <= Shl1[IntBits - 2]
       /\ (s.elementSize + sizeofId) * (2 * s.elementsPerCluster) <= Shl1[SizeBits]
  /\ ElementsPerCluster = {Shl1[k] : k \in 0..(IntBits - 2)}

VARIABLES
  freeIds,      \* the idxpyr_t of the mp_pool_t
  locationLut,  \* its kvec_t(mp_id_t): n, m and a
  elementSize,  \* its elementSize
  held,         \* the ids mp_alloc has returned and mp_free has not taken back
  errno

idVars == <<freeIds, locationLut, elementSize, held>>
poolVars == <<vars, idVars>>
mempoolVars == <<poolVars, errno>>

Ids == INSTANCE IdxpyrOps
Vec == INSTANCE KvecOps

NoId == Shl1[IdBits] - 1   \* (mp_id_t) -1
NoIds == Ids!Make(0, FALSE)

MempoolInit ==
  /\ Init
  /\ freeIds = NoIds /\ locationLut = Vec!KvInit
  /\ elementSize = 0
  /\ held = {} /\ errno = "0"

-----------------------------------------------------------------------------
(* testInitSettingsArg *)
SettingsError(s) ==
  CASE s.elementSize = 0 -> "MP_ERROR_ELEMENT_SIZE"
    [] s.elementSize # 0 /\ s.elementsPerCluster = 0 -> "MP_ERROR_ELEMENTS_PER_CLUSTER"
    [] OTHER -> "0"

AskedElementsPerCluster(s) == s.elementsPerCluster             \* mutant
EnvelopedElementsPerCluster(s) == IntShl1(Log2Envelope(s.elementsPerCluster))

(* _idExists *)
IdExistsByRoom(id) ==                                          \* mutant
  id < locationLut.m /\ locationLut.a[id] # NoId
IdExists(id) == id < locationLut.n /\ locationLut.a[id] # NoId

(* getElementStore: the product binds tighter than the mask. *)
ElementStoreOffsetUnmasked(location, elementsPerCluster, size) ==   \* mutant
  location * (size + sizeofId)
ElementStoreOffset(location, elementsPerCluster, size) ==
  And(location, (elementsPerCluster - 1) * (size + sizeofId), WordBits)
ElementStore(p, location) ==
  <<p.clusterLut[location \div p.elementsPerCluster],
    ElementStoreOffset(location, p.elementsPerCluster, elementSize)>>

-----------------------------------------------------------------------------
MpInitFails(s) ==
  /\ ~live
  /\ SettingsError(s) # "0"
  /\ errno' = SettingsError(s)
  /\ UNCHANGED poolVars

MpInit(s) ==
  /\ SettingsError(s) = "0"
  /\ InitPool(EnvelopedElementsPerCluster(s), s.freeClusterCountMax)
  /\ locationLut' = Vec!KvResize(Vec!KvInit, Ids!BlockBits)
  /\ freeIds' = Ids!Set(Ids!SetAll(Ids!Make(BlockLog2, TRUE), TRUE), 0, FALSE)
  /\ elementSize' = s.elementSize
  /\ held' = {}
  /\ UNCHANGED errno

(***************************************************************************)
(* mp_alloc.  An id beyond the table is not handed out: what the code does *)
(* then, writing past the table, is undefined.                             *)
(***************************************************************************)
MpAlloc ==
  LET popped == Ids!GetFirst(freeIds)
      empty  == popped = Ids!IDXPYR_EMPTY
      newId  == locationLut.n
      id     == IF empty THEN newId % Shl1[IdBits] ELSE popped
  IN  /\ IF empty THEN id = newId ELSE id < locationLut.m
      /\ \E fresh \in FreshClusters :
           LET location == NextLocation(pool, fresh)
           IN  /\ TakeWith(fresh)
               /\ locationLut' = IF empty THEN Vec!KvPush(locationLut, location)
                                 ELSE [locationLut EXCEPT !.a[id] = location]
      /\ freeIds' = IF empty THEN Ids!Set(Ids!IncreaseSize(freeIds), newId, FALSE)
                    ELSE Ids!PopFirst(freeIds)
      /\ held' = held \cup {id}
      /\ UNCHANGED <<elementSize, errno>>

(* mp_free: the id leaves the table; its bit is cleared, as if it were taken. *)
MpFree(id) ==
  /\ live
  /\ id # 0
  /\ IF IdExists(id)
       THEN /\ freeIds' = Ids!Set(freeIds, id, FALSE)
            /\ locationLut' = [locationLut EXCEPT !.a[id] = NoId]
            /\ held' = held \ {id}
            /\ UNCHANGED <<vars, elementSize, errno>>
       ELSE errno' = "MP_ERROR_INVALID_ID" /\ UNCHANGED poolVars

(* mp_get, mp_getPtr and mp_set: contents of elements are not kept. *)
MpAccess(id) ==
  /\ live
  /\ id # 0
  /\ errno' = IF IdExists(id) THEN errno ELSE "MP_ERROR_INVALID_ID"
  /\ UNCHANGED poolVars

MpDestroy ==
  /\ DestroyPool
  /\ freeIds' = NoIds /\ locationLut' = Vec!KvInit
  /\ elementSize' = 0 /\ held' = {}
  /\ UNCHANGED errno

MempoolNext ==
  \/ \E s \in Settings : MpInitFails(s) \/ MpInit(s)
  \/ MpAlloc
  \/ \E id \in AskedIds : MpFree(id) \/ MpAccess(id)
  \/ MpDestroy

MempoolSpec == MempoolInit /\ [][MempoolNext]_mempoolVars

-----------------------------------------------------------------------------
(* Type invariant: the kvec, and the power of two mp_init promises itself. *)
MempoolTypeOK ==
  /\ locationLut.n <= locationLut.m
  /\ DOMAIN locationLut.a = 0..(locationLut.m - 1)
  /\ live => pool.elementsPerCluster \in {Shl1[k] : k \in 0..(IntBits - 2)}
  /\ held \subseteq 0..NoId

(***************************************************************************)
(* Two ids never share a location: the table sends the ids that are held   *)
(* to different locations, each in a cluster that is allocated, whether    *)
(* the id came from the pyramid or from the end of the table (mp_alloc).   *)
(* Their elements may share bytes all the same: see StoresDistinct.        *)
(***************************************************************************)
LocationsOfIdsDistinct ==
  /\ \A i, j \in held : locationLut.a[i] = locationLut.a[j] => i = j
  /\ \A i \in held : locationLut.a[i] \div pool.elementsPerCluster
                       \in Indices(pool.allocated)

(***************************************************************************)
(* mp_alloc never returns an id that is held, for which the pyramid, the   *)
(* table and the pyramid's growth have to agree (mp_alloc).                *)
(***************************************************************************)
AllocReturnsNewId ==
  [][live /\ live' /\ pool' # pool => held' # held]_mempoolVars

(***************************************************************************)
(* An element and its id lie within their cluster (getElementStore: so it  *)
(* is, although its mask and its product bind the wrong way round), which  *)
(* is not to say that no other element lies there.                         *)
(***************************************************************************)
StoreInCluster ==
  \A id \in held :
    ElementStore(pool, locationLut.a[id])[2] + elementSize + sizeofId <=
      (elementSize + sizeofId) * pool.elementsPerCluster

(***************************************************************************)
(* The settings of mempoolEbr.h give a cluster elementsPerCluster elements *)
(* of elementSize, and mp_init's clusterSize has room for as many: no two  *)
(* ids have their element at the same place, then.  Not so, as the mask in *)
(* getElementStore takes bits out of the product and not of the location.  *)
(***************************************************************************)
StoresDistinct ==
  \A i, j \in held :
    ElementStore(pool, locationLut.a[i]) = ElementStore(pool, locationLut.a[j]) => i = j

(***************************************************************************)
(* _idExists asks for ids below the table's size, which is 0 until the     *)
(* pyramid is empty and then 1: it denies every id that mp_alloc returns,  *)
(* but for 0, so mp_free, mp_get and mp_set refuse them all and no id is   *)
(* ever given back.  (The unit test mp_allocatedIdExists asserts that such *)
(* an id exists.)                                                          *)
(***************************************************************************)
HeldDenied == \A id \in held : id = 0 \/ ~IdExists(id)

(***************************************************************************)
(* Ids are handed out in order, from 1 on, as a unit test of mp_alloc has  *)
(* it, and the one after the last of the pyramid's first block is 0, of    *)
(* which mempoolEbr.h says that it "is invalid and won't be returned"      *)
(* (mp_alloc, where the pyramid is empty; nothing is pushed for id 0).     *)
(***************************************************************************)
IdsInOrder ==
  \A id \in held : 1..(IF id = 0 THEN Ids!BlockBits - 1 ELSE id) \subseteq held
=============================================================================
