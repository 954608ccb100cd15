# utilc in TLA+

TLA+ modules, TLC configurations and TLAPS proofs for
[utilc](../src), a small C library of containers: a ring buffer of pointers
(`circbuf`), a bitmap pyramid that finds the least free index (`idxpyr`), an
element pool built from both (`mempoolEbr`), and the growable array and the hash
table it carries along (`kvec.h`, `khash.h`).

## The system

Nothing in the library runs concurrently, nothing is persisted and nothing is
received or sent: every function runs to its end on a structure its caller owns.
What is hard about it is therefore long sequences of legal calls (a window that
wraps, is resized and wraps again), summaries that must stay in step with what
they summarise, memory whose owner changes with a call, and arithmetic at the
limits of C's types. There are no timeouts, retries or messages. The one place where
it is a question whether something ever happens is `kh_resize`: its nested loops have no
counter, and end only if a probe meets an empty bucket and evictions come to an end.

| Part | State | Operations | What makes it correct |
| --- | --- | --- | --- |
| `circbuf.c/.h` | storage `a`, window `start`/`length`, `capacityLog2`, `rotationMask` | make, put, dynamicPut, popBack, increaseSize, resize, destroy; macros FULL, NEXT, FRONT_INDEX | a first-in first-out queue; every element it holds is freed once, none it gave back; the window fits the storage |
| `idxpyr.c/.h` | rows of bit blocks in one allocation, `indexCountLog2`, `height`, `stateInit` | make, getFirst, popFirst, get, set, setAll, increaseSize, destroy | a set of indices; each row summarises the one below; getFirst is the least member; rows neither overlap nor outgrow the pointer array |
| `mempoolEbr.c/.h` | id to location table and cluster table (kvec), free ids (idxpyr), allocated and unallocated cluster indices (two circbufs), free clusters (kvec), front element index | mp_init, mp_alloc, mp_free, mp_idExists, mp_get, mp_getPtr, mp_set, mp_destroy | an allocated id exists until it is freed; two ids never share a location, nor the bytes of an element; cluster indices are in one of the two queues |
| bit tricks in `mempoolEbr.c`, `idxpyr.c` | none | findLastSet, multipleBits, log2Envelope, countTrailingZeros | agree with their definition |
| `kvec.h` (klib) | `n`, `m`, `a` | init, resize, copy, push, pushp, staticPush, pop, a, full, empty, destroy | arrays of their own that keep their elements; sizes within capacities |
| `khash.h` (klib) | buckets of keys and values, two flag bits each, counters | put, get, del, clear, resize, destroy, foreach; hash functions | a map; every probe and every rehash ends; a loop visits every element once; included by `notification.c`, instantiated nowhere |
| `notification.c/.h` | none | a stub | nothing to state |

Interaction is by direct calls only. The pool calls the two containers and reads
`circbuf`'s fields and its `CIRCBUF_FRONT_INDEX`. The caller of `circbuf_put` hands
over the ownership of an allocated element, `circbuf_popBack` hands it back, and
`circbuf_destroy` frees what is left.

## Modules

| Module | What it is |
| --- | --- |
| `Powers` | the powers of two, `(size_t) 1 << k` |
| `Shift` | the int `1 << k`, with the widths of int and size_t |
| `Fifo` | abstract: a queue of owned elements with a capacity |
| `CircbufOps` | `circbuf_t` as a record, the functions as operators on it |
| `Circbuf` | the state machine: one buffer, its caller, the owner of each element |
| `MCCircbuf` | for TLC: the symmetry of the elements |
| `NatProofs` | proofs: least elements, induction and recursion on Nat, division, powers of two |
| `CircbufProofs` | proofs: what each function does to the sequence a buffer holds, the invariants, the ownership of elements, the refinement of `Fifo` |
| `IndexSet` | abstract: a set of indices with its least at hand |
| `IdxpyrOps` | `idxpyr_t` as a record, the functions as operators on it |
| `Idxpyr` | the state machine: one pyramid and its caller |
| `MCIdxpyr` | for TLC: sizes and indices |
| `IdxpyrProofs` | proofs: the rows, what each function does to the set, the invariants, the refinement of `IndexSet` |
| `Bits` | the bits of a word, and C's `&`, `\|` and `^` |
| `BitOps` | the bit tricks of `mempoolEbr.c` and `idxpyr.c` on words of a given width |
| `KhashFlags` | the flag macros of `khash.h` on words of two bits for each bucket |
| `KhashHash` | the string hash and the integer hash of `khash.h` |
| `MCBitOps` | for TLC: every word in turn, and the definitions these three are compared with |
| `BitOpsProofs` | proofs: `Combine` bit by bit, the bit tricks, the flags, the hashes |
| `Vector` | abstract: growable arrays as sequences |
| `KvecOps` | `kvec_t` as a record, the macros as operators on it |
| `Kvec` | the state machine: some arrays and their caller |
| `MCKvec` | for TLC: the symmetry of the arrays and of the values |
| `KvecProofs` | proofs: what `kv_roundup32` returns and each macro does, `TypeOK`, the refinement of `Vector` |
| `ClusterQueue` | abstract: clusters in the order they are filled, and spare ones |
| `ClusterOps` | the cluster part of `mp_pool_t` as a record, the private functions on it, with the cut to `mp_id_t` |
| `Clusters` | the state machine: clusters filled, removed, kept spare, reused |
| `MCClusters` | for TLC: symmetry of the clusters, a view without stale table entries |
| `ClustersProofs` | proofs: what each function does to the rings and the clusters, the invariants, the refinement of `ClusterQueue` |
| `MempoolEbr` | the state machine: the pool and its public functions, composed of `Clusters` and the ids, over `IdxpyrOps`, `KvecOps`, `BitOps` |
| `MCMempoolEbr` | for TLC: settings and ids asked for |
| `MempoolEbrProofs` | proofs: that the pool implements `Clusters`, the order in which ids come, the invariants |
| `KeyedStore` | abstract: a map from keys to values, with each step labelled as the call it is |
| `KhashOps` | `kh_name_t` as a record, the functions as operators on it |
| `Khash` | the state machine: one table and its caller, memory that may run out |
| `KhashForeach` | the state machine with loops: `kh_foreach` and the code it runs |
| `MCKhash` | for TLC: colliding hashes, a view without leftovers |
| `KhashSteps` | the state machine with `kh_resize` one bucket or one probe at a time; implements `Khash` |
| `MCKhashSteps` | for TLC: the same hashes, a view without leftovers |
| `KhashProofs` | proofs: probing, what each function does to the map, the invariants, the refinement of `KeyedStore`; `kh_foreach`, the loops of `kh_resize`, their refinement of `Khash` |

An operator or action has the name of the function it models, without its prefix
(`circbuf_popBack` is `PopBack`, and the action that calls it `PopElem`). An
assertion of the code is a guard: where it fails the program ends. Operators
marked `mutant` are deliberate errors, each there to show that a property notices it.

**circbuf.** `buf` is the structure field by field; storage is a function from
indices to pointers, zeroed by `circbuf_make`. `live` says that `buf.a` points to
storage, and `owner` says, for every element, whether its memory is free, the
caller's or the buffer's. `Alloc` and `CallerFree` are the caller's malloc and free;
the caller puts only what it owns. `Contents` is what iterating with `CIRCBUF_NEXT`
yields. `Resize` copies the window in the two pieces of the code. The int in
`CIRCBUF_FULL` and `circbuf_resize` is `IntShl1`, in the width `IntBits`.

**idxpyr.** A block is the set of the positions of its bits, a row a function from
block numbers to blocks; `offset` and `storeSize` keep the layout of the rows in the one
allocation, so that `RowsFit` can say the rows do not share a block, which is what
lets the model keep them apart. `Set` is the loop of `idxpyr_set` in closed form: the
bit on row i is set when the state is true or any block further down the way has a
bit besides the one on the way. `IncreaseSize` is the copying and merging of
`idxpyr_increaseSize`. After `idxpyr_destroy` there are no rows.

**clusters.** `pool` holds the fields of `mp_pool_t` that say where elements are stored:
`allocated` and `unallocated` are circbufs (of indices instead of pointers, as in the
code, which casts them), `clusterLut` and `freeClusters` the kvecs. `heap` is what
malloc has handed out and `used` the locations taken, both for the properties. `Take`
is `takeNextLocation` with all it calls: a new front cluster from the spare ones or
malloc, and more indices when all are in use. `RemoveBack` is `removeBackCluster`, which
only a unit test calls so far; its assertion, that there is an allocated cluster, is the guard. The
only cluster may be removed too, which is the one being filled: `takeNextLocation` then goes on to fill
it, with the index left in the ring's first slot (`FrontClusterIndex`). A location taken so is in no allocated
cluster and not entered in `used`; `FrontIsEndOfAllocated` is about it.

**mempoolEbr.** `MempoolEbr` extends `Clusters` and puts the ids beside it: `mp_init`, `mp_alloc` and
`mp_destroy` are the steps `InitPool`, `TakeWith` and `DestroyPool` of the clusters conjoined with
what these functions do to `freeIds`, the pyramid, and `locationLut`, the
kvec `n`, `m`, `a`, handled by `KvecOps`; the others leave the clusters alone. `held` (the ids handed out) serves the properties. The id that `mp_alloc` copies
behind each element is left out: nothing reads it. The header calls the file broken and on hold: it is not
in the Makefile's `SRC` and calls `idxpyr_make` and `idxpyr_increaseSize` with the arguments
of an older `idxpyr.h`. The model maps those to today's with an initial state of true,
which is what the older calls meant. `id < locationLut.m` in `MpAlloc` cuts off what
follows once the pyramid has outgrown the table, a write past its end. In
`getElementStore` `&` binds more loosely than `*`, so the offset is not the product the
names suggest; `ElementStore` does what the code does. The places stay inside the cluster
(`StoreInCluster`), but two locations may have the same one (`StoresDistinct`, violated).

**kvec.** `vec` is, for each name, the structure field by field; storage is a function from
indices, and an entry nothing was written to holds `NULL`. The caller keeps the rules
that the macros do not test: no pop from an empty array, no static push to a full one, no
reservation below the size, no copy onto itself. `kv_pushp` leaves its element for later;
`AssignAt` is `kv_a(type, v, i) = x`, which may skip entries; in `Vector` those hold anything.

**bit tricks.** Words are natural numbers of `2^WordLog2` bits, shifts are divisions, the
two's complement is written out. `And`, `Or` and `Xor` are one recursive function, `Combine`, with
the table of the operator (the community module's are RECURSIVE, and nothing could be proved
of them). The search by halving is a recursive function of the round.
`MempoolEbr` uses `Log2Envelope` from here; `IdxpyrOps` keeps blocks as sets of bits and
uses what `MCBitOps.cfg` shows `countTrailingZeros` to return.

**khash.** `h` is the structure field by field; the two flag bits of a bucket are one of
`"empty"`, `"deleted"`, `"live"`. `Probe` is the closed form of the lengthening step, and
`LastStep` where the loop of `kh_get` and `kh_put` ends. `Resize` is the rehash in place:
`MoveEach` is the loop over the old buckets and `Move` its body, `KickOuts` the loop that
evicts and `KickOut` one round of it. `PutVal` is
`kh_put` and the assignment of the value that follows it in the header's example.
`PutWithoutMemory` and `ResizeWithoutMemory` are the calls that return -1, with `keysMoved`
saying whether the keys had been enlarged already. `khint_t` has the width `KhintBits`, in which
`RoundUp` wraps as `kroundup32` does. `call` is a label for the last call that no step reads: `KeyedStore` has a step of its own
for each label, so that a put gives its own key its own value, and a call that fails changes nothing. A table without values
(`kh_is_map` 0) is one with a single value, less the realloc of the values.

`KhashForeach` adds `kh_foreach`: `iter` is its `__i`, and one step of `ForeachVisit` is a
visit with the code run for it, which may delete any bucket and put any key as long as the
put does not rehash (`PutStays`): with a rehash elements would move across `iter`, which
`PutRehashes`, the mutant, shows. `due` and `done` serve the property. `kh_foreach_value` is the same
loop without the key.

`KhashSteps` takes `kh_resize` apart. `pc` is `"scan"` in the loop over the old buckets and
`"probe"` in the kick-out loop; `hand` is `key` and `val`, `newFlags` is `new_flags`. `Begin` is
the call up to the loop, memory included, and `Finish` what follows the loop, with the
rest of `kh_put` when that was the caller. `before` is the table as it was when the call began:
it stands for the table in the mapping to `Khash` until the call returns.

`KhashFlags` and `KhashHash` are what `KhashOps` abstracts from: the bits behind
`"empty"`, `"deleted"`, `"live"`, and `Hash`, which may be any function there. A text is a sequence of
characters that are words already, with a terminator in it and anything after it.

## Runs

| Run | Checks | Bounds |
| --- | --- | --- |
| `MCCircbuf.cfg` | `TypeOK`, `OwnedOnce`, `FrontIsLastPut`, `NeverFreesTaken`, `FifoSpec` | 5 elements, capacities 1, 2, 4 |
| `MCCircbufWide.cfg` | `StorageHoldsWindow`, violated | a 3-bit int, capacities 1, 2, 4 |
| `MCIdxpyr.cfg` | `TypeOK`, `RowsFit`, `RowsSummarise`, `FirstIsLeast`, `IndexSetSpec` | 8-bit blocks, 8 to 128 indices |
| `MCIdxpyrHeight.cfg` | `HeightFits`, violated | 8-bit blocks, an 8-bit `size_t` |
| `MCBitOps.cfg` | `LastSetIsHighest`, `TrailingZerosIsLowest`, `EnvelopeIsLeast`, `FlagsAreStates`, `HashIsPolynomial`, `EveryHashOccurs` | all 16-bit words; all 17-bit words for the hashes |
| `MCClusters.cfg` | `TypeOK`, `IndicesPartition`, `ClustersOwnedOnce`, `LocationsDistinct`, `ClusterQueueSpec` | 5 clusters of 1 or 2 elements, at most 2 spare, 3-bit ids |
| `MCClustersEmpty.cfg` | `FrontIsEndOfAllocated`, violated | the same |
| `MCMempoolEbr.cfg` | `MempoolTypeOK`, `LocationsOfIdsDistinct`, `StoreInCluster`, `HeldDenied`, `IdsInOrder`, `AllocReturnsNewId` | 4 clusters of 2 to 8 elements, the code's 16-bit ids and blocks |
| `MCMempoolEbrStores.cfg` | `StoresDistinct`, violated | the same |
| `MCKhash.cfg` | `TypeOK`, `LiveIsFound`, `CountsRight`, `ProbeEnds`, `RehashKeepsMap`, `VisitedOnce`, `KeyedStoreSpec` | 4 keys, 2 values, 4 or 8 buckets, an 8-bit `khint_t` |
| `MCKhashSteps.cfg` | `NothingLost`, `Returns`, `KhashSpec` | the same |
| `MCKvec.cfg` | `TypeOK`, `VectorSpec` | 2 arrays of up to 3 elements, 2 values |

*circbuf.* Five elements and at most four slots: every window of every capacity
occurs, wrapped and not, with one element more than fits, so that dynamicPut resizes,
and resizes up and down happen from every window. Elements are interchangeable in code
and properties, so they are a symmetry set. Widths of 8 bits are out of the way of
capacities of 2 bits.

*idxpyr.* 8-bit blocks (the uint8_t that the unit tests also try) give pyramids of one,
two and three rows at 3 to 7 bits of index, among them full and partly filled top
blocks, growth with and without a new row. `Touched` holds indices on both sides of
the borders at 64 and 128 and the first index of the second block; popFirst reaches the
others. The caller starts from 8 or 32 indices (a request for 1 is rounded up to a
block) and grows from there; `MaxLog2` bounds the growth.

*bit tricks.* 16 bits are the width of `idxpyr_block_t`; the other widths differ by a
round more or less of the same loop. Flags are taken as two words of four buckets, in every
combination that some table has, and the memset for tables of half a word, one and two.
The hashes have 17 bits, so that the shift by 16 counts for something; the Wang hash is a
permutation because every word is the hash of some key. Texts have up to eight characters
of four kinds, two of them extreme, and the terminator in any place.

*clusters.* The table starts with four indices, so five clusters make it double, with
the ring of unallocated indices anywhere in its storage. No spare, one and two: reuse
with and without one left. Clusters of 1 and 2 elements have up to 8 and 16 locations in the
eight indices the table gets to: ids of 3 bits tell the first apart and not the second, which is why `LocationsDistinct` asks for
as many ids as the table has locations, and no longer holds of the larger clusters once the table has doubled.
In the code the 16 bits of `mp_id_t` are as tight for clusters of 2^14 elements; with 2^15 the four first
indices are too many, and `(mp_id_t) (2 << 15)` names index 0. The comment at `mempoolEbr.h:44` does
not hold there, and `testInitSettingsArg` has a FIXME for such settings and lets them through. `Take` and `InitPool` wait when malloc would have nothing
left, which bounds the run. Clusters are a symmetry set; the view drops table
entries of unallocated indices, which `addFrontCluster` overwrites before anything reads
them and which no property looks at.

*mempool.* mp_alloc runs through the first block of ids and over its end, where
id 0 comes; the settings include those that fail and those that are enveloped. As no
id exists that is allocated (`HeldDenied`), mp_free and mp_get always fail here. One element of one byte and clusters of four are
among the settings, for which two stores fall together.

*khash.* Three keys meet at bucket 3 of a table of four, so that one wraps around to a
lower bucket and evicts another when the table is rehashed; two of them meet again in
a table of eight, where deleted buckets pile up until a rehash of the same size drops
them. `MaxBuckets` keeps put from growing the table to 16. The view drops keys and
values in buckets that are not live, which put and the rehash write before they are read, and `call`.
A `khint_t` of 8 bits is out of the way
of 8 buckets, as `NoWrap` asks (see the proofs). Loops start from any table and use the same puts and deletions.

*khash, step by step.* The same tables: 4 to 4, 4 to 8, 8 to 8 and 8 to 4 buckets, asked for
or by a put, with evictions in chains. The view drops what is in buckets that neither an old
nor a new element is in, and `kh_resize`'s variables after it has returned: no step reads
either before it is written, so two states it takes for one have the same steps, and the
liveness property does not tell them apart.

*kvec.* Two arrays, of which one is copied to the other; sizes up to 3 see the capacities
0, 1, 2, 3 and 4, from doubling, from `kv_resize` and from rounding up, and an index at, below and
past the capacity. Arrays and values are symmetry sets; no liveness is checked there.

**Fairness.** Only `KhashSteps` states any: weak fairness of `RunResize`, the steps of a call of
`kh_resize` that has begun. The library is sequential code that waits for nothing, so a
function that is running runs on. The caller has no fairness: it may never call again,
and `Returns` asks only that a call that has begun comes back. No cfg turns deadlock checking off: some call is always possible.

## Disagreements with the code's own words

* `circbuf.h:28` says dynamicPut increases the size when no space is left, and
  `circbuf_make` admits a `capacityLog2` of up to 61. `CIRCBUF_FULL` compares the length
  with an int shift: from 31 on it is wrong, at 31 it is never true, and the put
  overwrites the oldest element. `circbuf_wide` shows it with a 3-bit int, where 2
  plays the part of 31. `StorageSuffices` proves that there is no other way.
* `getHeight` asserts that `indexCountLog2` is at most `IDXPYR_MAX_INDEX_COUNT_LOG2`, 63.
  `IDXPYR_MAX_HEIGHT` leaves out the `1 +` of `getHeight`: it is 15, and from 61 on a
  pyramid has 16 rows, so `idxpyr_make` writes past the array `rows`. The unit test
  `idxpyrMacro_maxHeight` repeats the macro's formula. `idxpyr_height` shows it at a
  smaller width.
* `mempoolEbr.c:226` says that the front index is the end of `allocatedClusterIndices`. The assertion of
  `removeBackCluster` (line 271) lets the only cluster go, and the next location is then taken from what
  is left in an empty ring. `clusters_empty` shows it. Only a unit test removes clusters so far.
* `mempoolEbr.c:238` masks the product instead of the location, so that with one-byte elements and four of them in a
  cluster locations 0 and 2 are one place, although `mp_init` makes the cluster large enough for
  `elementsPerCluster` of them (`mempoolEbr.h:29`). With elements of two bytes two in a cluster are enough: `mempool_stores`
  shows two ids in one place.

Three more are stated the other way round, by properties that hold and are proved for every pool:

* `mempoolEbr.c:419`, in `mp_allocatedIdExists`, asserts that the id mp_alloc has just
  returned exists. `_idExists` (line 210) compares it with `kv_size(locationLut)`, which is 0
  after mp_init: it does not. For the same reason line 371, which expects an id that was freed to come again, cannot hold. `HeldDenied` says so.
* `mempoolEbr.h:62` says that id 0 will not be returned. When the pyramid is empty,
  line 69 makes `kv_size(locationLut)` the id, and it is 0 the first time. `IdsInOrder` says when.
* `mempoolEbr.h:44` says that there is no need for more locations than ids. `LocationsDistinct` holds
  only while the table, which grows whenever all its indices are in use and never shrinks, has no more locations than that (see the
  bounds of the runs).

One shows in an assumption only. A hash table of 2^31 buckets cannot grow: the size that `kh_put` asks for wraps to 0
(`khash.h:249`) and becomes 4, and `kh_resize` takes the request for one that is too small, which is no error. When
all buckets are live the probe for one more key ends where it began, and kh_put returns another key's bucket,
although line 472 says "Iterator to the inserted element". `RoundUp` wraps so, and `NoWrap` keeps the theorems from it.

The storage of a ring buffer of 2^31 pointers takes 16 GiB, and a hash table of 2^31 buckets some
GiB as well, which today's machines have. No machine has the memory for a pyramid of 2^61 indices, but `idxpyr_make` writes
the row pointer before it allocates.

## Proofs

Every invariant and every refinement that a passing run checks is also proved, for all values of
the constants that satisfy the named assumptions. What remains with TLC is the one liveness
property, `Returns` of `KhashSteps`, and the runs that expect a violation.

| Module | Assumptions | Theorems |
| --- | --- | --- |
| `CircbufProofs` | `WidthAssumption`, `NullAssumption`, `MaxCapacityAssumption`; each theorem also: `MaxCapacityLog2 < IntBits - 1` (the finding says why) | `TypeOK`, `FrontIsLastPut`, `OwnedOnce`, `NeverFreesTaken`, `FifoSpec`, `StorageHoldsWindow` |
| `KvecProofs` | `KvecAssumption` | `TypeOK`, `VectorSpec` |
| `IdxpyrProofs` | `WidthAssumption`, `BlockAssumption`, `IdxpyrAssumption` | `TypeOK`, `RowsFit`, `RowsSummarise`, `FirstIsLeast`, `IndexSetSpec` |
| `ClustersProofs` | `WidthAssumption`, `ClusterAssumption`, `SettingsAssumption`, `CountAssumption` (`1 << capacityLog2` stays inside an int for tables of that many clusters) | `TypeOK`, `IndicesPartition`, `ClustersOwnedOnce`, `LocationsDistinct`, `ClusterQueueSpec` |
| `MempoolEbrProofs` | those of `ClustersProofs`, `WordAssumption`, `MempoolAssumption` (the widths of ids, blocks and words fit together as the code's do), `PoolSettingsAssumption` (the shift of `mp_init` stays inside an int, `clusterSize` in a `size_t`) | `MempoolTypeOK`, `LocationsOfIdsDistinct`, `StoreInCluster`, `HeldDenied`, `IdsInOrder`, `AllocReturnsNewId` |
| `BitOpsProofs` | `WordAssumption`, `FlagsAssumption`, `HashBitsAssumption`: words of any power of two of bits, any number of buckets in a word, hashes of any width | `LastSetIsHighest`, `TrailingZerosIsLowest`, `EnvelopeIsLeast`, `FlagsAreStates`, `HashIsPolynomial`, `EveryHashOccurs` |
| `KhashProofs` | `KhashAssumption`: any hash function; `MaxBuckets` at least 4; each theorem also: `NoWrap`, `khint_t` counts the sizes up to `MaxBuckets` and the next (2^30 buckets in the code; the last of the disagreements says why); for the last three also `HandAssumption`: "no element" is not an element | `TypeOK`, `LiveIsFound`, `CountsRight`, `ProbeEnds`, `RehashKeepsMap`, `KeyedStoreSpec`; `VisitedOnce`, `NothingLost`, `KhashSpec` |

*Induction and recursion.* The library's induction theorems take operators and are out of the
provers' reach. `NatProofs` has what replaces them: `SetInduction` for a set of numbers, from
`LeastElement`, and `RecursionExists` for a function defined from its predecessor's
value. The loops written as recursive functions (`KickOuts`, `MoveEach`, the one that enters
new indices in `ClusterOps`) are proved about in the same way: a function that lists
the states of the first n rounds exists, by extending it by one value, and what each round
keeps, all keep (`RunExists`, `RoundsExist`, `MovesExist`, `DynamicPutsExist`).

*circbuf.* The first part of `CircbufProofs` has one lemma per function (`MakeFacts`, `PutFacts`, `PopFacts`,
`ResizeFacts`, `DynamicPutFacts`, `FreedFacts`, `FrontFacts`): the function keeps
`IsBuffer` and does to `Contents` what its name says. `SlotFacts` and `WindowSlot` reduce the
masked additions to a case distinction; `ResizeFacts` compares the two copied pieces with it.
In the second part one step lemma per action shows that the action keeps `TypeOK` and is, through
the mapping, the action of `Fifo` (`NextStep`). `TypeOK` is inductive, hence
`TypeCorrect`, `StorageSuffices`, `FrontFollowsPuts` and `ImplementsFifo`. For `FrontFollowsPuts`, the front is the last
element of the sequence, where a put adds its element and which a pop and a resize leave in place (`FrontStep`); the put into an
empty window needs the masked index itself (`FirstPutStep`). `OwnedOnce` is not
inductive alone, `IInv == TypeOK /\ OwnedOnce` is. `OwnershipStep` is proved on the abstract
steps, where appending and taking the tail are all there is (`OwnsAppend`, `OwnsTail`):
`Ownership` and `TakenStays` follow.

*kvec.* `RoundUpFacts`: `RoundUp` exists and is no less than its argument, which is why
`kv_a` has room for its index. One lemma per macro (`ResizeFacts`, `ReadyFacts`,
`LongerFacts`, `WriteFacts`, `PushFacts`, `PopFacts`, `ReachFacts`, `CopyFacts`) then says
what it does to `Elements` and that it keeps `IsVec`, which carries the one fact that matters, n
at most m: with it the test of `kv_push` for equality is enough. One step lemma per action maps
it to the action of `Vector` (`kv_resize` to none, `kv_a` to one of two), and `UpdateStep` shows
that the other arrays stay. `TypeOK` is inductive as it stands.

*idxpyr.* `IInv` says of the pyramid that its height is that of its size (`Sized`), that each row ends
where the next begins (`Fits`), that the rows have the blocks that indices belong to
(`HasRows`) and that each bit above row 0 tells whether the block below it has a bit
(`Summarised`). The first two go on to hold when the pyramid has been destroyed, and
are what the layout rests on; `Summarised` needs `HasRows`, and neither `FirstIsLeast` nor
`IndexSetSpec` is inductive without both. `Shifted` names what `idxpyr_set` has left of an index on a
row; `OffsetFacts` adds the rows up. `SetFacts` proves the closed form of the loop from row to
row. `BiggerRowFacts` shows that a row of the new size agrees with the old one or has its initial state,
and `IncreaseFacts` puts the rows together, with the old top row merged into a new one. `MemberIsSeen` and
`BitHasMember` are the two directions of the summary, from an index up and from a bit down; with
them the descent of `idxpyr_getFirst` ends at the least index (`FirstFacts`). A `popFirst`
of an empty pyramid maps to no step of `IndexSet`.

*clusters.* `IInv` says that the windows of the two rings, one after the other, list the
indices of the table, each once (`Indexed`), and that the clusters in use, followed by
the spare ones, list what malloc has handed out (`Owned`). A partition into sets would not do: which cluster
is removed next depends on the order. `Indexed` also bounds the rings' capacities by twice the
table, and the table by twice the number of clusters (or four), which keeps the int shift of
`CIRCBUF_FULL` right: this is where `CountAssumption` is used. The lemmas on `Lists` (append, tail, join, a permutation of the parts)
carry each function from the lemma about the ring it calls to `Indexed` and `Owned`
(`TakeIndexFacts`, `AddFrontFacts`, `RemoveFacts`). Locations are proved separately:
while `mp_id_t` tells the locations of the table apart (`Fits`), `Located` gives the set of those taken in closed form (`Slots`),
with its cardinality, and `Take` adds one that was not in it. As the table never shrinks, what fits now has always
fitted (`FitsBefore`), and with no cluster in use no location is taken (`HasTaken`).

*khash.* `Triangle`, `ProbeDiffers` and `ProbeCovers` prove what the probe of `khash.h` relies on: the steps 1, 2, 3, ...
meet every bucket of a table whose size is a power of two, so a search ends within n steps at an
unused bucket if there is one, and `UpperFacts` says that the load limit leaves one.
`IInv` is `IsTable(h)`, with the size in the bounds: the arrays have room (`HasRoom`), every
element is on its key's path, with no bucket before it that was never used, and no key is there twice
(`Findable`), and the counters count (`Counted`). `LiveIsFound` alone is not inductive:
it says nothing of the deleted buckets that a path passes. TLC cannot evaluate
`IInv`, which admits all powers of two. `GetFacts` and `PutBucketFacts` follow a search,
`PutKeyFacts`, `DelFacts`, `ClearFacts`, `FailedResizeFacts` and `ResizeFacts` say what each function does to
`Content`, the set of elements, of which alone the abstract map depends (`SameMap`, `OneKeyChanges`).

The rehash has an invariant of its own, `Working`: the old buckets that still wait, the new ones that are
filled and the element in hand hold the table's elements, no bucket is both, and the filled ones
are on the paths of their keys in the new flags. `TakeUpFacts` and `PlaceFacts` show that the two things a
round does keep it. An eviction leaves one bucket less waiting, so `KickOuts`, which has as many rounds as
the table has elements, and one, ends with no element in hand (`KickOutsFacts`); when `MoveEach` has passed
all buckets none waits (`MoveEachFacts`).

*The loops of khash.* `ForeachInv` adds to `IInv` that what is due is in buckets from `iter` on and what is done in those
before it, as the code of the loop moves no element (`Stays`): `VisitsOnce`. `StepsInv` is `Working` for the
variables of `kh_resize`, with what the scan and the probe have passed so far (`Scanning`,
`Probing`); `LosesNothing` reads `NothingLost` off it. For `ImplementsKhash`, `OnCourse` says which state of
`MoveEach` or of `KickOuts` the variables agree with: `Course[j]` during the scan, some
`Chain[r]` during the probe. A probe that goes on changes neither, an eviction goes from r to r + 1
(`NextRound`), and the last round of one element is the next state of the course. At the end `RehashedIs`
says that the arrays are those that `Resize` computes, and the call, with the rest of the `kh_put` that made it, is one
step of `Khash`; all before are none. The `Same...` lemmas say that the
operators of the instance `Atomic` are those of `KhashOps`. So what is proved of `Khash` holds of the
loops whenever no call is running.

*bit tricks and hashes.* A word is proved about by its bits: `CombineEquation` shows that `Combine`, a
CHOOSE by its recursive definition, satisfies it; `CombineBits` and `SameBits` that the bits of `And`, `Or` and
`Xor` are what the operator's table says, and that they make the word. `val & ~(val - 1)` is the least bit because
a word and its negative agree up to it and differ above it (`NegativeCommon`, `LeastBitFacts`).
`Seeks` is the invariant of the search by halving: what is left of the word is not zero, fits the bits still to
be searched, and stands for the word shifted by `result`. `TrailingZerosFacts` reads the masks that the
least bit meets as the binary digits of its place (`OddRunsFacts`). For the flags, `PairFacts` and
`MacroBits` say which two bits a macro sets or clears, and `BucketChanges` that no other bucket's two bits are
among them.

`WangHashMixes`: each line of `__ac_Wang_hash` keeps different words different (`Mixes`). `key += key << s` and
`key += ~(key << s)` multiply by an odd number, up to a constant and the modulus, and a power of two that
divides a product divides the factor beside the odd one (`OddMultiple`, from `OddFactor`); `key ^= key >> s` is
undone from the top bit down (`XorRightMixes`). As there are as many hashes as words, each word
is one (`WangHashCovers`). For the string hash, `HashIsSum` follows the loop: after k characters
the hash, times 31 to the number of characters left, is congruent to the first k terms of the
polynomial. `WrapFacts` turns the congruence into equality.

*mempool.* `PoolStep`: each step of the pool is a step of `Clusters` or leaves the clusters alone (`SizeIsPower`:
the size that `mp_init` computes is one of those `Clusters` allows, from `EnvelopeFacts`). So the pool
implements `Clusters` (`PoolIsClusters`) and has its invariant `IInv`. Neither
`LocationsOfIdsDistinct` nor the claim of `AllocReturnsNewId` is inductive: whether two ids share a location depends on what the pyramid will hand out next, and on
how far the table is filled. `Numbered` says it all: as nothing is given back (`mp_free` takes no id 0, and refuses
every other that was handed out), ids come in the order 1, 2, ... and 0 last, the t-th gets location t - 1, the clusters'
indices are allocated in order and are at least one (`InOrder`, which `ClustersProofs` shows `Take` to keep), and what is in the pyramid are
exactly the ids to come (`IdsDivided`). `TakeNumbers` proves the clusters' part of `mp_alloc`, `PopId` and `GrowIds` the pyramid's, from the lemmas of
`IdxpyrProofs`; `AllocPopped` and `AllocPushed` are the two branches. Past the block of ids that the table has room for
the guard of `MpAlloc` ends the model, as the code leaves defined behaviour there. `StoreInCluster` needs of the mask
only that it is at most the product (`OffsetBelow`). `HeldIdsDenied` and `IdsComeInOrder` are read off
`Numbered`. The theorems describe the file as it is; with the FIXMEs
in it settled, `Numbered` is what would have to change first.

*Only model-checked.* `Returns`, the one liveness property: liveness under fairness is out of the provers' reach
(that there are finitely many rounds is `KickOutsFacts`). The runs that expect a violation.

## Not modelled

* Failing allocations in `circbuf`, `idxpyr` and `mempoolEbr`: the code does not test for
  them, and what follows is undefined. The same goes for `realloc` in `kh_resize` when the
  table shrinks, for `kh_init`, and for every `realloc` of `kvec.h`.
* The contents of the pool's elements; `mp_get`, `mp_getPtr` and `mp_set` are modelled by
  whether they find the id.
* The widths of `kv_roundup32` and of the sums in `kvec.h`, and of `size << 1` in `kh_put`, which wraps only when
  2^31 buckets are all live and then makes no difference to what `kh_resize` does.
* In `khash.h` the hash functions that are a cast or one expression
  (`kh_int_hash_func`, `kh_int64_hash_func`), and the macros that rename or instantiate.
* `notification` is a stub. The unit tests and their macros.

## Plan

1. (done) `Shift`, `Fifo`, `CircbufOps`, `Circbuf` and their proofs: the container the
   pool trusts with its clusters.
2. (done) `IndexSet`, `IdxpyrOps`, `Idxpyr`, checked.
3. (done) `BitOps`, `ClusterOps`, `Clusters`, `MempoolEbr`: the pool, layer by layer, checked.
4. (done) `KhashOps`, `Khash`, checked; then `KhashSteps`, which refines it, `KhashForeach`,
   `KhashFlags` and `KhashHash`.
5. (done) `KvecOps`, `Vector`, `Kvec`, checked.
6. (done) `KvecProofs`: `TypeOK` and the refinement of `Vector`.
7. (done) `IdxpyrProofs`: `RowsSummarise` as a part of an inductive invariant, `FirstIsLeast`
   from it, the refinement of `IndexSet`.
8. (done) `ClustersProofs`: the indices, the clusters and the locations, from the lemmas of
   `CircbufProofs` on the two ring buffers, and the refinement of `ClusterQueue`.
9. (done) `KhashProofs`: everything `MCKhash.cfg` checks, `kh_foreach`,
   `NothingLost`, and that the loops of `kh_resize` implement its single step.
10. (done) `Bits` in the place of `Bitwise`, and `BitOpsProofs`: everything `MCBitOps.cfg` checks.
11. (done) `MempoolEbr` composed of `Clusters`, and `MempoolEbrProofs`: everything
   `MCMempoolEbr.cfg` checks, from the lemmas of `ClustersProofs` and `IdxpyrProofs`.
