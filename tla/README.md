# A verification of detworam

detworam is a header-only C++ library of *write-only ORAMs*: block memories
whose pattern of writes does not tell which block a caller changed. This
directory holds TLA+ models of its parts, the instances on which TLC checks
them, and proofs, checked by TLAPS, of what matters most for every size.
Paths below are relative to the repository (`src/`), the headers are those of
`src/include/detworam/`.

Contents: [the system](#1-the-system), [modules](#2-modules-and-code),
[properties and runs](#3-runs), [bounds](#4-bounds-and-why-they-are-enough),
[fairness](#5-fairness), [proofs](#6-proofs), [disagreements](#7-disagreements),
[what is not modelled](#8-not-modelled), [plan](#9-plan).

## 1. The system

Everything is a template over "archetypes": a *Memory* has `load(index, buf)`,
`store(index, buf)`, `flush()` (`memory.h`); a *plain ORAM* stores a block
wherever it likes and returns a *position* (`woram.h`); a *position map* keeps
the position of every index (`posmap.h`). `PMWoram` joins a plain ORAM and a
position map into something that is a Memory again, so that parts nest: a
position map can live in packed blocks of another ORAM, or in a trie whose
nodes live in another ORAM.

One thread makes all calls. There is no lock, no message and no restart; what
is hard is *who calls whom in the middle of what*, state that is cached at one
level and changed at another, arithmetic on positions, and backends that throw.

| Part | State | Operations | What makes it correct |
|---|---|---|---|
| `DetWoram` (`detworam.h`) | long-term area, holding area, `longpos`, `holdpos` | `load`, `store` (= `ltws`, then one write), `dummy_write` | the refresh keeps in step with the ring: no slot is overwritten while an index is read from it |
| `DWPointer` (`detworam.h`) | none | `build`, `get_hold`, `get_bind`, `get_bitval` | a position gives back what it was built from, and the null position is not one |
| `PMWoram` (`woram.h`), `LocalPosMap` (`posmap.h`) | the array of positions | `load`, `store` | a Memory: only the stored index changes |
| `TrieNodePM`, `TriePM` (`triepm.h`) | write cache (root and last path), read cache, `rcsplit`, nodes in a `DetWoram` or `OneWriteWoram` | `load`, `store` | an array of positions, also for the look-ups that its own node store makes in the middle of a store; the same number of writes for every store |
| `PackMem` (`pack.h`) | one block of write cache, one of read cache | `load`, `store`, `flush` | a Memory of small blocks; the caches never disagree |
| `PackPosMap`, `ppm_size` (`pack.h`) | a `PackMem` | `load`, `store`, `flush` | an array of positions, also in the middle of a store; the space computed is the space needed |
| `OneWriteWoram` (`woram.h`) | `nextpos` | `load`, `store`, `dummy_write` | written once; refuses without effect when full |
| `TrivialWoram` (`woram.h`) | none | `load`, `store` (rewrites everything) | a Memory, also when its loop is broken off |
| `CtrCrypt`, `CtrCryptSplit` (`crypto.h`) | `round`, `nextpos` of each half | `load`, `store` | no counter is used twice; `load` finds the counter of each block |
| `RandCrypt` (`crypto.h`) | none | `load`, `store` | a fresh IV per block |
| `BMNOWoram`, `BMNOWoramRec` (`bmno.h`) | primary memory, metadata, position map, stash, `stashloc` | `load`, `store`, `commit`, `flush` | a block that has left the stash is not overwritten before its index is stored again |
| `CommitPosMap`, `BasePosMap` (`bmno.h`) | BMNO levels above each other | `load`, `store`, `commit` | one array of positions |
| `RecWoramFactory` (`recursive.h`) | composes `PMWoram`, `PackPosMap`, `DetWoram` | `load`, `store`, `flush` | a Memory again at every level; each level's map fits into the next |
| `ChunkSplit`, `OffsetMem`, `LocalMem`, `FileMem` (`split.h`, `memory.h`, `filemem.h`) | a memory, or a file descriptor | `load`, `store` | disjoint views |
| number helpers (`common.h`, `bytenum.h`) | none | `ceiling`, `bitlen`, `bytelen`, `storenum`, `getnum`, `get_bit`, `mismatch_bit` | pointers fit their bytes |

How they interact, where it matters:

* `PMWoram::store(i, b)` calls `backend->store(i, b, *posmap)`. `DetWoram`
  calls `posmap.load(longpos)` in every turn of `ltws`, *before* the position
  of `i` has been updated; only after its return does `posmap->store` run.
* `TrieNodePM::store` fetches the path to an index, sets the position and
  writes the path back bottom-up with `nodestore->store(node, data, *this)`.
  The node store is a `DetWoram` that refreshes *other* nodes and asks this
  very trie for their positions, through `fetch_read` and the read cache, while
  the path is half written back. The new position of a node goes into its
  parent, which is written next.
* `PackMem` delays stores: `back->store` of one block happens in a later store
  of another or in `flush`, and may throw there.
* `CtrCrypt` works only under a caller that writes each half cyclically, which
  is what `DetWoram` does.
* `BMNOWoram` decides whether a position is free from two places (metadata and
  position map) that start as garbage and are updated separately.

The hazards, each with its line and the properties that would notice it going
wrong, are listed in `PROJECT.json`.

## 2. Modules and code

**`BlockDevice`** is the abstract specification that recurs: the contents of a
memory and at most one call of `store` in progress, which changes its own index
when it returns, or nothing when it throws. `load` and `flush` change nothing
that a caller can see, so they are stuttering steps. `PMWoram`, `PackMem`,
`RecWoram`, `DetWoCrypt`, `OneWriteWoram` and `TrivialWoram` are shown to
implement it, under a mapping whose `contents` is what `load` would return in
each state. The trie and BMNO state the same promise as an invariant,
`StoredIsLoaded`: after a store `load` returns what was stored last, in every
intermediate state of later calls; for the trie, `TrieNodePM_proofs` then shows
that it implements `BlockDevice` too.

**`DWPointer`** is the packing of a position: `Build`, `GetHold`, `GetBind`,
`GetBitval`, `PMax`, `NPtr`. **`DetWoram`** extends it with the two areas and
the operators that act on them: `Load`, `LtwTarget` and `NumLtw` (the amount of
refreshing due), `LongTermWrite` (a turn of `ltws`), `NewPosition`,
`HoldingWrite`. It has no `Next`: it is used by the modules that give it a
position map. A block is opaque but for `GetBit(b, i)`.

`ltws` computes its target as `(size_t)((double)(holdpos+1) / HoldSize * Size)`.
The model divides integers, and the constant `Truncated` names the slots at
which the double result falls just below an exact integer (`1.0/49*49` is one).
For products below 2^52 nothing else can happen, as the error is smaller than
the distance of a non-integer quotient from the next integer; at the last slot
the fraction is exactly 1. The properties hold for every choice of `Truncated`,
for a `DetWoram` of its own as for the node store of a trie.

**`PMWoram`** extends `DetWoram` with `LocalPosMap` (a function) and the steps
of `PMWoram::store`:

| Action | Code |
|---|---|
| `StoreCall` | `PMWoram::store` is called, `DetWoram::store` enters `ltws`, `num_ltw` is computed |
| `StoreRefresh` | one turn of the loop of `ltws`, with its `posmap.load` |
| `StoreHold` | the rest of `DetWoram::store`: mismatch bit, `holding->store`, `holdpos`, the position returned |
| `StorePosition` | `posmap->store`, and `PMWoram::store` returns |

`InitialPositions` says what the map starts with: `LocalPosMap` fills it with
null positions, a `PackPosMap` in zeroed memory means position 0 everywhere.

**`RecWoram`** is one level of `RecWoramFactory`: the `DetWoram` of above with a
`PackPosMap`, that is `Pack == INSTANCE PackMem` over `back`, the ORAM of the
next level. `StoreRefresh` loads its position through the caches of `PackMem`
(and changes them); `StorePosition` becomes `PosmapCall`, `PosmapEvict` (a block
of positions goes to the next level), `PosmapFetch` and `PosmapWrite`. `back` is
an array that takes a whole block in one step: that every level behaves so is
what is shown of it, see section 6.

**`TrieNodePM`** holds the trie. `FetchWrite` and `FetchRead` are
`fetch_write` and `fetch_read` with their caches; `Descend` is the loop of
both, `ReadPosition` what `fetch_read` returns. The node store is
`nodestore == INSTANCE DetWoram` or, with `OneWrite`, `onewrite == INSTANCE
OneWrite` (`test_triepm.cpp` uses both), and the position map it is given is
`FetchRead`. Actions: `Load`, `StoreCall`, `StoreFetch` (the path is in the
write cache and the position set), `WriteBack` (the loop reaches the next
level), `Refresh` (one turn of `ltws`, which also changes the read cache),
`WriteNode` or `DummyWrite`, `StoreThrows` (the node store is full and its
exception passes through, with the path half written and the read cache as it
is), `StoreReturn` (the read cache is cleared). `contents` and `stores` are
history variables. `InitialNodes` is what the node store's memory may hold at
the start: zeros in a `LocalMem`, anything under `RandCrypt` or in a `FileMem`.

**`PackMem`**: `Load` fills the read cache; a store is `StoreCall`,
`StoreEvict` (write-back of the block it leaves) or `StoreThrows`,
`StoreFetch` (from the read cache or the backend) and `StoreWrite`. `Flush`.

**`BMNOWoram`** models both classes (constant `Rec`). `StashBlock` is the first
half of `store`; the loop over `K` random positions is `Rewrite(curpos)`, one
step per position, in any order and with any choice: what is random in the code
is nondeterministic here. A behaviour of `BMNOWoram` is one of `BMNOWoramRec`
that commits after every store, so the run of the latter covers both, but for
encryption. `Commit`, `Flush` and `StashOverflow` (abort) are the others.
Encryption appears only where the wrong IV would be used (`flush` writes blocks
that were never encrypted for their position): such a block decrypts to
`Garbled`. The position map of a `CommitPosMap` is another BMNO ORAM, of which
only this is promised: a position that has been stored is loaded. For an index
never stored, `MapLoad` is any of `UnsetPositions`, another one at each load;
`LocalPosMap` is the special case of one null position.

**`CtrCrypt`** is the state of both halves of a `CtrCryptSplit` over one memory
and one space of counters, with `CryptLoad` and `CryptStore`. A block is a
number, its pad is its counter and xor is addition modulo `Span`, so decrypting
with the wrong counter gives the wrong number; AES itself is outside. The
ciphertext starts as any of `InitialWords`.
**`DetWoCrypt`** puts `DetWoram` on top, as `DetWoCryptTrie` does: `LongTerm`
and `Holding` are what the halves decrypt to, and every write goes through
`CryptStore`, which is enabled only in the order that `CtrCrypt` accepts.

**`OneWrite`** is the plain ORAM alone, **`OneWriteWoram`** has `PMWoram` and
`LocalPosMap` around it; **`TrivialWoram`** goes through its loop turn by turn.
Both include the ways in which they throw.

**`Sizes`** collects what the compiler computes from template arguments, and
**`Factories`** how `RecWoramFactory`, `TPMWTrait` with `DetWoCryptTrie`, and
`bmno_fact` cut a memory into parts. The behaviour goes from one size to the
next, and at any size it may start to instantiate a recursive factory: `RecStart`
and `BmnoStart` are the top level, `RecLevel`, `BmnoMap` and `BmnoLevel` go to the
level below. A level is taken only if its `static_assert`s hold (`DetWoAssert`,
`PackPosMapAssert`, `PackMemAssert`, `BmnoAsserts`, `BmnoMapAsserts`), as the
compilation stops otherwise. Where the map of a factory is encrypted with
`RandCrypt`, its blocks have `MapBytes`, 16 less; `TriePMTrait::prefsize` divides
the whole block nevertheless, and so does `TrieBlocks`.

`MC_*` give constants to TLC, `*_proofs` hold the theorems (`Woram_proofs` those
of `OneWriteWoram` and `TrivialWoram`, `Sizes_proofs` those of `Sizes` and
`Factories`). Some modules hold
definitions marked *mutant* next to a definition of the model: the plausible
mistake against which a property was tried. They take no part in any
specification.

## 3. Runs

| Run | Shows |
|---|---|
| `pm_ring` | two slots, two homes, two-bit blocks, a target that falls one short: the first store of a round refreshes nothing, the second both homes. Positions start null, as 0 in zeroed memory, or mixed. Type correctness, `InStep`, `HoldingReliable`, `PositionInHand`, `SlotReusable`, the device, and that every store returns |
| `rec_pack` | three positions in two blocks of the next level, both caches of `PackMem`, loads and flushes between stores: the level is the ORAM of `PMWoram` |
| `ctr_woram` | three homes and two slots, encrypted, over zeros or anything else; counters of four bits that wrap. Both halves are written in order, pads are fresh, and the ORAM is that of `PMWoram` |
| `trie_height2` | a binary trie of six positions: leaves at two depths, four nodes that start as garbage, in a node store whose ring is shorter than the trie and whose refresh falls one node short in the first slot; both caches, the ring, the fixed number of writes, and that what was stored is loaded |
| `trie_onewrite` | a binary trie of six positions over a `OneWriteWoram` with five writes: the third store breaks off between its two levels, a fourth is attempted; all other positions are still loaded |
| `trie_null` (violation) | a legal position is the null position of the trie |
| `pack_throwing` | `PackMem` over a backend that may throw in store and flush |
| `bmno_rec` | `BMNOWoramRec` with garbage in metadata and in a map that changes under way, a stash of two for three indices, one flush: everything stored is loaded until the stash overflows, but for the block a flush overwrites, which is at `pmax()` |
| `bmno_flush` (violation) | that block, in `BMNOWoram` |
| `trivial_range` (violation) | index `size()` is accepted |
| `sizes_fit` | pointers, bytes and trie paths fit, and so do the parts of the three compositions, a recursion as far as `PackPosMap` lets it be built |
| `sizes_packed` (violation) | `ppm_size` is short |

Run one with `tlc -config pm_ring.cfg MC_PMWoram`; the module of each run is in
`PROJECT.json`. The deadlock check is off where the system stops: in `bmno_rec`
the program aborts at stash overflow, and the sweeps of `sizes_fit` and
`sizes_packed` end at the largest size.

The properties worth knowing:

* `ImplementsDevice`: between two visible changes, nothing that
  any `load` returns may change. For `DetWoram` this says that the refresh, the
  overwriting of the ring and the gap between `backend->store` and
  `posmap->store` are all invisible.
* `HoldingReliable`: an index that is read from the ring has not been passed by
  the refresh since its slot was written, and its bit tells the truth
  there. `SlotReusable`: at the moment a slot is overwritten nobody reads it.
* `ImplementsPMWoram` of `RecWoram`: wherever in a store the caches of `PackMem`
  are consulted, refilled or written back, the ORAM acts on the position stored
  last. The write cache is ahead of the next level most of the time.
* `ImplementsPMWoram` of `DetWoCrypt`: a write changes what its own block
  decrypts to and no other, in the block's first round as in any later one. A
  block never written decrypts to a pad; `DetWoram` compares bits of it with its
  positions, so that it must be the *same* pad at every load.
  `WrittenInOrder`: the check in `CtrCrypt::store` never throws.
* `ReadCacheTransparent`: the answer of `fetch_read` through the read cache is
  the one without it, in every state of a write-back.
* `StoredIsLoaded` of the trie, with a node store that throws: the position that
  was being stored is the old or the new one, from one load to the next, until
  it is stored again. It can change back: the write cache holds the new
  position, and once another path replaces it there the node is fetched as it
  was last written. All other positions are those acknowledged.
* `FixedSchedule`: `holdpos` and `longpos` of the node store are functions of
  the number of stores, whatever was stored: the obliviousness of the README,
  for the trie. (`InStep` says the same of `DetWoram`, whose stores are one
  write to the ring each.)
* `OwnerKnown`: a block of BMNO that has left the stash is owned by its
  index in metadata and map alike.
* `RecursionFits`, `TrieMemoryFits`, `BmnoFits`: the factories size a map for an
  ORAM on the *whole* memory, since the ORAM on what is left depends on the size
  of the map; what is left has no more slots, so that the map has as many blocks as
  its factory counts. `RecursionFits` says which `static_assert`s of a recursion can
  fail: only the one of `PackPosMap`, which compares the blocks counted with
  `bytelen(pmax())` to those needed with `bytelen(nptr())` (section 7). Where it
  holds, the map has the blocks that its positions are packed into, and the
  recursion gets smaller. It starts at two indices: `prefsize<1>()` is 1, which leaves no
  room for a holding area, and no ORAM of one index is built with it. It asks for
  a block of two pointers, as a map of one pointer per block is no smaller than
  what it maps. `TrieMemoryFits` is about the nodes, which live in blocks 16 bytes
  shorter than those that `prefsize` has counted, and whose pointers may be longer
  than `ptrsize()` has assumed: a ring is left all the same, if a node fits into a
  block. It asks for a block size divisible by 16 (`triepm.h:429`). `BmnoFits` asks for sizes that are a `size_t`: records of metadata
  grow with the number of blocks, and the room for them does not.

## 4. Bounds, and why they are enough

* `PMWoram`: no bound on the number of stores; the state space is finite. The
  sizes are the smallest at which some store refreshes nothing, another more
  than one home, and a target is truncated. Two bits per block are the
  fewest that separate "bit in which it differs" from "the whole block". The
  proofs cover all other sizes.
* `RecWoram`: no bound on the number of stores. Two blocks of positions are one
  in the write cache and one in the read cache or in neither; three homes for a
  ring of two make some stores refresh two homes, whose positions are in
  different blocks. One bit per block. The proofs cover all other sizes.
* `DetWoCrypt`: no bound on the number of stores. A counter has 16 values: the
  halves of three and two blocks are written for several rounds before they meet,
  and go on until their counters have wrapped. No real program gets there, but
  the subtraction in `load` (`round + index - size()`) wraps in the first round.
  `PadsFresh` records pads until a half has used up its share (`Lasting`).
  Callers store two words that differ in two bits; the memory starts with two
  others, one of them 0. The proofs cover other sizes and all ciphertexts.
* `TrieNodePM`: `MaxStores` bounds the stores by 4. The trie has height 2, four
  nodes and leaves at two depths, so that paths diverge at the root and below
  and a padding dummy write occurs; four stores are eight writes to a ring of
  two, in which every node is refreshed four times. Its first slot is due to
  refresh two nodes, and refreshes one if the double arithmetic falls short;
  the run has it so in every round. (`1.0/49*49` is the first case in the code; 49
  nodes on a ring of 294 would be one in a trie.) Four stores are enough for a
  read cache that is not cleared after a store to give a wrong answer. A node
  never written seems to have a first child, which nobody may follow. Positions
  stored are 0 and 1. In the run over the `OneWriteWoram` one node has two
  children in the trie, so that the broken-off store can be followed by one to a
  sibling of the node it wrote. The proofs cover all other tries, truncations and
  initial nodes, and any number of stores.
* `PackMem`: no bound; three outer blocks are one in each cache and one in
  neither; five of six small blocks are in use, since `size()` need not fill the
  last block.
* `BMNOWoram`: three indices, five positions of which two are rewritten per
  commit, a stash of two, so that two blocks can be in it and a third overflows.
  `MaxStores` bounds the stores by 3, `MaxFlushes` the flushes by 1; commits
  are not bounded. What the map says of unset indices and what the metadata
  start with are the constants of `MC_BMNOWoram`. The proofs cover all others.
* `TrivialWoram`: no bound; arguments are the valid indices and two beyond.
* `Sizes`, `Factories`: `MaxSize` bounds the sizes by 180, with blocks of 1 to
  256 bytes and memories of 9 to 4000 blocks: heights up to 7 and recursions of
  several levels; the conditions under which the three compositions are to fit
  hold at some of these sizes and fail at others. Memories of 188 and 238 blocks
  are there for two cases: on 188 blocks of 256 bytes the nodes of a trie need
  longer pointers than they were sized with, and on 238 blocks of 32 bytes the
  map of 100 indices is counted with 7 blocks and needs 10, so that `PackPosMap`
  does not compile. The proofs of all five invariants cover all other sizes. `sizes_packed` has
  largest positions on both sides of a byte boundary.

## 5. Fairness

`PMWoram` has a liveness property (`StoreReturns`), under weak fairness of the
steps of a call that has been made. One thread runs the call and nothing can
block it, so it takes its next step. Callers need not call: there is no fairness
on `StoreCall`. What the property is about is the loop of `ltws`, the only one whose
number of turns is a difference that could wrap. `RecWoram` and `DetWoCrypt` have
the same loop, with straight-line code around it; the write-back of the trie goes
over the levels of a fixed path, with that loop at each (left in section 9).

## 6. Proofs

`tlapm` checks the eight modules `*_proofs` to the last leaf.

**`PMWoram`**, for every `Size`, `HoldSize`, `BlockBits`, set of blocks,
`Truncated` and initial state. Assumptions: sizes are positive and a bit index
has room in a pointer (`PointerAssumption`); blocks are determined by their bits
(`WoramAssumption`); a position the map starts with agrees with the blocks the
memory starts with (`InitialAssumption`, trivially so for null positions).

The inductive invariant is `Inv == TypeOK /\ InStep /\ HoldingReliable /\
PositionInHand`. `SlotReusable`, the property one wants, is not inductive: that
a slot is free when it is about to be overwritten depends on the refresh having
passed everybody who was read from it. `HoldingReliable` says so for every slot
and every moment, in terms of how far the refresh has come (`Progress`);
`InStep` ties `Progress` to `longpos`, and `LtwTargetFacts` (the target is
monotone, below `Size` before the last slot and `Size` at it) closes the round
when `holdpos` returns to 0. `PositionInHand` covers the gap between
`StoreHold` and `StorePosition`. One lemma per action shows that it preserves
`Inv`.

* `TypeCorrect`, `RefreshInStep`, `HoldingIsReliable`, `InHand`,
  `SlotsAreReusable`: the five invariants.
* `PointerRoundTrip`: positions unpack to what they were packed from.
* `WoramImplementsDevice`: `Spec => Device!DeviceSpec`. `StoreRefresh` and
  `StoreHold` leave `Visible` unchanged (`RefreshInvisible`, `HoldInvisible`,
  which need `Inv`), `StoreCall` is `CallStore` and `StorePosition` is
  `ReturnStore`.

**`PackMem`**, for every size, from `PackAssumption`. The inductive invariant is
`TypeOK /\ CachesCoherent`. `PackTypeCorrect`, `PackCoherent`,
`PackFlushPersists` (an action property) and `PackImplementsDevice`.

**The recursion**: any number of levels is a block device.

1. `TrivialImplementsDevice` (`Woram_proofs`): the last level is a block device.
2. `RecImplementsDevice`: if the next level is a block device, so is this one.
   It needs no new invariant: `J` is `Inv` of `PMWoram` under the mapping that
   reads positions through the caches, `Inv` of `PackMem`, and the link between
   the two calls in progress. Each step of the level is a step of the one and
   invisible to the other, or of both (`PosmapWrite`), so the two invariants and
   the two refinements already proved carry over (`RecImplementsPMWoram`).

That the next level is atomic in `RecWoram` while it takes many steps is
justified by what a block device is: its contents change once between call and
return. The number of levels is a matter of the template arguments, and the
induction over it is this paragraph, not a theorem. In `RecAssumption` the
positions that the map starts with must agree with the blocks that the memory
starts with, as for `PMWoram`; zeroed memory does.

**`DetWoCrypt`**, for all sizes of the halves and any `Span`.
`StoreEffect`: a write that is accepted changes what its own block decrypts to,
and no other, which is arithmetic modulo `Span`. The invariant besides the one
of `PMWoram` is `WrittenInOrder`; `CryptImplementsPMWoram` follows, with
`InitialBlocks <- Word`: what unwritten blocks decrypt to, for any `InitialWords`,
is one choice of initial blocks. With it `CryptImplementsDevice`. `CryptPadsFresh`
rests on `Fresh`: as long as both halves last, the counters a half has used are
an interval from its start, the next counter is the one after it, and the two
intervals do not meet.

**`OneWriteWoram`** (`OneWritePositions`, `OneWriteImplementsDevice`, in
`Woram_proofs`), whose positions are those of different written blocks. It has no
run: its run as the trie's node store and these theorems say more.

**`BMNOWoram`**, for every size, stash, number of positions rewritten and any
garbage. The inductive invariant is the five properties of `bmno_rec` together
with `StashOwned`, `StashHolds` and `PositionHolds`. `StoredIsLoaded` rests on
`OwnerKnown`, and that on `StashDistinct`: a block is put at a position only if
the metadata's owner is not loaded from there, and the map is definite for all
owners that have left the stash. Stores and flushes are bounded by `MaxStores`
and `MaxFlushes` also in the proofs, for any value of these.

**`TrieNodePM`**, for every number of positions, branching factor, width of
pointers, ring or capacity, every `Truncated`, everything that the nodes' memory
may hold at the start (`InitialNodes`, of which nothing is assumed but that it
consists of nodes), and every interleaving of the turns of `ltws` with the
look-ups they make. `TrieAssumption` is what the templates require (at least
one node below the root, pointers with room for every bit index);
`MaxInternAssumption` is the condition on `ptrsize()`; `PowerAssumption` states
of powers of two what the provers have to know, and TLC evaluates it.

* `TrieStoredIsLoaded`: what was stored last is loaded, in every state. With
  a `DetWoram` that is one position. With a `OneWriteWoram` that throws it is
  the set of positions described in section 3.
* `TrieImplementsDevice`, over a `DetWoram`: the trie implements `BlockDevice`,
  with what `load` would return for `contents`. `StoreCall` is `CallStore` and
  `StoreFetch` is `ReturnStore`: a store takes effect when the position is set in
  the write cache, and the rest of it, with the refreshes it causes, is
  stuttering. It follows from `TrieStoredIsLoaded` and from the history, which
  gives one position for every index (`Certain`) and does not change in these
  steps. (There is no run for it: TLC would have to evaluate `ReadPosition` in
  the next state, where it is too slow.) Over a `OneWriteWoram` it is not true:
  the position of a store that threw may come and go.
* `TrieReadCacheTransparent`, over a `DetWoram`. Over a `OneWriteWoram` it is not
  claimed: the read cache is not cleared by a store that throws.
* `TrieNodeSlotReusable`, about the ring of the `DetWoram`.
* `TrieTypeOK`, and `TrieFixedSchedule`, over a `DetWoram`: where the trie writes
  does not depend on what it finds, so that the proof needs nothing of the paths.

None of these is inductive. The invariant is `TrieInv == Calls /\ (SomeWhole \/
Broken) /\ (OneWrite => SomeVersions)`.

1. *Paths.* `PathTo`, `SoFar` and `Height` are recursive functions. That such a
   function is what its definition says (`Recursion`), and everything about
   it, is proved from the least counterexample (`LeastElement`), since the
   induction theorems are out of reach. `PathOK` is what the rest needs of a path;
   `HeightFact` and `DepthRows` give that paths to nodes and leaves fit into the
   `Height + 1` levels of the caches.
2. *Nodes.* `Whole(D)`: there is one map `D` from nodes to their data such that
   the caches hold `D` for every node that they can be asked for, the node store
   holds `D` at the positions that `D` itself has for the children, and the
   leaves of `D` are `contents`. In the middle of a write-back the store is one
   path behind: `Placement` exempts the nodes of the path that have not been
   written, and those are looked up in the write cache alone. The read cache is
   used only for nodes that lie *aside* of that path. One lemma per action
   (`FetchWhole`, `RefreshWhole`, `WriteNodeWhole`, ...) says which `D` the next
   state has.
3. *Positions.* A node is at the position that its parent holds as long as the
   refresh has not passed it or has copied it. This is `HoldingReliable` of
   `PMWoram` for a position map that is the trie itself: the lemmas
   about the ring are those of `PMWoram_proofs`, applied to one node at a time
   (`RefreshNodes`, `WriteNodes`).
4. *Stores that break off.* A `OneWriteWoram` throws once it is used up, with
   part of a path written. From then on nothing is written, and every store
   breaks off at its first level (`Broken`): while it runs, its whole path is in
   the write cache (`OnPath`), and its position is read there. After that, one
   `D` is no longer enough. `Versions(C)` has a set `C[n]` of versions for every
   node: what the caches and the node store hold are versions, a position that
   any version of a parent has for a node is that of a version of the node, and
   no version of a leaf's parent has a position for it that may not be loaded.
   Each store adds to the parent of its index the versions that have the new
   position, so the new position can come and go with the cache that holds it.

**`Sizes`, `Factories`**, for every size, blocksize, branching factor, largest
position and memory, from `SizesAssumption` alone. `BitLen`, `ByteLen`, `Shifted`
(powers of two), `SoFar` and `Depth` are recursive functions; that each is what
its definition says is `Recursion`, and what holds of all their values is shown
by descent, from the least counterexample.

* `SizesPointerFits`: a pointer fits into its bits and bytes. `BitLenBounds` and
  `ByteLenBounds` say between which powers a number of that length lies.
* `SizesPathsFit`: what is within the first `h` rows of a trie is not deeper than
  `h` (`DepthFacts`), and `SoFar[Height]` is no less than the number of nodes
  (`HeightFact`, which also shows that `heighthelp` ends).
* `FactoriesTrieMemoryFits`: `prefsize` sets apart the blocks of at least four
  nodes for each node, but counts nodes per block of `B` bytes where `B-16` are
  left. With `B` a multiple of 16 and a node in a block, that is at most three
  times too many, so that a ring is left with the pointers assumed
  (`TrieBlocksFact`). It has no more bits than the ring of the data
  (`NodePtrMax`), so that its positions are at most twice as large as `maxleaf()`
  and its pointers at most one byte longer (`NodePtrSizeFact`). If they are longer,
  its positions are at least as large as `maxleaf()`, which takes more than half of
  the nodes there is room for (`LongerFact`); and a pointer that was two bytes or
  more takes away at most half of them when it grows by one.

* `FactoriesRecursionFits`: a level knows `prefsize` of its own number of indices,
  or, as the map has turned out smaller than the whole memory made it, of a larger
  one (`RecInv`). `prefsize` is not monotone: next to fewer indices the ring is
  longer, its positions may take one byte more, and fewer of them fit into a
  block. `AlwaysLittleMore` bounds how much it may fall, and `PartsFit` shows that
  the data still have the blocks they need. If the map of `x` indices is not
  larger than that of `y > x`, the bound for the maps gives the bound for `x` and
  `y`. If it is, all smaller numbers have pointers of the same length
  (`PtrLenFact`), and a block holds at most the square of that number of pointers
  that are one byte shorter (`PerBlockSquare`), so that the map of the map of `x` is
  no larger than the map of `y`. This takes a memory in which the `y` indices leave
  three quarters; from the second level on they do, as maps are half as large.
* `FactoriesBmnoFits`: a number has at most half as many bits as itself, and one
  (`BitLenHalf`), which bounds the stash. At the top, the blocks of metadata are at
  most one more than `size0` has added for them, although their records share
  the blocks with an IV (`BmnoTop`); below, 14 records or positions fit into a
  block, and `BmnoInv` has twice as many blocks as indices and 90 more, until one
  block holds the map (`BmnoMapFits`).

Only model-checked is liveness, which is beyond the prover: `StoreReturns` in
`pm_ring`.

## 7. Disagreements

Four runs are expected to be violated, each by something the code does and the
repository says it does not:

1. **`bmno_flush`** (`bmno.h:230`). `flush` writes stash slot `si` to position
   `size()-si-1` of the primary memory; the last slot goes to `pmax()` itself,
   where a block can live. The stash is not read back, but the block is lost.
2. **`trie_null`** (`triepm.h:89`). `nptr()` is the largest number of
   `ptrsize()` bytes; `ptrsize()` is sized by `maxleaf()`. A `maxleaf()` of 255
   is its own null position.
3. **`trivial_range`** (`woram.h:206`). `store(size(), b)` is accepted and does
   nothing.
4. **`sizes_packed`** (`pack.h:152`). `ppm_size` divides by the bytes of `pmax`,
   `PackPosMap` by those of `pmax + 1`; where these differ, the assertion of
   `PackPosMap` stops the compilation.

## 8. Not modelled

* `FileMem`: system calls, and what happens when they fail; that a file may hold
  anything at the start is `InitialBlocks`, `InitialNodes` and `InitialWords`. `mbedtls`, `nbdcpp`: submodules, not
  in the repository.
* `RandCrypt`: one call of the cipher with an IV in the block; no state.
* The variant of `CtrCrypt` without real counters, for measurements, and
  builds with `WORAM_NOEXCEPT`, in which nothing is checked or thrown.
* `bmno_fact` as a composition step by step. `BMNOWoram` takes from the map below
  what that map is shown to be. Two things are left out: a flush of a lower level
  overwrites its block at `pmax()` and so a block of positions, which makes the
  level above lose more than `LostOnlyAtPMax` says; and the caches of `PackMem`
  between the levels, of which a `commit` commits what has been written back.
* A trie without nodes below the root (a specialisation that is one array), and
  `prefsize` for it, which divides a wrapped 0 and compiles for no memory.
* The encryption of the trie's memory (`RandCrypt`), but for the bytes it takes
  (`Factories`) and the garbage it makes of unwritten nodes (`InitialNodes`), and the
  trie as the map of `DetWoCrypt`: each is a block device or a position map for the
  other side.
* `debug.h`, `errors.h`, `memtest.h`: printing, throwing, counting.
* Crash and restart: no object can be built from what an earlier one left, so
  there is no behaviour to model.
* Timing and the probability that a stash overflows: `StashOverflow` ends a
  behaviour, and no property says that it does not happen.

## 9. Plan

Done, in this order: `BlockDevice`; `DWPointer`, `DetWoram`, `PMWoram` and their
proofs, which are the core; `TrieNodePM`; `PackMem` and its proofs;
`BMNOWoram`; `CtrCrypt`; `OneWriteWoram`; `TrivialWoram`; `Sizes`. Then the
compositions: `RecWoram` with its proofs, `DetWoCrypt` with its proofs, the trie
over a node store that throws, BMNO over a map that is garbage, `Factories`; and
the proofs about `BMNOWoram`, `OneWriteWoram`, `TrivialWoram` and the schedule of
the trie. Then the proofs of what the trie stores, over both node stores, and of
the sizes of pointers, paths, tries and factories.

Left:

1. `CommitPosMap` over `BMNOWoramRec` step by step, with the caches of `PackMem`
   between `commit` and write-back, and what a flush of a lower level destroys.
2. Liveness of the write-back of the trie.
