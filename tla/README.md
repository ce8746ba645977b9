# A formal model of db185

db185 reads BSD `dbopen(3)` btree files (format version 3) and builds new ones.
It is a Rust library of about 3,100 lines (`src/src/`), single-threaded, with
one piece of intricate state: the page arena of `Writer`, a B+tree that is
split, extended and thinned out in memory and written to a file at the end.

This directory holds TLA+ modules that model that code, the TLC
configurations that check them on small instances, and proofs, checked by
TLAPS, of what holds for every instance. Paths below start with `src/`, the
root of the repository.

## 1. Inventory

| Component | Code | State | Operations | Modelled |
|---|---|---|---|---|
| Writer tree | `src/src/writer/mod.rs` | page arena, spine, separator under way | `put`, `del`; inside: descend, insert, delete, split (root leaf, leaf, sorted append, internal, root internal), propagate a separator | `BTreeWriter` |
| Page search | `leaf_search`, `descend_internal_pick` | `base`, `lim`, `matched` | one binary search | `PageSearch` |
| Split decision | `psplit_loop`, `SplitPlan` | `nxt`, `off`, `used` | one walk over a full page | `PageSplit` |
| Separator prefixes | `bt_defpfx`, `write_binternal_inline` | none | shorten a key | `ByteKeys` |
| Page layout | `src/src/writer/page_buf.rs`, `delete_leaf_entry`, the copies of a split | `linp[]`, `lower`, `upper`, entry bytes | reserve a slot, write an entry, delete and compact, copy a half | `PageLayout` |
| Page decoding | `src/src/page.rs` | none (a view) | `parse`, `entry_offset`, `leaf_entry`, `internal_entry`, `inline` | `PageDecode` |
| Writer lifecycle | `create_new`, `finish`, drop | the file | create, write in pieces, fail, drop | `Session` |
| Reader | `src/src/db.rs` | the mapped file | `open`, `get`, `iter` | `Session` (`open`), `Reader` |
| Iterator | `src/src/iter.rs` | `State`: Pristine, Active(cursor), Done | `next` | `Reader` |
| Overflow chains | `compare_overflow`, `fetch_overflow` | position in a chain | compare, fetch | `Overflow` |
| Meta page | `build_meta`, `src/src/format.rs`, `Db::open` | none | write, `Meta::parse`, checks, swapping | `MetaPage` |
| Errors | `src/src/error.rs` | none | outcomes | outcomes of `put`, `open`, `get`, `next` are values in the modules |
| Tests, examples, C tools | `src/tests`, `src/examples`, `src/tools` | - | - | not modelled; read for what they expect |

How they interact. A `Writer` owns its arena; `put` and `del` descend through
it, and use the page search on every page they pass. A leaf with room is changed in
place through the page layout; a full one is divided where the split decision
says, and the separator (shortened by the prefix rule) climbs the recorded
spine until a page has room or the root grows. `finish` consumes the writer
and writes the arena. A `Db` maps such a file; `get` and `Iter` decode its
pages as they reach them. Reader and writer share nothing but the file, and
the documentation of `Db` makes its caller keep writers away while it is mapped.

What is hard. The code has no threads. What is hard is

* the *inside* of a `put`: between the leaf's split and the last separator the
  arena is inconsistent, and the steps after the first can fail;
* long sequences of calls: deletions leave empty leaves and separators of keys that
  are gone, root growth moves everything, and levels split independently;
* boundaries: exactly full pages, entries of about half a page, separators cut
  to the last byte that still tells two pages apart, binary searches of every
  length;
* the file: no `fsync`, meta page first, a reader that opens it while `finish` is still
  writing, lookups and scans on whatever a crash left;
* chains, links and offsets the reader follows without having checked them, and a
  byte order it has to guess.

`PROJECT.json` lists these hazards one by one, at their lines, with the
properties that would catch them.

What makes each component correct:

* Writer tree: it is a dictionary (insert-if-absent, remove); the tree is a search tree
  whose levels are linked in key order; every page fits; a failed call changes nothing.
* Page search: finds the key, or the place where it belongs, on every sorted page,
  without reading past it.
* Split decision: both halves fit, neither is empty.
* Prefixes: the separator is above everything left of it, not above anything right of it.
* Page layout: every slot points at its entry after any insertion and deletion.
* Reader: returns what the writer stored; on a damaged file an error or the truth.
* Iterator: every entry once, in order; after an error, nothing more.
* Overflow: comparing a chain and fetching it agree.
* Page decoding: nothing is read outside the page, whatever the page holds.
* Meta page: hosts of either byte order open the same files and read them alike.

## 2. Modules

| Module | Models | Role |
|---|---|---|
| `ByteKeys` | byte-string order, `bt_defpfx`, truncation | operators |
| `PageOps` | outcome of the two searches and of the split loop | operators, as conditions on the result |
| `Entries` | entry sizes, `free_space`, the room test, `put`'s bounds, `parse`'s bound check | operators and constants |
| `Dict` | what a caller is promised | abstract specification |
| `BTreeWriter` | `Writer` with `put` and `del` | the core |
| `PageSearch` | the binary search loop | state machine |
| `PageSplit` | `psplit_loop` | state machine |
| `Snapshot` | what a reader of a stored dictionary is promised | abstract specification |
| `Reader` | `get` and `Iter`, on whatever pages are mapped | state machine, instantiated by `Session` |
| `Session` | the life of a file: `BTreeWriter`, `create_new`, `finish`, drop, crashes, `Db::open`, and a `Reader` on the outcome | composition |
| `PageContents` | a page as a sequence of entries | abstract specification |
| `PageLayout` | the bytes of one page under insertion, deletion and splits | state machine |
| `PageDecode` | the checks and reads from `parse` to an item | state machine |
| `Overflow` | `fetch_overflow`, then `compare_overflow`, on one chain | state machine |
| `MetaPage` | a file's first bytes, written and opened on hosts of either byte order | state machine |
| `MCByteKeys` | pairs of byte strings | input of the prefix rule |
| `MCBytes` | `MCByteKeys`, `MetaPage`, `PageDecode` and `Overflow` side by side, one of them at a time | instance for TLC |
| the other `MC...` | instances | for TLC |
| `SequenceFacts` | lemmas on sequences, and induction over numbers | proofs |
| `BTreeWriter_proofs` | | proofs: the spine, sibling links and sizes of the writer's pages |
| `BTreeKeys_proofs` | | proofs: its keys; a search tree, a dictionary, levels linked in order |
| `Session_proofs` | | proofs: the file's life; what lookups and scans of it return |
| `Bytes_proofs` | | proofs about `MetaPage`, `PageDecode`, `MCByteKeys` and `Overflow` |
| the other `..._proofs` | | proofs about the module so named |

`BTreeWriter` is stated over `PageOps` and `Entries`: a descent takes *the* slot that
satisfies `IsPick`, a split divides where `IsSplit` says. That the loops of the code
compute exactly these is what `PageSearch` and `PageSplit` are for; the link is
proved, not assumed (section 5).

### State and actions of BTreeWriter

| TLA+ | Code |
|---|---|
| `pages[p]` | page `p` of the arena: type, `prev_pg`, `next_pg`, and the entries in slot order. Page 0, the meta page, is fixed content and is left out |
| `pc` | where a call is: not begun, in `descend` or at its leaf, in `propagate_separator`; `panicked` for good after a panic |
| `job` | the arguments of the call |
| `cur`, `path` | `Spine`: the leaf (while descending, the page reached) and the recorded hops |
| `sep` | the `Separator` to be placed |
| `ret` | the result of the last call |

One action is one step that a later step, or a failure, can follow: a hop of the
descent (`Descend`), the change of the leaf that ends a call (`DelHit`,
`InsertLeafEntry`, `SplitRootLeaf`), the split that starts a climb
(`SplitLeafSortedOpt`, `SplitLeafFull`), one turn of `propagate_separator`
(`InsertInternalInPlace`, `SplitRootInternal`, `SplitInternalSortedOpt`,
`SplitInternalPage`), and the failures (`RejectPut`, `SplitLeafUnfit`,
`SplitInternalUnfit`). Each contains all that its function does, relinking
neighbours included. Slots are counted from 1 where the code counts from 0.

### State and actions of the others

| TLA+ | Code |
|---|---|
| `Session`: `wst`, `disk`, `io` | the `Writer` value (moved away by `finish`), the file (pages written, a part of one more, what a crash cost), what the last `create_new`, `finish` or `open` returned |
| `Session`: `db`, `Image` | the mapping of a `Db`: its length in pages is taken when it is opened, its content is the file's |
| `Reader`: `lookup`, `answer` | a `get` between two turns of `search`'s loop, and its result |
| `Reader`: `iter`, `scanned`, `scanEnd` | `Iter`'s `State` (also between two turns of `initial_state`'s or `advance_leaf`'s loop), and what `next` has returned |
| `PageLayout`: `mem`, `lower`, `upper` | a page's half-words and the two header fields |
| `PageLayout`: `copy`, `bmem`, `bupper` | `copy_entries` between two entries: the slots left to copy, the slot they go to, the one kept free; the fresh page |
| `PageDecode`: `size`, `nentries` | the length of the page and its number of entries, as its header has it |
| `PageDecode`: `pc`, `off`, `ksize`, `dsize`, `bigkey`, `bigdata`, `keyItem`, `dataItem` | where the decoding is; the slot's offset, the entry's header (`dsize` is 0 in an internal entry) and the two items of `leaf_entry` and `internal_entry` |
| `Overflow`: `fetch`, `compare` | the locals of the two loops and their results |
| `MetaPage`: `raw`, `opened` | the file's length, the words of the meta page and one header field of each width, as bytes; the outcome of `open` on each host |
| `MetaPage`: `writer`, `field32`, `field16` | the host that wrote the file, if one did, and what it put into the two fields |

`Session` EXTENDS `BTreeWriter`: every call of the writer is one of its steps, and the
file that `finish` writes is the arena, page for page. `FinishWrite` hands it over in pieces of any size
(`write_all` through a `BufWriter`), and a `Db` may be opened between two of them. A `Crash` may
turn pages into zeros: nothing is `fsync`ed. `Reader` meets these as pages that are missing or do not
parse. (A crash that keeps a part of a page is not modelled; see section 7.)

`PageLayout` follows one page and, in a split, one of the two fresh pages, which then
takes its place; every choice of page and half is explored. `BTreeWriter` keeps pages as
sequences of entries; `ImplementsContents` is what allows it to.

What is abstracted:

* A key, or a separator, is its rank among the byte strings of the instance
  (rank 0 is the empty string); its length and the result of cutting it against
  another come from real byte strings, computed with `ByteKeys` in
  `MCBTreeWriter`. A value is its length.
* In `BTreeWriter`, where an entry lies within its page; `PageLayout` has that. Sizes are exact to the byte (alignment,
  headers, slots), so room tests and splits are the code's. `convert_root_to_internal`
  leaves old bytes in the page; nothing refers to them and `upper` moves over them.
* In `PageLayout`, what the bytes of an entry say: a half-word is a part of an entry, an offset
  or zero. In `PageDecode` the other way round: a read inside the page returns any value.
* In `Reader`, the binary searches inside a page are taken by their result, as in `BTreeWriter`
  (`search_leaf` and `descend_internal` are the loops of `PageSearch`), and so is the
  decoding of an entry on a page of the writer. Values in `Session` have one length.
* In `MetaPage`, one four-byte and one two-byte field stand for all fields of page headers and entries:
  they are all read by the same two functions.
* A split whose right half does not fit is written to a scratch page that is then
  refused. Whether that shows as `CorruptPage` or as a panic depends on how
  far it overflows, and for an empty left half on the build profile; `Unfit` has the
  cases. One of them is simplified: an overflow that ends within the first 12
  bytes of the 20-byte header overwrites header fields with entry bytes, and what
  `parse` makes of it depends on these; the model takes it to fail. The sizes of
  its checked instances do not reach this case; `PageLayout` does (`GarbleSplit`).
* After a panic the writer is taken not to be used again.

## 3. Runs

`Psize` is 68: 48 usable bytes, which is two or three entries to a page, so that
three levels need few keys. (The code's 4096 differs in nothing but
how many entries it takes; the proofs hold for every page size.) `MaxPages`
bounds the arena: no `put` starts once it is reached, and everything a started call
may do is still explored; a finished state can always take a `del` or a rejected
call, so the bound hides no behaviour below it.

| Run | Instance | Shows |
|---|---|---|
| `mixed` | 5 keys of 0, 1 and 8 bytes with separators cut at byte 1, 2 and 5; values of 0, 3 and 100 bytes; 8 pages; 489 thousand states | type invariant, pages fit, keys sorted, the descent always arrives at the one leaf that may hold the key, no put fails half-way, and the writer implements `Dict` |
| `deep` | 6 keys that only their last byte tells apart; 10 pages; 224 thousand states | three levels, splits of internal pages and of an internal root: key ranges of the children, the spine, no page without a parent, sibling links |
| `large` | 5 such keys with entries of just under and just over half a page; 10 pages; 294 thousand states | puts that fail or panic at a leaf split, and what survives them: still a dictionary, still linked in tree order; every call returns |
| `huge` | separators of more than half a page among short ones; 8 pages; 116 thousand states | internal splits that fail after the leaf was split: pages still fit and links still agree |
| `large_unfit` | as `large` | finding 1 (below) |
| `huge_phantom` | as `huge` | finding 2 (below) |
| `search` | every sorted page over 7 keys, each key searched, each gap and both ends; 29 thousand states | the search loop, for leaves and internal pages, leftmost or not |
| `split` | every full page of up to 5 old entries with costs from a sixth of the page to nearly all of it; 8 thousand states | the split loop |
| `session` | 4 long keys, 6 pages before the last put (three levels); a `finish` seen, failing or killed at any point, a page lost in a crash; 420 thousand states | a lookup or a scan of what is there returns what was stored, in order, or an error, and no error on a whole file; a scan is complete unless the first leaf is empty; a failing step to the next leaf costs one entry; a mapping never changes; a finished file opens; every call of the reader returns |
| `first_leaf` | 3 keys, no faults | finding 3 |
| `layout` | pages of 68 bytes, 5 entries of a quarter of one to two thirds; 392 thousand states | slots refer to whole entries, no space is lost, and the page is the sequence of entries it is taken for |
| `bytes` | four parts that share nothing, one at a time; 1.6 million states | |
| - prefix | every pair of strings of up to 4 bytes over 3 byte values | `bt_defpfx` |
| - meta page | files of either order with 3 page sizes, and any file with 15 values in each of 4 fields and 5 lengths | a file opens everywhere; hosts agree on every file |
| - decoding | pages of 32 and 40 bytes with any header, offset and sizes; a `usize` of 7 bits, so that sums can pass it | nothing outside the page is decoded |
| - chains | every file of 2 overflow pages of 2 bytes each, some damaged, linked in any way; declared sizes up to 5, keys up to 3 bytes | fetching is right, comparing agrees with it, both return |

Why the bounds are enough. Four long keys fill at least three leaves under two levels of internal pages, which gives a descent
more than one turn, a scan siblings under different parents, and empty leaves first, last and
in a row. `MaxLost` is 1: a lookup or a scan ends at the first page it cannot read, so it never meets a second. `Together` is
off: `get` and `Iter` share nothing that changes, so a Db that serves both at once behaves as two. A chain of two pages can be whole,
short, circular in both ways, or lead out of the file, and size 5 needs a third page that is a repetition.
In the decoding part of `bytes` the values of offsets and sizes lie around every bound that is tested, and the page sizes differ
so that each is tested from both sides.

Deadlock is checked in `mixed` and `deep`. In `large` and `huge` a panic ends the
writer, the loops of `search`, `split` and `bytes` end, a session
may end (a dropped writer, a file that does not open), and a garbled page is not followed further, so there it is not.

Fairness. Everything runs in the caller's thread, without locks or waiting: a
call that has begun takes its next step. `FairSpec` says just that (weak fairness of
`Step`, never of `Call`), and so do those of the loops of `PageSearch`, `PageSplit` and
`Overflow`. `SessionFairSpec` has it for a `get` that has begun and for the loops inside `next`, and for nothing else: whether
a caller asks for another entry, opens or closes a file is up to the caller. No caller is
assumed to make any call.

Every property has a mutant: a changed form of one definition, kept beside it and marked
"Mutated form", under which the run finds the property violated.

### Findings

1. `put` checks two bounds and its comment (`src/src/writer/mod.rs:248-250`) says that
   splits then "can never produce a mid-split unfittable layout". They can: with
   entries of more than about half a page, the right half of a leaf's split may
   not fit, and `put` returns `CorruptPage` or panics. `large_unfit` shows the shortest such
   sequence; `large` shows that nothing stored is lost by it. The theorem
   `PutNeverUnfitCorrect` gives a sound bound: no entry and no separator, with its slot,
   above half the usable page.
2. `split_leaf_full` says (`src/src/writer/mod.rs:386-388`) that it pushes the new
   page only after every fallible step, so that an early `?` "can't leave a phantom page
   behind". That holds within the function, not for `put`: the leaf's split
   is committed before the parent's is tried, and when that fails (long keys) the new
   leaf has no separator. `huge_phantom` shows the page; the keys in it are not
   found any more, which is why `huge` checks neither `DescentExact` nor `ImplementsDict`.
   With separators of at most half a page it cannot happen (`NoPhantomPageCorrect`, `DescentCorrect`, `DictCorrect`).
3. `initial_state` is documented (`src/src/iter.rs:109-110`) to go to "the leftmost non-empty
   leaf" and returns `Done` at the first page on the left spine without entries. When `del` has emptied the
   first leaf, a scan yields nothing though the leaves after it have entries. `first_leaf` shows it;
   `ScanAllOrFirstLeafEmpty` in `session` shows that this is the only case.

## 4. Properties

* `TypeOK`: one per module.
* `PagesFit`, `KeysSorted`: what `PageView::parse` and both binary searches rely on, at
  every step and not only between calls.
* `DescentExact`: after any splits, cut separators and deletions, a descent ends in the
  only leaf that may hold the key.
* `ChildRanges`: separators bound the keys below them, and a page's first separator is its
  parent's (so a separator copied up from an internal split is the right one).
* `SpineLeadsToCur`: the recorded hops are still valid after pages below have split;
  `propagate_separator`'s `unreachable!` is unreachable.
* `NoPhantomPage`, `SiblingsAgree`, `LinksMatchTree`: each page hangs from one separator,
  links are each other's inverses, and follow the order of the level above.
* `PutNeverUnfit`: no accepted put fails.
* `ImplementsDict`: refinement of `Dict`, with the pairs of all leaves as the dictionary and `job` as its call.
  `Dict` knows the operation, key and value of the call under way, so it decides what that call must answer
  and change: a `del` that misses its key, or a `put` that stores nothing or another pair, is no step of it. Only a put that has
  begun on an absent key may fail; a put that begins is within the bounds. A put counts when it returns (`Visible`), since
  the leaf is split before. A refusal for size is one step, in which `Dict` sees that nothing changes.
* `CallReturns`, `Terminates`: calls and loops end.
* `ImplementsSnapshot`: refinement of `Snapshot`: whatever part of the file there is, every lookup and every
  scan agrees with the one dictionary that was stored, in order, or ends in an error, and in none when the file is whole.
* `ScanAllOrFirstLeafEmpty`, `ErrorCostsOneEntry`: what a scan that ended has returned, without and
  with an error. (The entry before a failing step to the next leaf was read, and is not returned.)
* `FinishedOpens`, `MappedStays`: `open` accepts what `finish` wrote, and `finish` never
  changes what an early reader has mapped.
* `ReaderCallsEnd`, `BothReturn`: no cycle of links or pages holds a call.
* `SlotsIntact`, `SpaceExact`, `ImplementsContents`: after any moves, each slot refers to its whole
  entry, no gap remains, and the page's entries change as those of a sequence (`PageContents`), until a split
  has written over a header.
* `FetchRight`, `CompareAgrees`: a chain's bytes, and the order of a key to them, also on damaged chains.
* `OpensAnywhere`, `HostsAgree`: byte order makes no difference.
* `ItemsReadable`: what is decoded lies in the page, and no sum has wrapped.
* `LeafSearchCorrect`, `PickCorrect`, `ReadsInRange`; `PlanIsFirstStop`, `LeftHalfFits`,
  `HalfBoundedFits`; `SeparatorDivides`: the loops and the prefix rule.

## 5. Proofs

All for arbitrary constants, from the assumptions named in the modules:
`StringsAssumption`, `PfxAssumption` (what `SeparatorDivides` says of `bt_defpfx`,
restated for ranks: `RanksWillDo`), `PsizeAssumption`; `SearchesAssumption` (pages are sorted, internal pages
not empty); `FullPagesAssumption` (the page was in order, the new entry does not fit); `SessionAssumption`;
`LayoutAssumption` (entries take some room, a page has room for its header);
`DecodeAssumption` (`usize` holds 32 bits and the length of a page); `MetaAssumption` (fields are bytes);
`AlphabetAssumption`; `OverflowAssumption` (a page of a chain holds at least one byte).

| Theorem | Says |
|---|---|
| `TypeCorrect` | `Spec => []TypeOK` of the writer |
| `SpineCorrect` | `Spec => []SpineLeadsToCur` |
| `SiblingsCorrect` | `Spec => []SiblingsAgree` |
| `PagesFitCorrect` | `Spec => []PagesFit` |
| `KeysSortedCorrect`, `ChildRangesCorrect` | `Spec => []KeysSorted`, `Spec => []ChildRanges`, whatever puts fail on the way |
| `DescentCorrect` | `HalfSeps` implies `Spec => []DescentExact` |
| `NoPhantomPageCorrect` | `HalfSeps` implies `Spec => []NoPhantomPage` |
| `LinksMatchTreeCorrect` | `HalfSeps` implies `Spec => []LinksMatchTree` |
| `DictCorrect` | `HalfSeps` implies `Spec => ImplementsDict`, the refinement, call by call |
| `PutNeverUnfitCorrect` | `HalfSeps` and `HalfLeaves` imply `Spec => []PutNeverUnfit` |
| `LeafSearchIsCorrect`, `PickIsCorrect`, `ReadsStayInRange` | the search loop is right on sorted pages of any length |
| `PlanIsCorrect` | `psplit_loop` stops at the first place where it must: `IsSplit` |
| `LeftHalfAlwaysFits`, `SplitOfHalfBoundedFits` | the left half always fits; both do, and neither is empty, if no entry takes more than half a page |
| `SlotsAlwaysIntact` | on a page of any size, with entries of any sizes, every slot refers to a whole entry, as long as no header was written over |
| `SpaceAlwaysExact` | `Spec => []SpaceExact` of such a page: what is not free is what its entries and slots take |
| `ContentsCorrect` | `Spec => ImplementsContents` of such a page: its entries change as a sequence would |
| `FinishedAlwaysOpens`, `MappingNeverChanges` | `FinishedOpens` and `MappedStays` of every session, faults included |
| `SessionTypeCorrect` | `SessionSpec => []SessionTypeOK` |
| `SnapshotCorrect` | `HalfSeps` implies `SessionSpec => ImplementsSnapshot`, the refinement |
| `ScanAllCorrect`, `ErrorCostCorrect` | `HalfSeps` implies `SessionSpec => []ScanAllOrFirstLeafEmpty`, `SessionSpec => ErrorCostsOneEntry` |
| `HostsAlwaysAgree` | hosts of the two byte orders agree on every file whatsoever |
| `ItemsAlwaysReadable` | what is decoded from a page of any content lies in the page |
| `OpensOnEveryHost` | `GoodPsizes` implies `MetaSpec => []OpensAnywhere`: what was written is read, on hosts of both byte orders |
| `SeparatorAlwaysDivides` | `SeparatorDivides` for byte strings of any length |
| `RanksWillDo` | what the tree modules assume of ranked keys is so of the ranks of every finite set of byte strings with their prefixes |
| `FetchAlwaysRight` | `OverflowSpec => []FetchRight`: the bytes of a chain, for every file |
| `CompareAlwaysAgrees` | `OverflowSpec => []CompareAgrees`: a lookup's comparison with a chain is that with its bytes |

*The writer's invariant.* `TypeOK` is not inductive: that a separator's child is a page at
all, or that the pages passed on the way down are still internal, does not follow from
it. `IInv` (in `BTreeWriter_proofs`) adds that the arena can be *leveled*: there is a
function from pages to naturals that is lower at each child than at the page that refers to
it, and no page refers to the root; that the spine leads from the root to the current page,
one page lower at each hop; and, on the way up, that the separator's child exists, is not
the root, and is no higher than the page that was split, so that it may hang where the climb
is. Levels make the tree's shape survive: a split adds a page at the level of the split
one, and root growth raises the root above two new pages. The level function is not a
variable; the invariant says that one exists, and each step proves that a new one
does. That a full leaf is never empty (needed where its last key is read) comes
from `put`'s first bound (`EmptyLeafHasRoom`). `SiblingsCorrect` adds `Linked`: links stay within the arena,
never lead to the page itself, and are each other's inverses.

*Two hypotheses.* `HalfSeps`: of the separators that `put` admits, none takes more than half a page with its
slot; `HalfLeaves` says it of leaf entries. The code guarantees neither (`put` admits what fills a page alone), and
without them the properties they are needed for fail: `huge` violates `HalfSeps` and has finding 2; `large` satisfies it but
violates `HalfLeaves` and has finding 1. `mixed` and `deep` satisfy both, `session` the first. On pages of 4096 bytes `HalfSeps`
holds if keys have no more than 2,000 bytes, `HalfLeaves` if keys and values together have not.
`PagesFit`, `KeysSorted` and `ChildRanges` need neither.

*Sizes.* `FitInv`: every page fits, every key in the tree would fit into a new root beside the empty key, and so would the
separator on its way up. Where a page has room, the guard of the insertion says so; where a page is split, `SplitPlan`'s own
test of the halves does. The lemmas behind it are that an entry list costs what its parts cost (`CostParts`) and that
an insertion adds what the entry costs (`CostOneMore`), inductions over the number of entries. They are done on sets:
the set of numbers for which the fact holds has 0 and each successor of a member, so it is `Nat` (`NatInd`).

*Keys.* That keys are in order and in range is not inductive: a separator is
inserted after the page below it has been split, and must land between the right neighbours. The
invariant (`Shape`) gives each page of the tree a least key `lo` and a level `lv`: a
separator's key is its child's `lo` and its child's level is one less, the keys of a page end
before any page begins that is not below it, and no two pages of a level begin
alike. On the way down the key belongs to the current page (`Arrives`); on the way up the new page comes
just after the split one (`Beside`) and begins with the separator's key, which is why the slot recorded
on the way down is right. `lo` and `lv` are not variables either: a split gives the new
page the separator's key and the level of its neighbour.
A put that fails after its leaf was split leaves pages behind that hang from nothing. So
`Shape` speaks of a set `A`, the pages in the tree, and says of the others only that
they refer to nothing in `A` and keep their ranges. Under `HalfSeps` no separator is left without a place (`SepNeverUnfit`), and
`A` is the whole arena (`WholeInv`). `DescentExact` follows from `Arrives`; `NoPhantomPage` from
`Attached` and `Apart`: each page hangs from a separator, and no two separators have the same child.

*The dictionary.* While a put is on its way up, its pair is stored and not visible
(`Pending`), and a writer that waits has no call (`Waiting`), so that the next one can begin in `Dict` too. A step that
changes a leaf, or finds the answer in it, and ends the call is the answer `Dict` gives to that call (`KeyPresent` and `KeyAbsent`: the leaf
reached tells whether the key is stored anywhere); the split that begins
a climb changes what is stored but not what is visible; the steps above move no
pair, and the last one makes the pair visible. That the key a put adds is in no other leaf is `DescentExact`.

*Links.* `LinkInv`: from each separator's child the next link leads to the child of the next separator, on the same page or
first on the page after it. On the way up the page that was split stands with the new page
for one (`Follows`), since the new page has no separator yet. When its separator takes its place after that of its neighbour, the
exception ends (`PlaceLinks`), or moves one level up with the next split. `Kinds` says that the page after a page is of its type.

*The loops.* `PageSearch_proofs`: slots before `base` are smaller, slots from `base + lim`
on are larger; `PageSplit_proofs`: `nxt` and `used` are functions of `off`, and no
earlier `off` was a place to stop.

*The layout.* That a slot refers to a whole entry is not inductive: a deletion moves what lies below the
deleted entry, and an entry that overlapped it would be torn. The invariant adds that the entries on
the page are distinct. Since every half-word says which entry it is a part of, two distinct entries
that are both whole cannot overlap, and so the move takes each entry as a whole or not at all. During a
split it says the same of the fresh page, as far as it has been filled, while the page that is copied from stays as it was.

For the sequence of entries (`ContentsCorrect`) the invariant must also say which slot has which entry. Of an insertion or a deletion this
is a lemma (`InsertContents`, `DeleteContents`). Of a split, whose steps come one entry at a time, it is `HalfInv`: for some places `i` and `b` and
some `m`, what goes to the fresh page are the `m` entries behind the first `b` of the page with the new one at `i`; the slots filled so
far hold the first of them, the slot kept free is the new one's, and the counters stand where they must. `BeginSplit` chooses such `i`, `b` and `m` in each of its
four cases (the target left or right, the half copied left or right), and a commit finds all `m` in place (`CommitHalf`).
For the space (`SpaceAlwaysExact`) `HalfInv` adds that what was copied takes as much room there as it did here (`CopiedRoom`), and
`Filled` that all entries with their slots take what is not free. The sums are running ones, `PrefixCost`; that a run of entries
costs the same wherever it begins (`CostShift`), and that one more entry costs what it takes wherever it is put (`CostOneMore`), is
shown by induction (`NatInd`). `HalfInv` and `Filled` were checked by TLC as invariants of `layout` before they were proved.

*Sessions.* `SessionIInv` says what the file is to the arena: as long as the writer is open the file
is empty; afterwards it holds a prefix of the arena, which no longer changes; a
mapping is no longer than the file was. Every step of a session is a step of the writer or leaves the writer alone
(`SessionIsWriter`), so the writer's theorems hold in a session.

*Lookups and scans.* A file is mapped only when the writer is between calls, and its pages then are a tree
in order (`Planted`): `Shape`, `Attached`, `Kinds`, `InOrder` and `Linked` together. What a reader does with such a tree,
whatever pages of it are missing, follows from facts about the tree alone:
the next links of a level visit its pages in the order of their least keys (`LevelsInOrder`), which is
shown level by level from the root down, since `InOrder` speaks of the level above only; so between the last key of a leaf and the
first key of the next one that is not empty nothing is stored (`AcrossLeaves`). `ScanInv` says where a scan is: what it has returned is
all that is stored below the entry it is at, in order, and on the way down the left spine that the page is the first
of its level; between two leaves, that those passed over are empty. `LookupInv` is
the writer's `Arrives` for a `get`. They are invariants (`ScanWalk`, `LookupWalk`); the steps of
`Snapshot` are read off them.

*Byte order.* Each host decides on the first word alone. The magic number is not
its own byte reversal, so hosts of different order, reading the same word, decide
differently, and what they then read is the same number, unless neither order gives the magic number.
Of a file that was written (`OpensOnEveryHost`) the invariant says that it is still as the writer left it; that its length is a
whole number of pages is a fact about remainders (`WholePages`). The hypothesis `GoodPsizes`, that the page sizes written are
those `Db::open` takes, is true of this writer, which writes 4096 only; the run takes 512 and 32768 as well.

*Decoding.* Each step's bound is the next step's: `linp` ends at `lower`, the header's nine bytes lie
in the page, so its end does not wrap, and the payload's end was computed with checks.

*Separators.* `bt_defpfx` returns the first place at which the lower string has the smaller byte, or the place behind its
end (`DefpfxFacts`). A cut there is above the lower string, every string is at or above what it begins with
(`TruncatedIsBelow`), and a shorter cut is something the lower string begins with as well (`TooShort`). No induction is needed.

*Ranks.* The writer and the reader are modelled on keys that are numbers, their ranks. `RanksWillDo` says that this loses nothing: the order
of byte strings is total and transitive (`PrecedesTotal`, `PrecedesTransitive`), so the strings below the lower of two are fewer than
those below the upper one, and the order of ranks is that of the strings (`RankFacts`); with `PrefixDivides` the ranks satisfy
`PfxAssumption`. The set must be finite, as the keys of a file are.

*Chains.* `FetchInv`: what was put together is what the first `k` pages of the chain hold, all of which can be reached; it ends at
the declared size, and otherwise with a page. That `Walk`, a function defined by recursion, is what its definition says is itself
proved (`WalkFacts`): for each length a function that follows the chain so far exists, by `NatInd`. The bytes are found by quotient
and remainder (`QuotientIs`, `QuotientBelow`). `CompareInv` says of the comparison that the bytes of the key that were compared are what the
first pages of the chain hold, in the same words (`FetchedTo`); so they are the beginning of what the fetch
returned (`FetchedIsLongest`). A page that decides then decides for the whole strings (`RestsDecide`: the first difference of the
parts is the first difference), and a page that cannot be reached is the one the fetch failed at (`FailsAlike`).

*Why PickCorrect matters*: the code treats the first separator of a leftmost internal page as below every key.
The proof shows that on sorted pages this special case changes no answer, so
`IsPick` need not have it.

## 6. What is only model-checked, and why

* Liveness (`CallReturns`, `Terminates`, `ReaderCallsEnd`, `BothReturn`): outside the prover's fragment. Every other property of a
  passing run is stated by a theorem.

## 7. Not modelled

The tests, examples and C tools, which drive or read the library; texts of errors; `mmap` itself and a file changed by others while it
is mapped, which the documentation of `Db` excludes (a `finish` that is still writing is modelled); the recno access method and the
free list, which the code rejects or leaves empty; the memory `fetch_overflow` allocates before it has
seen a chain. A session on pages with overflow entries is not composed: this writer makes none.

Three things met while modelling that no run states. `write_entry_at_slot` has no test of room: entries of
more than half a page may leave no room for the right page's header, which is then overwritten by the new entry before
`parse` judges it, so bytes that look like a header pass (`GarbleSplit`; the bound of `SplitOfHalfBoundedFits`
excludes it). `parse` leaves `linp` and entries unchecked because a bad offset or a torn write is caught when
the entry is read (`src/src/page.rs:102-112`); what is caught is a read outside the page (`ItemsReadable`), while an
offset into the free space, or an entry of zeros, decodes. For that reason a crash in `Session` costs whole pages.
And `Error::BadMagic` holds the word found with its bytes exchanged: what is not the magic number is taken for the other byte order first.

Arithmetic is unbounded: offsets are below 32,768 by the limit on page sizes, and page numbers (32 bits)
would take 16 TiB of arena to overflow; `next_free_pgno` panics then.

## 8. Plan

Done, in this order: `Entries`, `PageOps`, `Dict`, `BTreeWriter` with its runs; `PageSearch`,
`PageSplit`, `ByteKeys`; their proofs; `Reader`, `Snapshot`, `Session`; `PageLayout`, `PageContents`;
`Overflow`, `MetaPage`, `PageDecode`; the theorems on these and on the file's life; the writer as a search tree, as a
dictionary and as linked levels; the reader on what the writer wrote.

Next theorems: that a split which `PageSplit_proofs` shows to fit on bounded entries is the one `BTreeWriter` makes under
`HalfLeaves`, in one statement; that a `get` in `Session` returns what a `get` in `Dict` would when the writer has finished.

## Running

    tlc -config MCBTreeWriter.cfg MCBTreeWriter
    tlc -config MCBytes.cfg MCBytes
    tlapm BTreeWriter_proofs.tla
    tlapm BTreeKeys_proofs.tla
    tlapm Session_proofs.tla
