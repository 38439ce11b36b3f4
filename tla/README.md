# A TLA+ model of btrfs-forensic

This directory models the reader (`core/`) and the auditor and carver
(`forensic/`) of btrfs-forensic, checks them with TLC on small images, and
proves the main results for images of any size with TLAPS.

The program is sequential and read-only: its input is a byte image that nobody
is writing, and every entry point is a function that returns. What makes it
hard is the input. The image may be damaged, tampered with, cut short, or taken
in the middle of a transaction, and the program reads its trees through
structures (the chunk map, the backup roots) that come from the same image. The
hard behaviours are therefore the order in which linked structures are visited,
walks that could fail to end, budgets that run out, errors that are swallowed
on the way, blocks that no longer hold what a pointer to them promises, packed
records whose lengths come from the image, and a source that delivers less than
it was asked for.

## Inventory

| Component | State it keeps | Operations | What makes it correct |
|---|---|---|---|
| Chunk map and walk (`core/src/node.rs`, `chunk.rs`) | entries so far, stack, budget, `bootstrapped_root` | `ChunkMap::walk`, `add_from_node`, `logical_to_physical` | maps exactly the chunks of the tree; never moves a mapped address; returns on cyclic trees; agrees with `read_node` |
| Node reader (`core/src/node.rs`) | none | `read_node`, `Node::parse`, accessors | bounds-checked; the map before the sys_chunk_array |
| Superblock, checksum (`superblock.rs`, `crc.rs`) | none | `Superblock::parse`, `superblock_crc_status` | a bad checksum is reported, not fatal |
| Record framing (`chunk.rs`, `node.rs`, `fstree.rs`, `extent.rs`) | cursor, records or bytes so far | `parse_array`, `parse_items`, `parse_key_ptrs`, `Chunk::parse`, the loops of `list_xattrs` and `list_inode_refs`, `decompress_lzo_btrfs` | stays in the buffer; no byte in two records; reads back what was written; ends |
| FS_TREE (`fstree.rs`) | none | `fs_tree_root`, `read_inode`, `list_dir`, `read_by_path`, `list_xattrs`, `list_inode_refs` | a miss is loud; every link once, found from both of its ends |
| File content (`extent.rs`) | bytes assembled so far | `read_file_from_leaf`, `read_regular_extent`, `decompress_extent` | every byte at its offset; no silent short read; bounded allocation; legitimate files are read |
| Checksum sweep (`forensic/src/lib.rs`) | stack, `seen`, budget, anomalies | `sweep_node_crcs` | no false alarm, no duplicate, no miss; returns |
| Auditor (`forensic/src/lib.rs`) | the anomaly list | `audit_image` and its five checks | silent on clean images; tampering is reported; silence means something |
| Recovery (`forensic/src/lib.rs`) | recovered files | `recover_deleted`, `recover_deleted_from_leaves` | only deleted files, as they were, each once, and all that still stand |
| Findings (`forensic/src/lib.rs`) | none | severity, code, note, `audit_findings` | rendering |
| VFS adapter (`vfs.rs`) | buffered image, map, one leaf | `open`, `fill`, `lookup`, `read_dir`, `meta`, `hardlinks`, `data_streams`, `read_at`, `read_link` | tolerates short reads; the view is what was written; every way to a file agrees |

`audit_image` calls `ChunkMap::walk` (its error becomes an empty map), then
`read_node` on the two live roots, the sweep, the check of the backup slots and
the orphan scan, which uses `fs_tree_root`. `recover_deleted` calls the walk,
`fs_tree_root` and `read_node`, then compares each backup FS_TREE root with the
current one and carves with `read_file_from_leaf`. `BtrfsFs::open` copies the
source with `fill`, calls the walk and `fs_tree_root`, and keeps one leaf; its
methods read that leaf, except for file content, for which `read_file` finds
the leaf again. The map built first is what everything later is read through. The hazards this gives rise to are listed,
each at its line, in `PROJECT.json`.

## Modules

| Module | Models | Used by |
|---|---|---|
| `BtrfsImage` | image, superblock, node and chunk as parsed; both lookups; `read_node` | all |
| `Reachability` | what a walk has to visit: the least closed set | `ChunkWalk`, `NodeSweep`, `Audit` |
| `ChunkWalk` | `ChunkMap::walk` | `Audit`, `Vfs` |
| `TreeAudit` | abstract: visit what is reachable, each node once, in any order | `NodeSweep` |
| `NodeSweep` | `sweep_node_crcs` | `Audit` |
| `ReadFile` | `read_file_from_leaf`, `read_regular_extent`, `decompress_extent`, `guard_alloc` | |
| `Framing` | the cursor loops over packed records and LZO segments | |
| `FsTree` | `fs_tree_root`; what its items hold (`HasItems`) | `Audit`, `Recover`, `PathResolve` |
| `PathResolve` | `read_inode`, `list_dir`, `list_xattrs`, `list_inode_refs`, `read_by_path` | `Vfs` |
| `Vfs` | `BtrfsFs`: `fill`, `open` composed with `ChunkWalk`, and the methods; `read_file`, `read_by_path_content`; a client | |
| `Audit` | `audit_image`, composed of `ChunkWalk` and `NodeSweep` as instances | |
| `CowHistory` | external: the kernel that wrote the image, with crashes and block reuse | `Recover` |
| `Recover` | `recover_deleted`, `recover_deleted_from_leaves` | |
| `ImageLemmas` | lemmas on sequences used as stacks, least elements, reachability, and the lookups | the proofs |
| `ChunkWalkProofs`, `NodeSweepProofs`, `FramingProofs`, `ReadFileProofs`, `AuditProofs`, `VfsProofs`, `RecoverProofs` | the theorems on the module each is named after | |
| `MC*` | the small instances | the runs |

**State and actions.** A variable has the name of the local it models (`map`,
`stack`, `seen`, `budget`, `out`, `bootstrapped_root`, `seen_inodes`). One
action is one way through one iteration of a loop: `ChunkWalk!Unmapped` is the
iteration whose translation fails, `ChunkWalk!AddLeaf` the one that reaches a
leaf. `break`, `continue` and every early return have their action. A function
without a loop is an operator (`MapLookup`, `fs_tree_root`, `RegularBytes`).
An address on the stack after a budget `break` stays there in the model, which
is how a walk that was cut short can be told from a finished one. `PROJECT.json`
maps each definition to its lines.

**Data.** A block is the record `Node::parse` makes of it. `intact` says that
the stored digest is right for the block behind its 32-byte checksum field,
header included, which is what the code verifies. Addresses are `0..MaxU64`,
so that the checked and saturating additions of the code meet their limit; a
lookup that yields `Option::None` is `None`. Device ids, stripes after the first
(the code never uses them), file modes and times are left out. A codec is a
stream: what it decodes to, and whether it then ends or turns out damaged.

In `Framing` a buffer is its length and the headers in it: a header is the one
or two lengths the loop reads, and the record at an offset is the one its writer
laid there (`IsLaid`: each starts where the one before ends, an LZO header is
pushed to the next sector when it would cross its end), unless that header was
overwritten or nothing was laid there. Then
the loop meets any of the headers in `Garbage`. The choice is made when the
cursor arrives; no loop reads one place twice. In `Vfs` the unit a source
delivers is a block, and a name is a model value with `Lossy`, the name it is
shown as (`String::from_utf8_lossy`), under which different names may coincide.
A list that a loop over the leaf collects is a function on the places its
elements were read from (the item, or the item and the record in it), whose
order is the order of the list; the index a client uses is the number of places
before. The methods of the adapter change no state and are operators; the
actions `Lookup`, `PickStream` and `ReadPiece` are a client that calls them.
A source whose leaf is undamaged carries the filesystem it was written from,
`fs`: modes, contents, links and attributes. `Holds` says that the leaf has that
filesystem's items. It is what the kernel writes when the whole FS_TREE fits in
one leaf, stated item by item and not by the readers: an INODE_ITEM with size
and link count; a DIR_INDEX for every link, and no directory item whose first
record names anything but a link; one reference and one attribute record for
each link and attribute, in any items. The root directory has one more
reference, `..` to itself, which counts as its one link and which no directory
item repeats (`RefsTo`). A directory's size is that of its names and it has no
extents, so that its content, as the reader assembles it, is zeros. Left out are
links to subvolumes and links so many that the kernel moves them to
INODE_EXTREF items, which the code does not read. The instance has the leaf of
`tests/data/btrfs_hardlink.fs-tree.txt` among its sources.

**CowHistory** is not part of the repository. It is what the comments and the
logic of `recover_deleted` take for granted about the kernel: copy on write
into free blocks, then a superblock write that commits and fills the next
backup slot. New data goes to a data block that no committed file uses. A crash before the superblock loses the transaction and leaves its
blocks. Inode numbers go on from the highest in the committed tree after a
crash. The allocator takes the first free blocks from any starting point. The
items of a leaf are a function on places: entries, inodes and extents each in
the order of their keys, which is all that the readers depend on.

## Runs

`CHECK_DEADLOCK FALSE` everywhere: the functions return, and there is nothing
to do afterwards. No symmetry is used: addresses are numbers with an order.

| Run | Instance and bounds | What it shows |
|---|---|---|
| `chunk_walk` | three blocks, each any of 13 nodes (leaves with sound, overflowing, contradicting or no chunks; interior nodes that share, repeat, dangle or loop), five sys_chunk_arrays, `WalkBudget` 3 | `StaysInTree`, `MapIsExact`, `ReadNodeAgrees`, `BudgetSuffices`, `ErrLosesNothing`, `TranslationIsStable`, `WalkReturns` |
| `node_sweep` | three blocks, each intact, with tampered body, bytenr or fsid, or free; backup roots that share subtrees; `SweepBudget` 6 | `ReportsAreReal`, `ReportedOnce`, `SweepIsComplete`, `CutMeansManyReferences`, `ImplementsTreeAudit`, `SweepReturns` |
| `read_file` | all files of up to two extents out of 18 kinds at two offsets, and of three sound ones at four offsets, inode sizes that cut, meet and exceed them | `ContentIsExact`, `SoundFileIsRead`, `OkMeansEveryExtentRead`, `AllocationBounded` |
| `audit` | four blocks: chunk tree, root tree, current and former FS_TREE, each sound or damaged, the current FS_TREE also with an interior root above the former one's leaf; logical addresses below and above the image length | `CleanIsSilent`, `TamperIsReported`, `SilenceIsEarned`, `OrphansExactlyOnce`, `AuditReturns` |
| `framing` | up to three records of each kind, buffers cut at every byte or longer than the records, declared sizes below and above, each header overwritten in turn by one of three; for LZO sectors of 4 and 5 bytes with 2-byte headers, and the sector sizes 0 and 1 of a damaged superblock | `RecordsApart`, `WrittenIsReadBack`, `FramingReturns` |
| `vfs` | sources of up to six blocks that deliver any number of blocks per read, end at every block, fail, or lack superblock, chunks, ROOT_ITEM or leaf; filesystems with every subset of six links between two directories, a file and a symbolic link, device or fifo, with colliding hashes, and up to three attributes; the leaf of the repository's hard-link fixture; leaves with any one item lost or any entry led astray | `OpenedViewIsTrue`, `PathWalkAgrees`, `LinksBothWays`, `StreamsReadBack`, `OpenReturns` |
| `recover` | six tree blocks, two data blocks, three backup slots, four generations, two files, one crash, whole and truncated image | `RecoverySound`, `RecoveryComplete`, `RecoveredOnce` |

Every run also checks its module's type invariant. Why these bounds are enough:

- Budgets of 3 and 6 are smaller than the walks that cyclic and shared trees
  ask for and larger than the walks of proper trees, so that both "cut" and
  "done" are reached. With three blocks a node can be shared, be its own
  ancestor, dangle, and lie behind a corrupt one.
- `MaxU64` is the smallest value at which some chunk's end overflows.
- In `recover`, one slot holds the current tree and the two others are
  compared with it, so that the merge across slots happens (with two slots it
  never would); slots are filled in rotation, so that slot order differs from
  the order of generations. Six blocks force the reuse of freed blocks, and the
  crash can come before any commit. `LeafCap` 1 makes a two-file tree split.
  With first fit over two data blocks the next new file takes the block of a
  deleted one, and the truncated image has no data blocks.
- In `framing`, a 5-byte sector puts a 2-byte header on, before and across a
  boundary; the third record shows what a wrong step over the first two does.
- In `vfs`, `MaxU16` is 1 so that the third attribute's index saturates, names
  "a" and "b" share a hash and with it a DIR_ITEM, "x" and "y" are shown alike,
  and paths of three names go through a file and back out of a directory.
- In `read_file`, two extents already meet in every order, with and without a
  gap, and the third shows a shift behind two correct ones.

Five runs show where the code does something other than a comment or a doc of
the repository says. They are findings, with quotations, in `PROJECT.json`:

| Run | What TLC finds |
|---|---|
| `tamper_hidden` | a node with a tampered header fails its checksum and is skipped as foreign |
| `clean_image_doc` | a clean image gets a backup-root finding when its metadata is at logical addresses above the image length |
| `file_gaps` | without hole items in the middle of a file, later regions are returned too early |
| `recover_live` | with an interior current FS_TREE root, existing files are returned as deleted |
| `recover_fabricated` | a file of a transaction that was never committed is recovered from a reused block |

Further places where a comment says more than the code does, met on the way:

- `ChunkMap::walk` documents one error, an unreadable `chunk_root`
  (`node.rs:427`); it also fails when the first child visited lies outside the
  image (`node.rs:475`).
- `parse_array` documents that an absurd `num_stripes` "is capped"
  (`chunk.rs:138`); it ends the array instead.
- "Scan every reachable `FS_TREE` leaf" (`lib.rs:475`): `scan_orphans` reads the
  node at each FS_TREE root and no other (`lib.rs:497`), so that an orphan below
  an interior root is not reported. `OrphansExactlyOnce` is stated for what is
  scanned, trees of one leaf, and the instance has images with an orphan below.
  It is the same shortcut as the one `recover_live` shows.
- "every `name_len` / `data_len` is clamped ..., so a lying length yields a
  truncated name" (`fstree.rs:28`): true of `parse_dir_item`; the records of
  attributes and inode references are refused (`fstree.rs:452`, `546`).
- `hardlinks` of the root directory gives its `..`, which no `read_dir` lists;
  a client that looks the names up again does not find this one.
- The default stream of a directory reads as zeros, as long as the directory's
  size, without an error: `read_file` does not look at the inode's kind and
  takes the missing extents for a sparse tail (`extent.rs:214`).
- The break at `extent.rs:415` is marked unreachable; it is reached when the
  source ends inside a segment header, and yields a short result without an
  error.
- A name that is not UTF-8 is "surfaced, not dropped" (`fstree.rs:258`): two
  links of one inode in one directory whose names are shown alike become one
  entry. `LinksBothWays` counts them as one.
- `lookup` (`vfs.rs:211`) compares the client's bytes with the shown name, so a
  name that is not UTF-8 is found under its shown form only.
- A device is `Other` in `read_dir` and `Device` in `meta` (`vfs.rs:92`, `112`).
- "Recovery succeeds only while the old extents are unoverwritten"
  (`lib.rs:633`): when the data block of a deleted file was written again, the
  call does not fail but returns the new bytes as the file's content, with their
  hash. `RecoverySound` claims the content only for blocks that still stand.
- A source that ends early opens without an error when the FS_TREE leaf is in
  the missing part: a zeroed block parses as an empty leaf. `OpenedViewIsTrue`
  allows exactly that.

**Fairness.** `WF_vars(Next)` in the sequential modules: the caller's thread
runs the loop until it returns, nothing can keep the next iteration from
running. In `Vfs` only the steps of `open` are fair, `WF_vars(OpenStep)`: a
source's read returns (with bytes, with none at the end, or with an error), and
a client may stop calling at any time. `Recover` states no liveness and no fairness.

**Assumptions in properties.** `SelfDescribing` (in `ChunkWalk`) is what mkfs
and the kernel guarantee, chunk-tree nodes lie in SYSTEM chunks whose items
repeat the sys_chunk_array; without it the walk may be led anywhere, since it
reads through its own map. `ContentIsExact` assumes files without gaps,
see `file_gaps`. `RecoverySound` assumes that the current tree is one leaf and
that the slots' roots are still in place, see `recover_live` and
`recover_fabricated`, and claims the content of blocks not written since. `CleanIsSilent` assumes backup roots below the image
length, see `clean_image_doc`. Each of these has a run that shows it is needed.
`TamperIsReported` is about the two trees the superblock names, the root tree and
the chunk tree; the trees of ROOT_ITEMs are swept only where a backup slot names
them. `SilenceIsEarned` and `OrphansExactlyOnce` claim orphans of FS_TREEs of one
leaf. `LinksBothWays` and `StreamsReadBack` speak of leaves that hold what was
written (`Undamaged`, by `Holds`), `PathWalkAgrees` of any leaf, as long as the ROOT_ITEM names the
root directory that `read_by_path` assumes. `StreamsReadBack` leaves out
attributes beyond the 16-bit index.

## Proofs

All theorems hold for every image, every chunk map, every leaf, every source,
every `MaxU64`, `HeaderSize` and budget, and those on the recovery for every
device size, number of backup slots, leaf capacity and number of generations,
files and crashes. The assumptions are the typing of the
constants, which TLC evaluates on the instances:

- `WidthAssumption`, `HeaderAssumption`, `ImagesAssumption`, `InputsAssumption`,
  `WalkBudgetAssumption`, `SweepBudgetAssumption`, `BudgetAssumption`: addresses
  are a width, images are images (`IsImage`), budgets are numbers;
- in `Framing` `CallsAssumption`, `GarbageAssumption`, `SizesAssumption`; the
  first includes `IsLaid`, how the kernel lays records: one behind the other,
  names and segments not empty, a segment at most a sector of output. Where the
  buffer ends and which header was overwritten is free; in
  `ReadFile` the inputs are leaves over an image whose length is below
  `u64::MAX`, and `AllocAssumption` types the allocation bound;
- `HasItems` in `FsTree` and `HasRecords` in `Vfs`: the numbers an item holds
  are u64s and the values bytes, which is what the parsers produce;
- in `Vfs` `SourcesAssumption`: a source claims an image and delivers a part of
  it, and `Described`: `chunk_at` and `fs_at` really are the blocks that the
  recorded chunks give to the chunk tree and to the FS_TREE root. It defines
  what "the leaf that was written" means and says nothing of the reads. For an
  undamaged source it also includes `Holds`, the leaf has the items the kernel
  writes for the filesystem `fs`;
  `SuperAtAssumption`, `MaxU16Assumption`, `ClientAssumption` (a client's buffer
  holds at least a byte) and `RootDirAssumption` type the rest;
- in `CowHistory` `HistoryAssumption`: the device has room for the two blocks
  mkfs writes, its addresses fit the width, and the bounds are numbers.

**`ChunkWalkProofs`.** The inductive invariant `WalkInv` adds two facts to the
types: before the first translation the map is empty (which gives
`ErrLosesNothing` in the `Unmapped` branch), and on a self-describing image
`TreeInv`. `StaysInTree` alone is not inductive: that the next pointer is read
where the sys_chunk_array puts it follows from the chunks collected so far all
belonging to the tree, and those belong to the tree because earlier pointers
were read in the right place. For completeness there is no set of visited nodes
in the code to talk about; `Accounted(V)` says that some set V of addresses
exists whose pointers are on the stack or in V and whose chunks are in the map.
When the stack is empty V is closed, so the tree, the least closed set, lies
inside. From this: `TypeCorrect`, `WalkErrLosesNothing`, `WalkStaysInTree`,
`WalkIsExact`, `WalkAgreesWithReadNode`. `WalkTranslationIsStable` needs only
that entries are appended (`LookupStable`): the first match decides.
`WalkBudgetSuffices` is an account, `PaidInv`: some set of tree addresses has
been paid for, one unit of budget each, and what waits on the stack is new,
waits once and hangs below that set. A proper tree names every node once, which
is what keeps the two apart.

**`NodeSweepProofs`.** `SweepInv`: nothing reachable is forgotten between two
iterations (`NothingLost`: a root or a child of a visited genuine node is
visited or pending, in the stack or in the running push loop), everything seen
or pending is reachable, and the reported addresses are exactly the corrupt
ones seen, without repetition. From this: `TypeCorrect`, `NoFalseAlarm`,
`NoDuplicateReport`, `NoSilentMiss`, and `SweepRefinesTreeAudit`, which maps the
stack and the push loop to the abstract set of found nodes; a push and a pop of
a known address are stuttering steps. `CutIsEarned` (`RefInv`) charges every
pop to one pointer, a seed or a key pointer of a visited node: the pointers paid
for, on the stack and in the push loop are together all that were met. An empty
budget with a filled stack therefore means more than `SWEEP_BUDGET` pointers.
`SweepIsBounded` gives the variant behind `SweepReturns`: every step that does
not end the sweep lowers the pair of budget and addresses still to push.

**`FramingProofs`.** `RecordsApart` for buffers, headers, counts and sector
sizes of any size. It is not inductive: that a new record does not overlap the
earlier ones follows from `BehindCursor`, all of them end at or before the
cursor. `PushKeepsApart` says once what a loop owes for that (the record starts
at or behind the cursor, ends inside the region, and the cursor moves at least
to its end), and one lemma per loop shows that it pays: `AlignedForward` for the
LZO padding, `FixedFits` and `FixedApart` for the counted loops. `TypeCorrect`
includes that the LZO output never exceeds `cap`.
`WrittenComesBack` speaks of finished loops, so its invariant `ReadPart` says
where a running one is: as long as it has read the intact records only, in their
places (`ReadInOrder`), the cursor is at the end of the last of them
(`CursorAtNext`), and afterwards behind them all. The step from one record to
the next needs that the header found there is the one that was laid
(`HeaderRead`), hence that no two laid records start in one place (`LaidApart`,
an argument about a least pair, since the places are given by a recurrence), and
that the LZO loop's padding is the writer's. One lemma per loop (`ArrayReads`,
`XattrReads`, `RefReads`, `LzoReads`) shows that an intact header gives the
record its writer laid, and that a loop ends early only where a record is cut or
damaged (`FirstBroken`).
`TurnsAreBounded` is the variant behind `FramingReturns`: a turn that does not
end the loop starts inside the buffer and moves the cursor on, so that a buffer
of n bytes costs at most n + 1 turns, whatever its headers claim.

**`ReadFileProofs`.** `ReadInv` is `TypeOK`, the reason for the status
(`StatusExplained`), `Cut` and `ContentIsExact` together. The code appends and
never looks at an extent's file offset again, so `ContentIsExact` is not
inductive: `Cut` says that every extent appended ends where the output does at
the latest, and every one left starts behind it. Without gaps and overlaps the
next extent then goes exactly where its offset says. `OkMeansEveryExtentRead`
and `SoundFileIsRead` are the two directions of `StatusExplained`;
`AllocationBounded` adds up one bound per extent.

**`AuditProofs`.** The auditor composes the walk and the sweep as instances,
and their theorems are used as such: `WP` and `SP` are the proof modules
instantiated with the auditor's variables, and bridge lemmas say that the
instance's operators are the auditor's. `AuditInv` has a part for each phase:
`BasePart` (types, and that without a superblock nothing happens), `WalkPart`
(the walk's invariants, a sweep that has not begun, and no failure on a chunk
tree that can be read), `SweepPart` (the map is the chunk tree's, the sweep's
invariant, a report for each unreadable root and for each corrupt node seen),
`OrphanPart` (the orphans named are those at the roots scanned, each once;
`FoundOrphans` shows that these are all orphans of the trees of one leaf, and
that a deeper tree has none at its root), and
`CleanPart` (nothing was reported on a clean image), which leans on the others:
that the walk was not cut, that the map then finds both roots, and that the
sweep meets intact nodes only. From this: `AuditTypes`, `AuditCleanIsSilent`, `AuditTamperIsReported`,
`AuditSilenceIsEarned`, `AuditOrphansExactlyOnce`.

**`VfsProofs`.** `OpenInv` is what `open` keeps. In `FillPart` the offset in the
source and the number of blocks in the buffer go together: that is what makes
every block arrive at its place however the reads are cut, and
`OpenedViewIsTrue` alone does not say it. `WalkPart` says that the walk's map
holds recorded chunks only, which on a buffer that is partly zeros takes the
zeroed blocks' parsing as empty leaves. From these and `Described`:
`OpenShowsTheTruth`. `ClientPart` says that the trail of nodes is what the
lookups of the path's names returned (`Walked`), and with the types of what each
method returns gives `VfsTypes`. `WalksAgree` compares that trail with the
recursive function inside `read_by_path`: `PathSolved` shows that its equations
have one solution, by the least depth at which two solutions could differ, and
that the trail gives it.
`LinksAgree` and `StreamsComeBack` are about what the readers make of a leaf
that holds a filesystem, for every filesystem that fits in one leaf, order of items and spreading of
records over items. `FoundPart` is what ties the two halves of the adapter
together: the leaf kept by `open` is the one `read_file` finds again through the
map. `ListingLemma` says what `list_dir` keeps when it drops repeated names, and
the counts (entries shown, `nlink`, streams listed) are compared by bijections
between places, records and references (`InjectiveCount`). `StreamPart` is the
invariant of a client between two pieces: what it got is the beginning of the
value its stream stands for, and all of it at the end. It needs that the index a
client hands back leads to the place it was made from (`IndexInjective`,
`StreamsDiffer`), which is where the 16-bit limit enters.

**`RecoverProofs`.** `WriterInv` is what copy on write keeps: the tree of the
superblock and the written, uncommitted one stand on disk (`Tree`), every block
holds a node that the readers can take apart (`NodeOk`), and the data blocks
that any file of the history names have been written (`Stored`). It does not
say that the trees behind the backup slots stand: they need not, which is why
`RecoverySound` and `RecoveryComplete` ask for `Retained`. That a transaction leaves the
committed tree alone comes from `AllocationLemma`, its blocks are free and
differ. `LeafFacts` is the other half: from a leaf with the items of some files,
`inode_set`, `dir_names` and the extent scan get those files back, and
`FileRecovered` says what is carved. `RecoverInv` adds the loop: each file
returned was drawn from a slot that was compared (`DrawnPart`), and whatever the
slots behind gave has been returned from one slot or another, in the slot at
hand all but the files still to merge (`MergedPart`). Neither property is
inductive without these, since the merge by inode drops files and only
`MergedPart` remembers that another slot gave the inode. From this:
`RecoverTypes`, `RecoveryIsSound`, `RecoveryIsComplete`, `EachFileOnce`.

Reachability is defined as the least closed set and not by counting steps, so
that the graph walks need no induction over data; where a fact about numbers
needs one (a least index, the steps of a path, a sum of lengths), it is made as
an argument about a least counterexample, `MinLemma`.

**What the proofs changed in the model.** `TreeShaped` (the proper trees of
`BudgetSuffices`) is stated by pointers and places; in `ReadFile` the file's
content is given byte by byte (`ByteOf`), and the inputs have an image shorter
than `u64::MAX`, without which a saturating sum is not the sum; the auditor's
slot loop does one slot per step (`CheckBackup`); the FS_TREE roots of the
orphan scan are a set of slots; address 0, which the sweep skips, is not a live
node of `TamperIsReported`; `Clean` also asks that the sys_chunk_array repeats
chunks of the chunk tree; the list readers of the adapter are functions on places; the recovery merges one
file per step (`MergeFile`), the items of a leaf in `CowHistory` are a function
on places, and its allocator is given by the first-fit condition; the layout of
written records in `Framing` is a condition on neighbours (`IsLaid`), and the
recursive function that builds such a layout is in `MCFraming`; what an
undamaged leaf holds is a condition on it (`Holds`), which TLC evaluates on the
leaves that `MCVfs` builds.

**Only model-checked:** the liveness properties `WalkReturns`, `SweepReturns`,
`AuditReturns`, `FramingReturns` and `OpenReturns`. Liveness under fairness needs
`ENABLED`, which is out of reach of the prover. For the sweep and the record
loops the safety half of the argument, a variant that every step lowers, is
proved; the walk lowers its budget in every iteration by its guard. Every other
property of the passing runs is a theorem.

## Not modelled

- Byte layout and little-endian readers: which field stands at which offset of
  the superblock, a header or an item, and the label. A model would repeat the
  constants of the code; its tests compare them with real images.
- Anomaly rendering (severity, code, note, evidence, `audit_findings`), error
  texts, sha256: stateless functions of one value.
- The checksum and codec libraries: their results are inputs.
- In `Vfs`: the trait methods that return a constant (`kind`, `sector_sizes`,
  `timestamp_zone`, `extents`, `deleted`, `unallocated`), times and owners,
  the refusal of ids of another filesystem, and reads that split a block. The
  content of a file is what `read_file_from_leaf` returns, which is `ReadFile`.
- `recover_deleted` is modelled for images whose walk succeeds, with files of
  one extent. `audit_image` and `recover_deleted` are modelled on 64-bit targets,
  where `as usize` changes nothing.
- Fuzz targets and tests.

## Plan

Done: `BtrfsImage`, `ChunkWalk`, `NodeSweep` with `TreeAudit`, `ReadFile`,
`Audit`, `CowHistory` and `Recover`, `Framing`, `PathResolve` and `Vfs`, and
the proofs about all of them. Every safety property of the passing runs is a
theorem.

Left: files of several extents in `CowHistory`, so that `RecoverySound` meets
the extent loop of `ReadFile`; and one writer of FS_TREE leaves for both
`CowHistory` and `Vfs`, of which `Holds` would be a theorem.
