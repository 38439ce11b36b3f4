---------------------------------- MODULE Vfs ----------------------------------
(***************************************************************************)
(* BtrfsFs, the forensic-vfs adapter: `open` copies a source into memory   *)
(* that may deliver less than it is asked for, parses it through the chunk *)
(* walk (module ChunkWalk) down to the FS_TREE root leaf, and keeps that   *)
(* leaf; a client then looks names up, lists streams and reads them piece  *)
(* by piece.  The methods of the adapter change nothing: they are          *)
(* operators, and the client's actions call them.                          *)
(*                                                                         *)
(* A source is a record                                                    *)
(*    image    what it claims to hold, as in BtrfsImage, one block per     *)
(*             address; nodes[p].super says that a superblock stands at p  *)
(*    have     the blocks it delivers before it reports the end            *)
(*    faulty   whether a read may fail                                     *)
(*    fs       the filesystem that was written to it: links, mode,         *)
(*             content and attrs of its inodes                             *)
(*    chunk_at the blocks of its chunk tree                                *)
(*    fs_at    the block of its FS_TREE root                               *)
(*    damaged  whether items of fs are not in that leaf: lost or altered   *)
(*             since, or written to other leaves of a larger tree          *)
(***************************************************************************)
EXTENDS PathResolve

CONSTANTS
  Sources,     \* the sources `open` may be given
  SuperAt,     \* BTRFS_SUPER_INFO_OFFSET
  WalkBudget,  \* as in ChunkWalk
  MaxU16,      \* u16::MAX, the largest attribute index
  Names,       \* the names the client asks for
  MaxDepth,    \* bound: components of the client's path
  BufLens      \* bound: sizes of the client's buffers

(* The items of the trees: sequences of records whose numbers are u64s and *)
(* whose values are bytes.                                                 *)
HasRecords(items) ==
  /\ DOMAIN items \subseteq Nat /\ IsFiniteSet(DOMAIN items)
  /\ \A i \in DOMAIN items :
       LET it == items[i]
       IN /\ it.key_type = "ROOT_ITEM" => it.bytenr \in Addr /\ it.root_dirid \in Addr
          /\ it.key_type = "INODE_ITEM" => it.content \in Seq(Nat)
          /\ it.key_type \in {"DIR_ITEM", "DIR_INDEX"} /\ it.recs # <<>> => it.recs[1].child \in Addr
          /\ it.key_type = "XATTR_ITEM" =>
               /\ DOMAIN it.recs \subseteq Nat /\ IsFiniteSet(DOMAIN it.recs)
               /\ \A k \in DOMAIN it.recs : it.recs[k].value \in Seq(Nat)

(* The chunks that the superblock and the blocks B record, and the         *)
(* addresses that the superblock and the blocks B give to the chunk tree.  *)
Recorded(img, B) == Range(img.sb.sys_chunks) \cup UNION {Range(chunk_items(img.nodes[p])) : p \in B}
Named(img, B) == {img.sb.chunk_root} \cup UNION {Range(key_ptrs(img.nodes[p])) : p \in B}

(* What chunk_at and fs_at mean: no recorded chunk puts an address of the  *)
(* chunk tree into another block of the source, and none puts the FS_TREE  *)
(* root that a root tree names anywhere else.                              *)
Described(s) ==
  LET img == s.image
      C == Recorded(img, s.chunk_at)
      Inside(c, l) == SysChunkLookup(c, l) # None /\ InImage(img, SysChunkLookup(c, l))
  IN /\ \A c \in C, l \in Named(img, s.chunk_at) : Inside(c, l) => SysChunkLookup(c, l) \in s.chunk_at
     /\ \A c \in C : Inside(c, img.sb.root) =>
          LET items == leaf_items(img.nodes[SysChunkLookup(c, img.sb.root)])
          IN \A i \in DOMAIN items, d \in C :
               items[i].key_type = "ROOT_ITEM" /\ items[i].objectid = FsTreeObjectid
                 /\ Inside(d, items[i].bytenr) => SysChunkLookup(d, items[i].bytenr) = s.fs_at

(* The kernel's records of a filesystem whose FS_TREE is one leaf: an      *)
(* inode, a DIR_INDEX and a reference for every link, an attribute record  *)
(* for every attribute; and a directory's items hold its links only.       *)
(* Links are few enough to need no INODE_EXTREF and lead to no subvolume.  *)

(* What refers to an inode: its links and, for the root directory, a       *)
(* reference ".." to itself that no directory item repeats.                *)
RefsTo(f, i) ==
  {l \in f.links : l.child = i}
    \cup (IF i = RootDir THEN {[dir |-> i, name |-> "..", child |-> i]} ELSE {})

RefAt(items, i, p) == [dir |-> items[p[1]].offset, name |-> items[p[1]].recs[p[2]].name, child |-> i]
AttrAt(items, p) == [name |-> items[p[1]].recs[p[2]].name, value |-> items[p[1]].recs[p[2]].value]

(* The content is what the reader makes of the extents: the size in zeros  *)
(* for a directory, which has a size and no extent.                        *)
InodeHeld(items, f, i) ==
  /\ HasInode(items, i)
  /\ \A k \in ItemsOf(items, i, "INODE_ITEM") :
       /\ items[k].mode = f.mode[i] /\ items[k].content = f.content[i]
       /\ items[k].size = Len(f.content[i])
       /\ items[k].nlink = Cardinality(RefsTo(f, i))

LinksHeld(items, f, dir) ==
  LET Names1(k, l) == /\ items[k].recs[1].name = l.name /\ items[k].recs[1].child = l.child
                      /\ items[k].recs[1].type = f.mode[l.child]
      Links == {l \in f.links : l.dir = dir}
      Indexes == ItemsOf(items, dir, "DIR_INDEX")
  IN /\ \A k \in Indexes \cup ItemsOf(items, dir, "DIR_ITEM") :
          items[k].recs # <<>> => \E l \in Links : Names1(k, l)
     /\ \A l \in Links : \E k \in Indexes : items[k].recs # <<>> /\ Names1(k, l)

RefsHeld(items, f, i) ==
  LET At == Places(items, i, "INODE_REF")
  IN /\ {RefAt(items, i, p) : p \in At} = RefsTo(f, i)
     /\ \A p, q \in At : RefAt(items, i, p) = RefAt(items, i, q) => p = q

AttrsHeld(items, f, i) ==
  LET At == Places(items, i, "XATTR_ITEM")
  IN /\ {AttrAt(items, p) : p \in At} = ToSet(f.attrs[i])
     /\ \A p, q \in At : AttrAt(items, p) = AttrAt(items, q) => p = q
     /\ \A j, k \in DOMAIN f.attrs[i] : f.attrs[i][j] = f.attrs[i][k] => j = k

Holds(items, f) ==
  /\ IsFiniteSet(f.links)
  /\ f.links \subseteq [dir : DOMAIN f.mode, name : DOMAIN Lossy, child : DOMAIN f.mode]
  /\ \A i \in DOMAIN f.mode :
       /\ f.attrs[i] \in Seq([name : DOMAIN Lossy, value : Seq(Nat)])
       /\ InodeHeld(items, f, i) /\ LinksHeld(items, f, i)
       /\ RefsHeld(items, f, i) /\ AttrsHeld(items, f, i)

IsSource(s) ==
  /\ IsImage(s.image) /\ s.image.len \in Addr
  /\ \A p \in 0 .. s.image.len : HasRecords(s.image.nodes[p].items)
  /\ s.have \in 0 .. s.image.len
  /\ s.chunk_at \subseteq 0 .. s.image.len
  /\ Described(s)
  /\ ~s.damaged /\ s.fs_at \in 0 .. s.image.len => Holds(s.image.nodes[s.fs_at].items, s.fs)

ASSUME SourcesAssumption == \A s \in Sources : IsSource(s)
ASSUME WalkBudgetAssumption == WalkBudget \in Nat
ASSUME SuperAtAssumption == SuperAt \in Nat
ASSUME MaxU16Assumption == MaxU16 \in Nat
ASSUME ClientAssumption == MaxDepth \in Nat /\ BufLens \subseteq Nat \ {0}

VARIABLES
  source,     \* the argument of open; never written
  image,      \* the buffer
  off,        \* fill: the offset of the next read
  filled,     \* fill: the blocks of the buffer already written
  map, wstack, wbudget, bootstrapped_root, result,   \* ChunkMap::walk
  leaf,       \* the FS_TREE root leaf's items
  root,       \* what fs_tree_root returned: bytenr, root_dirid
  phase,      \* "fill", "super", "walk", "root"; then "open" or "err"
  path,       \* the client: the names looked up so far
  trail,      \*   and what each lookup returned, from root() on
  reading,    \*   the StreamInfo of the stream being read, None before
  got,        \*   the bytes read from it
  rstatus     \*   "idle", "reading"; then "eof" or "err"

fillVars == <<source, image, off, filled>>
walkVars == <<map, wstack, wbudget, bootstrapped_root, result>>
fsVars == <<root, leaf>>
clientVars == <<path, trail, reading, got, rstatus>>
vars == <<fillVars, walkVars, fsVars, phase, clientVars>>

W == INSTANCE ChunkWalk WITH Images <- {}, stack <- wstack, budget <- wbudget

(* A block of zeros: it parses, as an empty leaf. *)
ZeroNode ==
  [level |-> 0, bytenr |-> 0, intact |-> FALSE, ptrs |-> <<>>, chunks |-> <<>>,
   items |-> <<>>, super |-> FALSE]

Init ==
  /\ source \in Sources
  /\ image = [source.image EXCEPT !.nodes = [p \in DOMAIN @ |-> ZeroNode]]
  /\ off = 0 /\ filled = 0
  /\ map = <<>> /\ wstack = <<>> /\ wbudget = WalkBudget
  /\ bootstrapped_root = FALSE /\ result = "running"
  /\ root = [bytenr |-> 0, root_dirid |-> 0] /\ leaf = <<>>
  /\ phase = "fill"
  /\ path = <<>> /\ trail = <<>> /\ reading = [k |-> 0] /\ got = <<>> /\ rstatus = "idle"

-----------------------------------------------------------------------------
(* fill, and the steps of open.                                            *)

SaturatingAdd(a, b) == IF a + b <= MaxU64 THEN a + b ELSE MaxU64

BufferFull == filled = image.len

(* n blocks from `from` on arrive at the start of the rest of the buffer. *)
Deliver(n, from) ==
  /\ image' = [image EXCEPT !.nodes =
                 [p \in DOMAIN @ |-> IF filled <= p /\ p < filled + n
                                     THEN source.image.nodes[from + p - filled] ELSE @[p]]]
  /\ filled' = filled + n

(* Mutant: the next read starts where this one did. *)
FillReadStays ==
  /\ phase = "fill" /\ ~BufferFull /\ off < source.have
  /\ \E n \in 1 .. Min({image.len - filled, source.have - off}) : Deliver(n, off)
  /\ UNCHANGED <<source, off, walkVars, fsVars, phase, clientVars>>

(* The source delivers some of what it was asked for. *)
FillRead ==
  /\ phase = "fill" /\ ~BufferFull /\ off < source.have
  /\ \E n \in 1 .. Min({image.len - filled, source.have - off}) :
       Deliver(n, off) /\ off' = SaturatingAdd(off, n)
  /\ UNCHANGED <<source, walkVars, fsVars, phase, clientVars>>

(* Mutant: a read of no bytes is tried again. *)
FillRetry ==
  /\ phase = "fill"
  /\ BufferFull
  /\ phase' = "super"
  /\ UNCHANGED <<fillVars, walkVars, fsVars, clientVars>>

(* The buffer is full, or the source ends before it. *)
FillEnd ==
  /\ phase = "fill"
  /\ BufferFull \/ off >= source.have
  /\ phase' = "super"
  /\ UNCHANGED <<fillVars, walkVars, fsVars, clientVars>>

OpenFails ==
  /\ phase' = "err"
  /\ UNCHANGED <<fillVars, walkVars, fsVars, clientVars>>

FillError == phase = "fill" /\ ~BufferFull /\ source.faulty /\ OpenFails

SuperParses == SuperAt < image.len /\ image.nodes[SuperAt].super

NoSuperblock == phase = "super" /\ ~SuperParses /\ OpenFails

ParseSuper ==
  /\ phase = "super" /\ SuperParses
  /\ wstack' = <<image.sb.chunk_root>>
  /\ phase' = "walk"
  /\ UNCHANGED <<fillVars, map, wbudget, bootstrapped_root, result, fsVars, clientVars>>

Walk ==
  /\ phase = "walk"
  /\ W!Next
  /\ UNCHANGED <<source, off, filled, fsVars, phase, clientVars>>

WalkFails == phase = "walk" /\ result = "err" /\ OpenFails

(* The FsTreeRoot that fs_tree_root returns. *)
NoRootItem == phase = "walk" /\ result = "ok" /\ fs_tree_root(image, map) = None /\ OpenFails

FindRoot ==
  /\ phase = "walk" /\ result = "ok"
  /\ fs_tree_root(image, map) # None
  /\ LET items == leaf_items(NodeAt(image, map, image.sb.root))
     IN root' = items[Min(FsRootItems(image, map))]
  /\ phase' = "root"
  /\ UNCHANGED <<fillVars, walkVars, leaf, clientVars>>

NoLeaf == phase = "root" /\ ~Readable(image, map, root.bytenr) /\ OpenFails

ReadLeaf ==
  /\ phase = "root"
  /\ Readable(image, map, root.bytenr)
  /\ leaf' = leaf_items(NodeAt(image, map, root.bytenr))
  /\ trail' = <<root.root_dirid>>
  /\ phase' = "open"
  /\ UNCHANGED <<fillVars, walkVars, root, path, reading, got, rstatus>>

-----------------------------------------------------------------------------
(* The methods of the adapter.                                             *)

Failed == <<None>>

(* Mutant: the last entry of that name. *)
LookupLast(parent, name) ==
  LET entries == list_dir(leaf, parent)
      Hits == {i \in DOMAIN entries : entries[i].name = name}
  IN IF Hits = {} THEN None ELSE entries[Max(Hits)].child

(* The names of the listing, as shown, are compared with the client's. *)
lookup(parent, name) == ChildNamed(leaf, parent, name)

(* dirent_kind: the listing has no name for device nodes. *)
dirent_kind(type) == IF type \in {"reg", "dir", "lnk"} THEN type ELSE "other"

inode_kind(inode) ==
  CASE inode.mode \in {"reg", "dir", "lnk"} -> inode.mode
    [] inode.mode \in {"chr", "blk"} -> "device"
    [] OTHER -> "other"

(* meta of an inode that the leaf has; without one it is an error. *)
meta(ino) ==
  LET inode == read_inode(leaf, ino)
  IN [kind |-> inode_kind(inode), size |-> inode.size, nlink |-> inode.nlink]

read_dir(ino) ==
  LET entries == list_dir(leaf, ino)
  IN [i \in DOMAIN entries |->
        [name |-> entries[i].name, id |-> entries[i].child, kind |-> dirent_kind(entries[i].item_type)]]

hardlinks(ino) == list_inode_refs(leaf, ino)

XattrId(i) == [type |-> "xattr", idx |-> i]
DefaultId == [type |-> "default"]

ContentStream(ino) ==
  [k |-> 1, id |-> DefaultId, size |-> IF HasInode(leaf, ino) THEN read_inode(leaf, ino).size ELSE 0]

(* Mutant: the index is not kept within 16 bits. *)
XattrStreamWide(attrs, p) ==
  [k |-> IndexOf(attrs, p) + 2, id |-> XattrId(IndexOf(attrs, p)),
   name |-> attrs[p].name, size |-> Len(attrs[p].value)]

XattrStream(attrs, p) ==
  [k |-> IndexOf(attrs, p) + 2, id |-> XattrId(Min({IndexOf(attrs, p), MaxU16})),
   name |-> attrs[p].name, size |-> Len(attrs[p].value)]

(* data_streams: the content, then one stream per attribute; k is the      *)
(* place in this list.                                                     *)
data_streams(ino) ==
  LET attrs == list_xattrs(leaf, ino)
  IN {ContentStream(ino)} \cup {XattrStream(attrs, p) : p \in DOMAIN attrs}

(* read_file_from_leaf, for an inode of the leaf or for none. *)
ReadFromLeaf(items, ino) == IF HasInode(items, ino) THEN read_inode(items, ino).content ELSE Failed

(* fs_tree_leaf: the FS_TREE leaf is found anew. *)
FsTreeFound == fs_tree_root(image, map) # None /\ Readable(image, map, fs_tree_root(image, map))
FsTreeLeaf == leaf_items(NodeAt(image, map, fs_tree_root(image, map)))

read_file(ino) == IF FsTreeFound THEN ReadFromLeaf(FsTreeLeaf, ino) ELSE Failed

(* At most n bytes from o on; none behind the end. *)
Piece(data, o, n) == SubSeq(data, o + 1, Min({Len(data), o + n}))

(* The attributes a client's index stands for: one or none. *)
Indexed(attrs, idx) == {p \in DOMAIN attrs : IndexOf(attrs, p) = idx}

(* Mutant: every read starts at the beginning. *)
ReadAtStart(ino, stream, o, n) ==
  LET attrs == list_xattrs(leaf, ino)
  IN IF stream.type = "xattr" THEN Piece(attrs[CHOOSE p \in Indexed(attrs, stream.idx) : TRUE].value, 0, n)
     ELSE IF read_file(ino) = Failed THEN Failed ELSE Piece(read_file(ino), 0, n)

(* read_at into a buffer of n bytes; Failed is Err. *)
read_at(ino, stream, o, n) ==
  LET attrs == list_xattrs(leaf, ino)
      Hits == Indexed(attrs, stream.idx)
  IN IF stream.type = "xattr"
     THEN IF Hits # {} THEN Piece(attrs[CHOOSE p \in Hits : TRUE].value, o, n) ELSE Failed
     ELSE IF stream # DefaultId \/ read_file(ino) = Failed THEN Failed
     ELSE Piece(read_file(ino), o, n)

(* read_link: empty for everything but a symbolic link. *)
read_link(ino, cap) ==
  IF ~HasInode(leaf, ino) THEN <<>>
  ELSE IF inode_kind(read_inode(leaf, ino)) # "lnk" THEN <<>>
  ELSE IF read_file(ino) = Failed THEN Failed ELSE Piece(read_file(ino), 0, cap)

(* read_by_path_content, the way around the adapter. *)
read_by_path_content(p) ==
  IF ~FsTreeFound THEN Failed
  ELSE LET ino == read_by_path(FsTreeLeaf, p)
       IN IF ino = None THEN Failed ELSE ReadFromLeaf(FsTreeLeaf, ino)

-----------------------------------------------------------------------------
(* The client (external): a walk by lookup, then one stream read to its    *)
(* end with buffers of any size.                                           *)
Here == Last(trail)

Lookup ==
  /\ phase = "open" /\ rstatus = "idle"
  /\ Here # None /\ Len(path) < MaxDepth
  /\ \E name \in Names :
       /\ path' = Append(path, name)
       /\ trail' = Append(trail, lookup(Here, name))
  /\ UNCHANGED <<fillVars, walkVars, fsVars, phase, reading, got, rstatus>>

PickStream ==
  /\ phase = "open" /\ rstatus = "idle" /\ Here # None
  /\ reading' \in data_streams(Here)
  /\ rstatus' = "reading"
  /\ UNCHANGED <<fillVars, walkVars, fsVars, phase, path, trail, got>>

ReadPiece ==
  /\ rstatus = "reading"
  /\ \E n \in BufLens :
       LET bytes == read_at(Here, reading.id, Len(got), n)
       IN /\ got' = IF bytes = Failed THEN got ELSE got \o bytes
          /\ rstatus' = CASE bytes = Failed -> "err" [] bytes = <<>> -> "eof" [] OTHER -> "reading"
  /\ UNCHANGED <<fillVars, walkVars, fsVars, phase, path, trail, reading>>

OpenStep ==
  \/ FillRead \/ FillEnd \/ FillError
  \/ NoSuperblock \/ ParseSuper
  \/ Walk \/ WalkFails
  \/ NoRootItem \/ FindRoot
  \/ NoLeaf \/ ReadLeaf

Next == OpenStep \/ Lookup \/ PickStream \/ ReadPiece

(* open is one sequential call and its next step always runs; the client   *)
(* is free to stop.                                                        *)
Spec == Init /\ [][Next]_vars /\ WF_vars(OpenStep)

-----------------------------------------------------------------------------
fs == source.fs

(* What was written to the source and reached the client's leaf unaltered. *)
Undamaged == phase = "open" /\ leaf = source.image.nodes[source.fs_at].items /\ ~source.damaged

(* The shapes of the variables; an attribute's index fits 16 bits. *)
TypeOK ==
  /\ source \in Sources
  /\ image.len = source.image.len /\ DOMAIN image.nodes = 0 .. image.len
  /\ filled \in 0 .. image.len /\ off \in Addr
  /\ map \in Seq(Chunk) /\ wstack \in Seq(Addr)
  /\ root.bytenr \in Addr /\ root.root_dirid \in Addr
  /\ trail \in Seq(Addr \cup {None}) /\ path \in Seq(Names)
  /\ reading.k > 1 => reading.id \in [type : {"xattr"}, idx : 0 .. MaxU16]
  /\ got \in Seq(Nat)
  /\ phase \in {"fill", "super", "walk", "root", "open", "err"}
  /\ rstatus \in {"idle", "reading", "eof", "err"}

(* However the source cuts its answers, fill puts every block in its place *)
(* and open keeps the leaf that was written; when the source ends early,   *)
(* open fails, or shows the true leaf, or an empty one - never blocks of   *)
(* another place.                                                          *)
OpenedViewIsTrue ==
  /\ \A p \in 0 .. image.len - 1 :
       image.nodes[p] = IF p < filled THEN source.image.nodes[p] ELSE ZeroNode
  /\ phase = "open" =>
       \/ leaf = leaf_items(source.image.nodes[source.fs_at])
       \/ leaf = <<>> /\ source.have < source.image.len

(* A client that walks down by lookup from root() comes to the node that   *)
(* read_by_path gives for the same names, as long as the ROOT_ITEM names   *)
(* the usual root directory; and read_by_path finds what such a walk       *)
(* finds, if it goes through directories with inodes only.                 *)
PathWalkAgrees ==
  phase = "open" /\ root.root_dirid = RootDir =>
    LET there == read_by_path(leaf, path)
        Known(i) == trail[i] # None /\ HasInode(leaf, trail[i])
    IN /\ there # None => Here = there
       /\ /\ \A i \in DOMAIN trail : Known(i)
          /\ \A i \in 1 .. Len(trail) - 1 : is_dir(read_inode(leaf, trail[i]))
          => there = Here

(* On an undamaged leaf the two records of each link tell the same story:  *)
(* read_dir shows every link of a directory once, names whose hashes       *)
(* collide included (links of one inode whose names are shown alike count  *)
(* as one); hardlinks names each link of an inode, several in one item     *)
(* included, and for the root directory the ".." that read_dir never       *)
(* shows, as many as meta's nlink; and the kind in the listing is the      *)
(* inode's, except for devices.                                            *)
LinksBothWays ==
  Undamaged =>
    \A i \in DOMAIN fs.mode :
      LET listing == ToSet(read_dir(i))
          named == hardlinks(i)
      IN /\ {<<e.name, e.id>> : e \in listing} = {<<Lossy[l.name], l.child>> : l \in {x \in fs.links : x.dir = i}}
         /\ Cardinality(DOMAIN read_dir(i)) = Cardinality({<<e.name, e.id>> : e \in listing})
         /\ \A e \in listing : meta(e.id).kind \in {e.kind, "device"}
         /\ ToSet(named) = {[parent |-> l.dir, name |-> Lossy[l.name]] : l \in RefsTo(fs, i)}
         /\ Cardinality(DOMAIN named) = meta(i).nlink

(* On an undamaged leaf each stream that data_streams lists reads back,    *)
(* piece by piece, to what was written under its name, and to its listed   *)
(* size; all attributes are listed.  Left out are attributes whose place   *)
(* exceeds 16 bits: they share one index.  The content is also what        *)
(* read_by_path_content and, for a symbolic link, read_link return.  (The  *)
(* content stream of a directory reads as zeros, as long as its size.)     *)
StreamsReadBack ==
  Undamaged /\ rstatus # "idle" /\ reading.k - 2 <= MaxU16 /\ Here \in DOMAIN fs.mode =>
    LET Written == IF reading.k = 1 THEN {fs.content[Here]}
                   ELSE {a.value : a \in {x \in ToSet(fs.attrs[Here]) : Lossy[x.name] = reading.name}}
    IN /\ \E w \in Written : IsPrefix(got, w)
       /\ rstatus = "eof" => got \in Written /\ Len(got) = reading.size
       /\ rstatus # "err"
       /\ Cardinality(data_streams(Here)) = 1 + Len(fs.attrs[Here])
       /\ rstatus = "eof" /\ reading.k = 1 =>
            /\ root.root_dirid = RootDir /\ read_by_path(leaf, path) # None => got = read_by_path_content(path)
            /\ meta(Here).size = Len(got)
            /\ meta(Here).kind = "lnk" => read_link(Here, Len(got)) = got

(* open returns, whatever the source delivers. *)
OpenReturns == <>(phase \in {"open", "err"})
=============================================================================
