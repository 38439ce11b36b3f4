--------------------------------- MODULE MCVfs ---------------------------------
(* Small sources for Vfs.  Block 1 is the superblock, 2 and 3 the chunk    *)
(* tree, 4 the root tree, 5 the FS_TREE leaf.  The leaf is written from a  *)
(* filesystem of two directories (1 and 2), a file (3) and one more node   *)
(* (4), with names whose hashes collide ("a", "b") and names that are not  *)
(* UTF-8 and are shown alike ("x", "y").                                   *)
EXTENDS Vfs, TLC

FixtureNames == {"dir", "hardlink", "plain", "target", "second_name"}

MCLossy ==
  "x" :> "?" @@ "y" :> "?" @@ [n \in {"a", "b", ".."} \cup FixtureNames |-> n]
Hash == "a" :> 1 @@ "b" :> 1 @@ "x" :> 2 @@ "y" :> 3

MCNames == {"a", "b", "?", "x"}

Span(start, len, stripes) == [logical_start |-> start, length |-> len, stripes |-> stripes]

Node(level, bytenr, ptrs, chunks, items) ==
  [level |-> level, bytenr |-> bytenr, intact |-> TRUE, ptrs |-> ptrs, chunks |-> chunks,
   items |-> items, super |-> FALSE]

RootItem(bytenr, dirid) ==
  [objectid |-> FsTreeObjectid, key_type |-> "ROOT_ITEM", offset |-> 0, bytenr |-> bytenr, root_dirid |-> dirid]

AsSeq(S) == FoldSet(LAMBDA x, s : Append(s, x), <<>>, S)

(* The items of a leaf, as the kernel writes them. *)
Item(oid, type, offset, recs) == [objectid |-> oid, key_type |-> type, offset |-> offset, recs |-> recs]

InodeItem(f, i) ==
  [objectid |-> i, key_type |-> "INODE_ITEM", offset |-> 0, mode |-> f.mode[i], content |-> f.content[i],
   size |-> Len(f.content[i]), nlink |-> Cardinality(RefsTo(f, i))]

Entry(f, l) == [name |-> l.name, child |-> l.child, type |-> f.mode[l.child]]
Entries(f, S) == LET s == AsSeq(S) IN [i \in DOMAIN s |-> Entry(f, s[i])]

LinksIn(f, d) == {l \in f.links : l.dir = d}

ItemSet(f) ==
  UNION {
    {InodeItem(f, i) : i \in DOMAIN f.mode},
    {Item(1, "INODE_REF", 1, <<[name |-> ".."]>>)},
    {Item(l.child, "INODE_REF", l.dir, Entries(f, {m \in LinksIn(f, l.dir) : m.child = l.child})) : l \in f.links},
    {Item(l.dir, "DIR_ITEM", Hash[l.name], Entries(f, {m \in LinksIn(f, l.dir) : Hash[m.name] = Hash[l.name]})) :
       l \in f.links},
    UNION {LET s == AsSeq(LinksIn(f, d))
           IN {Item(d, "DIR_INDEX", i, <<Entry(f, s[i])>>) : i \in DOMAIN s} : d \in {1, 2}},
    UNION {{Item(i, "XATTR_ITEM", Hash[f.attrs[i][k].name],
                 SelectSeq(f.attrs[i], LAMBDA a : Hash[a.name] = Hash[f.attrs[i][k].name])) :
              k \in DOMAIN f.attrs[i]} : i \in DOMAIN f.mode}}

Rank == "INODE_ITEM" :> 1 @@ "INODE_REF" :> 2 @@ "XATTR_ITEM" :> 3 @@ "DIR_ITEM" :> 4 @@ "DIR_INDEX" :> 5

KeyBefore(i, j) ==
  \/ i.objectid < j.objectid
  \/ i.objectid = j.objectid /\ Rank[i.key_type] < Rank[j.key_type]
  \/ i.objectid = j.objectid /\ i.key_type = j.key_type /\ i.offset < j.offset

LeafOf(f) == SortSeq(AsSeq(ItemSet(f)), KeyBefore)

Link(d, n, c) == [dir |-> d, name |-> n, child |-> c]

(* The size of a directory is twice the length of its names, one each; it  *)
(* is read as zeros.  Devices and fifos are empty.                         *)
Zeros(links, d) == [i \in 1 .. 2 * Cardinality({l \in links : l.dir = d}) |-> 0]

FileSystem(links, mode4, attrs3) ==
  [links |-> links,
   mode |-> <<"dir", "dir", "reg", mode4>>,
   content |-> <<Zeros(links, 1), Zeros(links, 2), <<1, 2, 3>>, IF mode4 = "lnk" THEN <<4, 5>> ELSE <<>>>>,
   attrs |-> <<<<>>, <<>>, attrs3, <<>>>>]

Attr(n, v) == [name |-> n, value |-> v]
Attrs == {<<>>, <<Attr("x", <<7>>), Attr("y", <<8>>)>>, <<Attr("a", <<>>), Attr("b", <<6, 7>>), Attr("x", <<8>>)>>}

ManyLinks ==
  {Link(1, "a", 2), Link(1, "b", 3), Link(1, "x", 3), Link(1, "y", 3), Link(2, "a", 3), Link(2, "b", 4)}

SomeFs == FileSystem(ManyLinks, "lnk", <<Attr("a", <<6>>)>>)

Source(len, have, faulty, chunk_root, root_items, f, items, damaged) ==
  LET at == 0 :> ZeroNode
            @@ 1 :> [ZeroNode EXCEPT !.super = TRUE]
            @@ 2 :> chunk_root
            @@ 3 :> Node(0, 2, <<>>, <<Span(1, 2, <<2>>), Span(6, 2, <<4>>)>>, <<>>)
            @@ 4 :> Node(0, 6, <<>>, <<>>, root_items)
            @@ 5 :> Node(0, 7, <<>>, <<>>, items)
            @@ 6 :> ZeroNode
  IN [image |-> [len |-> len, nodes |-> [p \in 0 .. len |-> at[p]],
                 sb |-> [chunk_root |-> 1, root |-> 6, nodesize |-> 1, csum_type |-> "crc32c",
                         sys_chunks |-> <<Span(1, 2, <<2>>)>>, backups |-> <<>>]],
      have |-> have, faulty |-> faulty, fs |-> f,
      chunk_at |-> {2, 3} \cap 0 .. len, fs_at |-> 5, damaged |-> damaged]

ChunkLeaf == Node(0, 1, <<>>, <<Span(6, 2, <<4>>)>>, <<>>)
ChunkInner == Node(1, 1, <<2>>, <<>>, <<>>)

(* Sources that end early, fail, or lack a structure. *)
Transports ==
  {Source(len, Min({len, have}), faulty, c, r, SomeFs, LeafOf(SomeFs), FALSE) :
     len \in {0, 1, 2, 4, 6}, have \in 0 .. 6, faulty \in BOOLEAN,
     c \in {ChunkLeaf, ChunkInner, Node(1, 1, <<9>>, <<>>, <<>>)}, r \in {<<>>, <<RootItem(7, 1)>>, <<RootItem(8, 1)>>}}

Whole(f, items, dirid, damaged) ==
  Source(6, 6, FALSE, ChunkLeaf, <<RootItem(7, dirid)>>, f, items, damaged)

(* A directory without a name is gone, and it was empty. *)
Standing(links) == (\E l \in links : l.child = 2) \/ ~\E l \in links : l.dir = 2

Written ==
  LET Filesystems == {FileSystem(links, "lnk", a) : links \in {S \in SUBSET ManyLinks : Standing(S)}, a \in Attrs}
                       \cup {FileSystem(ManyLinks, m, <<>>) : m \in {"chr", "fifo"}}
  IN {Whole(f, LeafOf(f), 1, FALSE) : f \in Filesystems}

(* The leaf of tests/data/btrfs_hardlink.fs-tree.txt, item by item, with   *)
(* the inodes 256 and 65011971 to 65011973 as 1 to 4, the hashes of the    *)
(* names by their rank, and shorter contents in place of the two extents.  *)
FixtureFs ==
  [links |-> {Link(1, "plain", 4), Link(1, "hardlink", 3), Link(1, "dir", 2), Link(1, "target", 3),
              Link(2, "second_name", 3)},
   mode |-> <<"dir", "dir", "reg", "reg">>,
   content |-> <<<<0, 0>>, <<0>>, <<1, 2>>, <<3>>>>,
   attrs |-> <<<<>>, <<>>, <<>>, <<>>>>]

FixtureLeaf ==
  LET Inode(i, nlink) ==
        [objectid |-> i, key_type |-> "INODE_ITEM", offset |-> 0, mode |-> FixtureFs.mode[i],
         content |-> FixtureFs.content[i], size |-> Len(FixtureFs.content[i]), nlink |-> nlink]
      Ref(i, dir, names) == Item(i, "INODE_REF", dir, [k \in DOMAIN names |-> [name |-> names[k]]])
      Dir(type, dir, offset, name, c) ==
        Item(dir, type, offset, <<[name |-> name, child |-> c, type |-> FixtureFs.mode[c]]>>)
  IN <<Inode(1, 1), Ref(1, 1, <<"..">>),
       Dir("DIR_ITEM", 1, 1, "dir", 2), Dir("DIR_ITEM", 1, 2, "hardlink", 3),
       Dir("DIR_ITEM", 1, 3, "plain", 4), Dir("DIR_ITEM", 1, 4, "target", 3),
       Dir("DIR_INDEX", 1, 2, "plain", 4), Dir("DIR_INDEX", 1, 3, "hardlink", 3),
       Dir("DIR_INDEX", 1, 4, "dir", 2), Dir("DIR_INDEX", 1, 5, "target", 3),
       Inode(2, 1), Ref(2, 1, <<"dir">>),
       Dir("DIR_ITEM", 2, 1, "second_name", 3), Dir("DIR_INDEX", 2, 2, "second_name", 3),
       Inode(3, 3), Ref(3, 1, <<"hardlink", "target">>), Ref(3, 2, <<"second_name">>),
       Inode(4, 1), Ref(4, 1, <<"plain">>)>>

(* An item lost, or a name led to another inode; another root directory.   *)
Damaged ==
  LET items == LeafOf(SomeFs)
      Astray(i, c) == [items EXCEPT ![i].recs[1].child = c]
  IN {Whole(SomeFs, RemoveAt(items, i), 1, TRUE) : i \in DOMAIN items}
       \cup {Whole(SomeFs, Astray(i, c), 1, TRUE) :
               i \in {j \in DOMAIN items : items[j].key_type \in {"DIR_ITEM", "DIR_INDEX"}}, c \in {2, 4, 8}}
       \cup {Whole(SomeFs, items, 2, FALSE)}

MCSources == Transports \cup Written \cup Damaged \cup {Whole(FixtureFs, FixtureLeaf, 1, FALSE)}
=============================================================================
