------------------------------ MODULE MCReadFile ------------------------------
(* Small files for ReadFile: logical 4..7 are mapped to the four bytes of  *)
(* the image (every byte different, so that a shift shows), a few extents  *)
(* of every type and codec at file offsets 0..3, and an inode whose size   *)
(* cuts, meets or exceeds what they hold.                                  *)
EXTENDS ReadFile, TLC

Good(d) == [data |-> d, ok |-> TRUE]
Damaged(d) == [data |-> d, ok |-> FALSE]

TheImage ==
  [len |-> 4,
   bytes |-> 0 :> 1 @@ 1 :> 2 @@ 2 :> 3 @@ 3 :> 4,
   streams |-> 0 :> Damaged(<<8>>) @@ 1 :> Good(<<8, 9>>) @@ 2 :> Good(<<>>)
               @@ 3 :> Damaged(<<>>) @@ 4 :> Damaged(<<>>)]

TheMap == <<[logical_start |-> 4, length |-> 4, stripes |-> <<0>>]>>

InodeItem(n) == [objectid |-> 1, key_type |-> "INODE_ITEM", offset |-> 0, size |-> n]

Extent(off, type, comp, ram, payload, stream, disk, eoff, num) ==
  [objectid |-> 1, key_type |-> "EXTENT_DATA", offset |-> off, type |-> type, compression |-> comp,
   ram_bytes |-> ram, payload |-> payload, stream |-> stream,
   disk_bytenr |-> disk, ext_offset |-> eoff, num_bytes |-> num]

Inline(off, comp, ram, payload, stream) == Extent(off, "inline", comp, ram, payload, stream, 0, 0, 0)
Disk(off, type, comp, ram, disk, eoff, num) ==
  Extent(off, type, comp, ram, <<>>, Good(<<>>), disk, eoff, num)

SoundExtents(off) ==
  {Inline(off, "none", 2, <<5, 6>>, Good(<<>>)),
   Inline(off, "zstd", 3, <<7>>, Good(<<5, 6, 7>>)),
   Disk(off, "reg", "none", 0, 0, 0, 1),        \* a hole
   Disk(off, "reg", "none", 4, 4, 1, 2),
   Disk(off, "reg", "zlib", 2, 5, 1, 1)}

OtherExtents(off) ==
  {Inline(off, "none", 1, <<5, 6>>, Good(<<>>)),
   Inline(off, "lzo", 3, <<7>>, Damaged(<<5, 6>>)),
   Inline(off, "zlib", 8, <<7>>, Good(<<5, 6>>)),      \* implausible ram_bytes
   Disk(off, "reg", "none", 0, 0, 0, 7),               \* an implausible hole
   Disk(off, "reg", "none", 2, 7, 0, 2),               \* past the image
   Disk(off, "reg", "none", 2, 7, 8, 1),               \* the end saturates
   Disk(off, "reg", "none", 1, 2, 0, 1),               \* not mapped
   Disk(off, "reg", "none", 5, 4, 0, 5),               \* longer than the image
   Disk(off, "reg", "zlib", 3, 5, 1, 3),               \* window past the stream
   Disk(off, "reg", "zlib", 2, 4, 0, 1),               \* damaged stream
   Disk(off, "reg", "other", 1, 4, 0, 1),
   Disk(off, "prealloc", "none", 1, 4, 0, 1),
   Extent(off, "unknown", "none", 0, <<>>, Good(<<>>), 0, 0, 0)}

Two == UNION {SoundExtents(o) \cup OtherExtents(o) : o \in {0, 2}}
Three == UNION {SoundExtents(o) : o \in 0 .. 3}

Leaves ==
  {<<InodeItem(n)>> \o e : n \in {0, 3, 7}, e \in [1 .. 1 -> Two] \cup [1 .. 2 -> Two]}
    \cup {<<InodeItem(n)>> \o e : n \in {2, 5}, e \in [1 .. 3 -> Three]}
    \cup {<<>>, <<InodeItem(2)>>}

MCFiles == {[image |-> TheImage, map |-> TheMap, leaf |-> l, ino |-> 1] : l \in Leaves}
=============================================================================
