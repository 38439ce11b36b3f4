------------------------------ MODULE MCChunkWalk ------------------------------
(* Small images for ChunkWalk: three physical blocks, each any of a few    *)
(* nodes; the chunk root is logical 1 and the sys_chunk_array may be sound, *)
(* may reach past the image, or may start with a damaged entry.            *)
EXTENDS ChunkWalk

Span(start, len, stripes) == [logical_start |-> start, length |-> len, stripes |-> stripes]

System == Span(1, 3, <<0>>)     \* logical 1..3 at physical 0..2
Past == Span(1, 4, <<0>>)       \* logical 4 lands past the end of the image
Data == Span(4, 1, <<1>>)
Huge == Span(5, 3, <<0>>)       \* its end does not fit in MaxU64
Moved == Span(2, 1, <<2>>)      \* disagrees with System about logical 2
Bare == Span(1, 2, <<>>)        \* no stripe

Leaf(chunks) == [level |-> 0, bytenr |-> 0, intact |-> TRUE, ptrs |-> <<>>, chunks |-> chunks]
Interior(ptrs) == [level |-> 1, bytenr |-> 0, intact |-> TRUE, ptrs |-> ptrs, chunks |-> <<>>]

Leaves == {Leaf(c) : c \in {<<>>, <<Data>>, <<System, Data>>, <<Huge, Data>>, <<Moved>>}}
Interiors == {Interior(p) : p \in {<<1>>, <<2>>, <<2, 3>>, <<3, 2>>, <<2, 4>>, <<3, 3>>, <<5, 2>>, <<4, 3>>}}

SysArrays == {<<System>>, <<Past>>, <<Huge, System>>, <<Bare>>, <<Bare, System>>}

Image(blocks, sys, size) ==
  [len |-> 3,
   nodes |-> [p \in 0 .. 3 |-> IF p = 3 THEN Leaf(<<>>) ELSE blocks[p]],
   sb |-> [chunk_root |-> 1, root |-> 4, nodesize |-> size, csum_type |-> "crc32c",
           sys_chunks |-> sys, backups |-> <<>>]]

MCImages ==
  {Image(b, s, 1) : b \in [0 .. 2 -> Leaves \cup Interiors], s \in {<<System>>, <<Past>>}}
    \cup {Image([p \in 0 .. 2 |-> n], s, z) :
            n \in Leaves \cup Interiors, s \in SysArrays, z \in {0, 1}}
=============================================================================
