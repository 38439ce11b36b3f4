------------------------------- MODULE ReadFile -------------------------------
(***************************************************************************)
(* read_file_from_leaf: the bytes of one file, assembled from the          *)
(* EXTENT_DATA items of an FS_TREE leaf.  Extents are appended in the      *)
(* order of their file offset; the offset itself is not looked at again.   *)
(* One action is one turn of the loop over the extents, or one way to      *)
(* leave the function.                                                     *)
(*                                                                         *)
(* A leaf's items are records with objectid, key_type and offset, and what *)
(* the item's data holds: `size` for an INODE_ITEM, and for an EXTENT_DATA *)
(* the fields of btrfs_file_extent_item.  A codec's input is a stream:     *)
(* `data` is what it decodes to, `ok` whether it then ends properly or     *)
(* turns out to be damaged.  image.streams[p] is the stream that starts at *)
(* physical p.                                                             *)
(***************************************************************************)
EXTENDS BtrfsImage, FiniteSets

CONSTANTS
  Files,        \* the calls: records [image, map, leaf, ino]
  AllocFloor,   \* LOGICAL_ALLOC_FLOOR, 64 MiB
  Ratio,        \* a codec's largest plausible expansion (1024)
  RatioFloor    \* plus this much (1 MiB)

IsStream(s) == s.data \in Seq(Nat) /\ s.ok \in BOOLEAN

IsItem(it) ==
  /\ it.objectid \in Addr
  /\ it.offset \in Addr
  /\ it.key_type = "INODE_ITEM" => it.size \in Addr
  /\ it.key_type = "EXTENT_DATA" =>
       /\ it.payload \in Seq(Nat)
       /\ IsStream(it.stream)
       /\ {it.ram_bytes, it.disk_bytenr, it.ext_offset, it.num_bytes} \subseteq Addr

IsFile(f) ==
  /\ f.image.len \in 0 .. MaxU64 - 1   \* a slice has fewer bytes than u64 can count
  /\ f.image.bytes \in [0 .. f.image.len - 1 -> Nat]
  /\ f.image.streams = [p \in 0 .. f.image.len |-> f.image.streams[p]]
  /\ \A p \in 0 .. f.image.len : IsStream(f.image.streams[p])
  /\ f.map \in Seq(Chunk)
  /\ DOMAIN f.leaf = 1 .. Len(f.leaf)
  /\ \A i \in 1 .. Len(f.leaf) : IsItem(f.leaf[i])
  /\ f.ino \in Addr

ASSUME FilesAssumption == \A f \in Files : IsFile(f)
ASSUME AllocAssumption == AllocFloor \in Nat /\ Ratio \in Nat /\ RatioFloor \in Nat

VARIABLES
  file,     \* the call's arguments; never written
  size,     \* the inode's size, once found
  extents,  \* indexes of the EXTENT_DATA items still to append
  out,      \* the bytes assembled so far
  status    \* "start", "extents"; then "ok" or "err"

vars == <<file, size, extents, out, status>>

Init ==
  /\ file \in Files
  /\ size = 0
  /\ extents = {}
  /\ out = <<>>
  /\ status = "start"

-----------------------------------------------------------------------------
Leaf == file.leaf

InodeItems == {i \in DOMAIN Leaf : Leaf[i].objectid = file.ino /\ Leaf[i].key_type = "INODE_ITEM"}
ExtentItems == {i \in DOMAIN Leaf : Leaf[i].objectid = file.ino /\ Leaf[i].key_type = "EXTENT_DATA"}

LogicalBound == IF file.image.len > AllocFloor THEN file.image.len ELSE AllocFloor

SaturatingAdd(a, b) == IF a + b <= MaxU64 THEN a + b ELSE MaxU64

(* The result of a read that returns Err: no byte is negative. *)
Failed == <<None>>

Take(s, n) == IF n < Len(s) THEN SubSeq(s, 1, n) ELSE s

(* Mutant: small inputs get no allowance. *)
DecompressNoFloor(it, raw, stream, src_len) ==
  IF it.compression = "none" THEN Take(raw, it.ram_bytes)
  ELSE IF it.ram_bytes > src_len * Ratio THEN Failed
  ELSE IF it.compression = "other" THEN Failed
  ELSE IF Len(stream.data) < it.ram_bytes /\ ~stream.ok THEN Failed
  ELSE Take(stream.data, it.ram_bytes)

(* decompress_extent.  A codec is asked for ram_bytes bytes and stops      *)
(* there, so that damage behind them is not noticed; a stream that ends    *)
(* properly before them is accepted as it is.  Left out: an extent of no  *)
(* bytes (ram_bytes = 0) whose zstd frame header is bad, which fails.      *)
Decompress(it, raw, stream, src_len) ==
  IF it.compression = "none" THEN Take(raw, it.ram_bytes)
  ELSE IF it.ram_bytes > src_len * Ratio + RatioFloor THEN Failed
  ELSE IF it.compression = "other" THEN Failed
  ELSE IF Len(stream.data) < it.ram_bytes /\ ~stream.ok THEN Failed
  ELSE Take(stream.data, it.ram_bytes)

(* Bytes start .. end - 1 of the image. *)
Slice(start, end) == [k \in 1 .. end - start |-> file.image.bytes[start + k - 1]]

(* The bytes [ext_offset, ext_offset + num_bytes) of a decompressed extent, *)
(* as far as it has them.                                                  *)
Window(whole, ext_offset, num_bytes) ==
  IF ext_offset >= Len(whole) THEN <<>>
  ELSE Take(SubSeq(whole, ext_offset + 1, Len(whole)), num_bytes)

(* read_regular_extent.  Only an uncompressed read fails when it is short. *)
RegularBytes(it) ==
  LET phys == MapLookup(file.map, it.disk_bytenr)
      start == SaturatingAdd(phys, it.ext_offset)
      end == SaturatingAdd(start, it.num_bytes)
      whole == Decompress(it, <<>>, file.image.streams[phys], file.image.len - phys)
  IN IF it.num_bytes > file.image.len \/ phys = None THEN Failed
     ELSE IF it.compression = "none"
          THEN IF end > file.image.len THEN Failed ELSE Slice(start, end)
     ELSE IF phys > file.image.len \/ whole = Failed THEN Failed
     ELSE Window(whole, it.ext_offset, it.num_bytes)

IsHole(it) == it.disk_bytenr = 0

(* Mutant: the length of a hole is believed. *)
ExtentBytesUnguarded(it) ==
  CASE it.type = "inline" -> Decompress(it, it.payload, it.stream, Len(it.payload))
    [] it.type \in {"reg", "prealloc"} /\ IsHole(it) -> [k \in 1 .. it.num_bytes |-> 0]
    [] it.type \in {"reg", "prealloc"} /\ ~IsHole(it) -> RegularBytes(it)
    [] OTHER -> Failed

(* What the extent contributes. *)
ExtentBytes(it) ==
  CASE it.type = "inline" -> Decompress(it, it.payload, it.stream, Len(it.payload))
    [] it.type \in {"reg", "prealloc"} /\ IsHole(it) ->
         IF it.num_bytes > LogicalBound THEN Failed ELSE [k \in 1 .. it.num_bytes |-> 0]
    [] it.type \in {"reg", "prealloc"} /\ ~IsHole(it) -> RegularBytes(it)
    [] OTHER -> Failed

(* Mutant: the extents in the order of the leaf's items. *)
PrecedesByItem(i, j) == i < j

(* sort_by_key is stable: file offset first, then item order. *)
Precedes(i, j) ==
  \/ Leaf[i].offset < Leaf[j].offset
  \/ Leaf[i].offset = Leaf[j].offset /\ i < j

IsNext(i) == i \in extents /\ \A j \in extents \ {i} : Precedes(i, j)

-----------------------------------------------------------------------------
(* No INODE_ITEM, or an inode size beyond the allocation bound. *)
Refuse ==
  /\ status = "start"
  /\ \/ InodeItems = {}
     \/ InodeItems # {} /\ Leaf[Min(InodeItems)].size > LogicalBound
  /\ status' = "err"
  /\ UNCHANGED <<file, size, extents, out>>

Begin ==
  /\ status = "start"
  /\ InodeItems # {}
  /\ Leaf[Min(InodeItems)].size <= LogicalBound
  /\ size' = Leaf[Min(InodeItems)].size
  /\ extents' = ExtentItems
  /\ status' = "extents"
  /\ UNCHANGED <<file, out>>

(* Mutant: the error of a read is not looked at. *)
AppendUnchecked ==
  /\ status = "extents"
  /\ \E i \in extents :
       /\ IsNext(i)
       /\ out' = out \o ExtentBytes(Leaf[i])
       /\ extents' = extents \ {i}
  /\ UNCHANGED <<file, size, status>>

(* One extent is read and appended. *)
AppendExtent ==
  /\ status = "extents"
  /\ \E i \in extents :
       /\ IsNext(i)
       /\ ExtentBytes(Leaf[i]) # Failed
       /\ out' = out \o ExtentBytes(Leaf[i])
       /\ extents' = extents \ {i}
  /\ UNCHANGED <<file, size, status>>

(* Mutant: an extent that cannot be read is left out. *)
ExtentSkipped ==
  /\ status = "extents"
  /\ \E i \in extents :
       /\ IsNext(i)
       /\ ExtentBytes(Leaf[i]) = Failed
       /\ extents' = extents \ {i}
  /\ UNCHANGED <<file, size, out, status>>

(* One extent cannot be read: the whole call fails. *)
ExtentFails ==
  /\ status = "extents"
  /\ \E i \in extents : IsNext(i) /\ ExtentBytes(Leaf[i]) = Failed
  /\ status' = "err"
  /\ UNCHANGED <<file, size, extents, out>>

(* The inode's size is authoritative: truncate, or fill with zeros. *)
Finish ==
  /\ status = "extents"
  /\ extents = {}
  /\ out' = [k \in 1 .. size |-> IF k <= Len(out) THEN out[k] ELSE 0]
  /\ status' = "ok"
  /\ UNCHANGED <<file, size, extents>>

Next ==
  \/ Refuse
  \/ Begin
  \/ AppendExtent
  \/ ExtentFails
  \/ Finish

(* A sequential function: the next step always runs. *)
Spec == Init /\ [][Next]_vars /\ WF_vars(Next)

-----------------------------------------------------------------------------
(* The file as the filesystem defines it: each byte is found at its own    *)
(* offset, and a byte no extent covers is zero.                            *)

Length(it) == IF it.type = "inline" THEN it.ram_bytes ELSE it.num_bytes

CoversByte(it, o) == it.offset <= o /\ o < it.offset + Length(it)

ByteOf(it, o) ==
  LET k == o - it.offset
      phys == MapLookup(file.map, it.disk_bytenr)
  IN IF it.type = "inline" THEN (IF it.compression = "none" THEN it.payload ELSE it.stream.data)[k + 1]
     ELSE IF it.type = "prealloc" \/ IsHole(it) THEN 0
     ELSE IF it.compression = "none" THEN file.image.bytes[phys + it.ext_offset + k]
     ELSE file.image.streams[phys].data[it.ext_offset + k + 1]

FileByte(o) ==
  LET C == {i \in ExtentItems : CoversByte(Leaf[i], o)}
  IN IF C = {} THEN 0 ELSE ByteOf(Leaf[Min(C)], o)

(* An extent whose bytes are all there.  A preallocated extent with a      *)
(* place on disk is not among them: it reads as zeros, and the code reads  *)
(* the disk.                                                               *)
SoundStream(it, stream, src_len) ==
  /\ it.compression # "other"
  /\ Len(stream.data) = it.ram_bytes
  /\ it.ram_bytes <= src_len * Ratio + RatioFloor

Sound(it) ==
  LET phys == MapLookup(file.map, it.disk_bytenr)
  IN /\ Length(it) > 0
     /\ CASE it.type = "inline" ->
               IF it.compression = "none" THEN Len(it.payload) = it.ram_bytes
               ELSE SoundStream(it, it.stream, Len(it.payload))
          [] it.type \in {"reg", "prealloc"} /\ IsHole(it) -> it.num_bytes <= LogicalBound
          [] it.type = "reg" /\ ~IsHole(it) ->
               /\ phys # None
               /\ it.num_bytes <= file.image.len
               /\ IF it.compression = "none"
                  THEN phys + it.ext_offset + it.num_bytes <= file.image.len
                  ELSE /\ phys <= file.image.len
                       /\ SoundStream(it, file.image.streams[phys], file.image.len - phys)
                       /\ it.ext_offset + it.num_bytes <= it.ram_bytes
          [] OTHER -> FALSE

AllSound == \A i \in ExtentItems : Sound(Leaf[i])

Disjoint ==
  \A i, j \in ExtentItems :
    i # j => \/ Leaf[i].offset + Length(Leaf[i]) <= Leaf[j].offset
             \/ Leaf[j].offset + Length(Leaf[j]) <= Leaf[i].offset

(* No gap in front of an extent: true of a filesystem with explicit hole   *)
(* items, not of one with the NO_HOLES feature.                            *)
Gapless ==
  \A i \in ExtentItems :
    \/ Leaf[i].offset = 0
    \/ \E j \in ExtentItems : Leaf[j].offset + Length(Leaf[j]) = Leaf[i].offset

(* The shapes of the reader's variables. *)
TypeOK ==
  /\ IsFile(file)
  /\ size \in Addr
  /\ extents \subseteq ExtentItems
  /\ out \in Seq(Nat)
  /\ status \in {"start", "extents", "ok", "err"}

(* On a sound file without gaps read_file_from_leaf never puts a byte in   *)
(* the wrong place, although it appends and never looks at an extent's     *)
(* file offset again: holes, windows into compressed extents and the       *)
(* truncation to the inode size included.                                  *)
ContentIsExact ==
  AllSound /\ Disjoint /\ Gapless =>
    /\ \A k \in DOMAIN out : out[k] = FileByte(k - 1)
    /\ status = "ok" => Len(out) = size

(* A sound file is read: none of the allocation and bounds guards of       *)
(* read_file_from_leaf turns a legitimate file away.                       *)
SoundFileIsRead ==
  status = "err" /\ AllSound =>
    InodeItems = {} \/ Leaf[Min(InodeItems)].size > LogicalBound

(* No silent short read: when read_file_from_leaf returns Ok, every        *)
(* uncompressed extent on disk was mapped and inside the image, and no     *)
(* extent had a type or codec the reader does not know.                    *)
OkMeansEveryExtentRead ==
  status = "ok" =>
    \A i \in ExtentItems :
      /\ Leaf[i].type \in {"inline", "reg", "prealloc"}
      /\ Leaf[i].type # "inline" /\ ~IsHole(Leaf[i]) =>
           LET phys == MapLookup(file.map, Leaf[i].disk_bytenr)
           IN /\ phys # None
              /\ Leaf[i].compression # "other"
              /\ Leaf[i].compression = "none" =>
                   phys + Leaf[i].ext_offset + Leaf[i].num_bytes <= file.image.len

(* The longest contribution of one extent. *)
ExtentBound ==
  LET Inline == {Len(Leaf[i].payload) * Ratio + RatioFloor : i \in {j \in ExtentItems : Leaf[j].type = "inline"}}
  IN Max({LogicalBound} \cup Inline \cup {Len(Leaf[i].payload) : i \in ExtentItems})

(* Lying lengths cannot make the assembled content grow without limit: it  *)
(* is bounded by the number of extents read, whatever their length fields  *)
(* say (guard_alloc and the codec's cap).  What a codec reserves while it  *)
(* works, with_capacity(ram_bytes), is not part of it.                     *)
AllocationBounded ==
  Len(out) <= IF status \in {"start", "extents"}
              THEN Cardinality(ExtentItems \ extents) * ExtentBound
              ELSE Cardinality(ExtentItems) * ExtentBound + LogicalBound

-----------------------------------------------------------------------------
(* What extent.rs says, and the code does not do.                          *)

(* "one per file-logical region, ordered by the key's offset (the          *)
(* file-logical byte where the region starts)", and a sparse file          *)
(* "logically continues as zeros": with NO_HOLES a region without an item  *)
(* reads as zeros and the next region keeps its offset.                    *)
RegionsKeepTheirOffset ==
  /\ AllSound /\ Disjoint
  /\ \A i \in ExtentItems : Leaf[i].type = "inline" => Leaf[i].offset = 0
  /\ status = "ok"
  => \A k \in DOMAIN out : out[k] = FileByte(k - 1)
=============================================================================
