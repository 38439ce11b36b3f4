---------------------------- MODULE ReadFileProofs ----------------------------
(***************************************************************************)
(* read_file_from_leaf, for every image, chunk map and leaf: what Ok and   *)
(* Err mean, how much it may allocate, and that a sound file without gaps  *)
(* is returned byte for byte.                                              *)
(***************************************************************************)
EXTENDS ReadFile, ImageLemmas, FiniteSetTheorems

(* The extents already appended. *)
Appended == ExtentItems \ extents

(* What the status says about the extents: as long as the loop runs, none  *)
(* of those appended had failed; an error has a reason.                    *)
StatusExplained ==
  /\ status = "start" => out = <<>> /\ extents = {}
  /\ status \in {"extents", "ok"} => size <= LogicalBound
  /\ status = "extents" => \A i \in Appended : ExtentBytes(Leaf[i]) # Failed
  /\ status = "ok" => \A i \in ExtentItems : ExtentBytes(Leaf[i]) # Failed
  /\ status = "err" =>
       \/ InodeItems = {}
       \/ Leaf[Min(InodeItems)].size > LogicalBound
       \/ \E i \in ExtentItems : ExtentBytes(Leaf[i]) = Failed

(* The file has the shape for which appending is right. *)
Wellformed == AllSound /\ Disjoint /\ Gapless

End(i) == Leaf[i].offset + Length(Leaf[i])

(* The cut: what is appended ends where the output does, at the latest,    *)
(* and what is left starts behind it.                                      *)
Cut ==
  Wellformed /\ status = "extents" =>
    /\ \A i \in Appended : End(i) <= Len(out)
    /\ \A i \in extents : Len(out) <= Leaf[i].offset

(* The inductive invariant.  ContentIsExact is not inductive alone: only   *)
(* with the cut does the next extent go where its file offset says.        *)
ReadInv ==
  /\ TypeOK
  /\ StatusExplained
  /\ Cut
  /\ ContentIsExact

-----------------------------------------------------------------------------
(* Bytes: what truncation and windows keep (Vec::truncate, get(a .. b)).   *)

(* Vec::truncate keeps the first n bytes and changes none of them. *)
LEMMA TakeProperties ==
  ASSUME NEW s \in Seq(Nat), NEW n \in Nat
  PROVE  /\ Take(s, n) \in Seq(Nat)
         /\ Len(Take(s, n)) = IF n < Len(s) THEN n ELSE Len(s)
         /\ \A k \in 1 .. Len(Take(s, n)) : Take(s, n)[k] = s[k]
  <1>1. CASE n < Len(s)
    <2>1. \A i \in 1 .. n : s[i] \in Nat
      BY <1>1
    <2>2. /\ SubSeq(s, 1, n) \in Seq(Nat)
          /\ Len(SubSeq(s, 1, n)) = IF 1 <= n THEN n - 1 + 1 ELSE 0
          /\ \A i \in 1 .. n - 1 + 1 : SubSeq(s, 1, n)[i] = s[1 + i - 1]
      BY <2>1, SubSeqProperties
    <2>3. Take(s, n) = SubSeq(s, 1, n)
      BY <1>1 DEF Take
    <2>4. Len(Take(s, n)) = n
      BY <2>2, <2>3
    <2>5. ASSUME NEW k \in 1 .. n PROVE Take(s, n)[k] = s[k]
      <3>1. k \in 1 .. n - 1 + 1 /\ 1 + k - 1 = k
        OBVIOUS
      <3> QED
        BY <2>2, <2>3, <3>1
    <2> QED
      BY <1>1, <2>2, <2>3, <2>4, <2>5
  <1>2. CASE ~(n < Len(s))
    BY <1>2 DEF Take
  <1> QED
    BY <1>1, <1>2

(* The window has no more than num_bytes bytes, and is the extent from     *)
(* ext_offset on.                                                          *)
LEMMA WindowProperties ==
  ASSUME NEW s \in Seq(Nat), NEW o \in Nat, NEW n \in Nat
  PROVE  /\ Window(s, o, n) \in Seq(Nat)
         /\ Len(Window(s, o, n)) <= n
         /\ o + n <= Len(s) => Len(Window(s, o, n)) = n
         /\ \A k \in 1 .. Len(Window(s, o, n)) : Window(s, o, n)[k] = s[o + k]
  <1>1. CASE o >= Len(s)
    <2>1. Window(s, o, n) = <<>>
      BY <1>1 DEF Window
    <2> QED
      BY <1>1, <2>1
  <1>2. CASE ~(o >= Len(s))
    <2> DEFINE t == SubSeq(s, o + 1, Len(s))
    <2>1. \A i \in o + 1 .. Len(s) : s[i] \in Nat
      OBVIOUS
    <2>2. /\ t \in Seq(Nat)
          /\ Len(t) = IF o + 1 <= Len(s) THEN Len(s) - (o + 1) + 1 ELSE 0
          /\ \A i \in 1 .. Len(s) - (o + 1) + 1 : t[i] = s[(o + 1) + i - 1]
      BY <2>1, SubSeqProperties
    <2>3. Window(s, o, n) = Take(t, n)
      BY <1>2 DEF Window
    <2> HIDE DEF t
    <2>4. Len(t) = Len(s) - o
      BY <1>2, <2>2
    <2>5. \A i \in 1 .. Len(t) : t[i] = s[o + i]
      <3> SUFFICES ASSUME NEW i \in 1 .. Len(t) PROVE t[i] = s[o + i]
        OBVIOUS
      <3>1. i \in 1 .. Len(s) - (o + 1) + 1 /\ (o + 1) + i - 1 = o + i
        BY <2>4
      <3> QED
        BY <2>2, <3>1
    <2>6. /\ Take(t, n) \in Seq(Nat)
          /\ Len(Take(t, n)) = IF n < Len(t) THEN n ELSE Len(t)
          /\ \A k \in 1 .. Len(Take(t, n)) : Take(t, n)[k] = t[k]
      BY <2>2, TakeProperties
    <2>7. ASSUME NEW k \in 1 .. Len(Take(t, n)) PROVE Take(t, n)[k] = s[o + k]
      <3>1. k \in 1 .. Len(t)
        BY <2>2, <2>6
      <3> QED
        BY <2>5, <2>6, <3>1
    <2>8. Len(Take(t, n)) <= n /\ (o + n <= Len(s) => Len(Take(t, n)) = n)
      <3>1. Len(s) \in Nat /\ Len(t) \in Nat
        BY <2>2
      <3> QED
        BY <2>4, <2>6, <3>1
    <2> QED
      BY <2>3, <2>6, <2>7, <2>8
  <1> QED
    BY <1>1, <1>2

(* Failed is not a sequence of bytes. *)
LEMMA FailedIsNoContent ==
  ASSUME NEW s \in Seq(Nat)
  PROVE  s # Failed
  <1>1. SUFFICES ASSUME s = Failed PROVE FALSE
    OBVIOUS
  <1>2. Len(s) = 1 /\ s[1] = -1
    BY <1>1 DEF Failed, None
  <1>3. s[1] \in Nat
    BY <1>2
  <1> QED
    BY <1>2, <1>3

-----------------------------------------------------------------------------
(* One extent.                                                             *)

(* What an EXTENT_DATA item holds, whatever its fields claim. *)
IsExtent(it) ==
  /\ it.payload \in Seq(Nat) /\ IsStream(it.stream)
  /\ it.ram_bytes \in Addr /\ it.disk_bytenr \in Addr
  /\ it.ext_offset \in Addr /\ it.num_bytes \in Addr
  /\ it.offset \in Addr

(* Every EXTENT_DATA item that read_file_from_leaf iterates over has the *)
(* shape its parser gives it.                                            *)
LEMMA ExtentShape ==
  ASSUME IsFile(file), NEW i \in ExtentItems
  PROVE  IsExtent(Leaf[i]) /\ i \in Nat
  <1>1. i \in 1 .. Len(file.leaf) /\ IsItem(Leaf[i]) /\ Leaf[i].key_type = "EXTENT_DATA"
    BY DEF IsFile, ExtentItems, Leaf
  <1>2. DOMAIN file.leaf = 1 .. Len(file.leaf)
    BY DEF IsFile
  <1> QED
    BY <1>1 DEF IsItem, IsExtent

(* decompress_extent returns no more than the codec's cap allows, whatever *)
(* the length field says.                                                  *)
LEMMA DecompressType ==
  ASSUME NEW it, it.ram_bytes \in Nat, NEW raw \in Seq(Nat),
         NEW stream, IsStream(stream), NEW src_len \in Int
  PROVE  LET d == Decompress(it, raw, stream, src_len)
         IN  /\ d \in Seq(Nat) \cup {Failed}
             /\ d # Failed =>
                  /\ it.compression = "none" => Len(d) <= Len(raw)
                  /\ it.compression # "none" =>
                       /\ it.compression # "other"
                       /\ Len(d) <= it.ram_bytes
                       /\ it.ram_bytes <= src_len * Ratio + RatioFloor
  <1> DEFINE d == Decompress(it, raw, stream, src_len)
             cap == src_len * Ratio + RatioFloor
  <1>1. CASE it.compression = "none"
    <2>1. d = Take(raw, it.ram_bytes)
      BY <1>1 DEF Decompress
    <2> HIDE DEF d
    <2>2. d \in Seq(Nat) /\ Len(d) <= Len(raw)
      BY <2>1, TakeProperties
    <2> QED
      BY <1>1, <2>2 DEF d
  <1>2. CASE it.compression # "none"
    <2>1. CASE d = Failed
      BY <2>1
    <2>2. CASE d # Failed
      <3>1. /\ ~(it.ram_bytes > cap) /\ it.compression # "other"
            /\ d = Take(stream.data, it.ram_bytes)
        BY <1>2, <2>2 DEF Decompress
      <3>2. cap \in Int
        BY AllocAssumption
      <3> HIDE DEF d, cap
      <3>3. d \in Seq(Nat) /\ Len(d) <= it.ram_bytes
        BY <3>1, TakeProperties DEF IsStream
      <3>4. it.ram_bytes <= cap
        BY <3>1, <3>2
      <3> QED
        BY <1>2, <3>1, <3>3, <3>4 DEF d, cap
    <2> QED
      BY <2>1, <2>2
  <1> QED
    BY <1>1, <1>2

(* A stream with all its bytes decompresses to them. *)
LEMMA DecompressSound ==
  ASSUME NEW it, it.ram_bytes \in Nat, NEW raw, NEW stream, IsStream(stream),
         NEW src_len \in Int, it.compression # "none", SoundStream(it, stream, src_len)
  PROVE  Decompress(it, raw, stream, src_len) = stream.data
  <1> DEFINE cap == src_len * Ratio + RatioFloor
  <1>1. it.compression # "other" /\ Len(stream.data) = it.ram_bytes /\ it.ram_bytes <= cap
    BY DEF SoundStream
  <1>2. cap \in Int
    BY AllocAssumption
  <1>3. ~(it.ram_bytes > cap) /\ ~(Len(stream.data) < it.ram_bytes)
    <2> HIDE DEF cap
    <2> QED
      BY <1>1, <1>2
  <1>4. Take(stream.data, it.ram_bytes) = stream.data
    BY <1>1 DEF Take
  <1> QED
    BY <1>1, <1>3, <1>4 DEF Decompress

(* A slice inside the image is read in full. *)
LEMMA SliceProperties ==
  ASSUME IsFile(file), NEW a \in Nat, NEW b \in Nat, a <= b, b <= file.image.len
  PROVE  /\ Slice(a, b) \in Seq(Nat)
         /\ Len(Slice(a, b)) = b - a
         /\ \A k \in 1 .. b - a : Slice(a, b)[k] = file.image.bytes[a + k - 1]
  <1>1. file.image.len \in Nat /\ file.image.bytes \in [0 .. file.image.len - 1 -> Nat]
    BY WidthAssumption DEF IsFile
  <1>2. ASSUME NEW k \in 1 .. b - a PROVE file.image.bytes[a + k - 1] \in Nat
    <2>1. a + k - 1 \in 0 .. file.image.len - 1
      BY <1>1
    <2> QED
      BY <1>1, <2>1
  <1>3. Slice(a, b) \in [1 .. b - a -> Nat] /\ b - a \in Nat
    BY <1>2 DEF Slice
  <1>4. Slice(a, b) \in Seq(Nat)
    BY <1>3, SeqDef
  <1>5. DOMAIN Slice(a, b) = 1 .. Len(Slice(a, b)) /\ Len(Slice(a, b)) \in Nat
    BY <1>4, LenProperties
  <1>6. Len(Slice(a, b)) = b - a
    <2>1. DOMAIN Slice(a, b) = 1 .. b - a
      BY <1>3
    <2> HIDE DEF Slice
    <2> QED
      BY <1>3, <1>5, <2>1
  <1> QED
    BY <1>4, <1>6 DEF Slice

(* The physical extent the code computes with saturating additions is the  *)
(* one it means whenever the end is inside the image.                      *)
LEMMA SaturationIsCaught ==
  ASSUME IsFile(file), NEW p \in Addr, NEW o \in Addr, NEW n \in Addr
  PROVE  LET start == SaturatingAdd(p, o)
             end == SaturatingAdd(start, n)
         IN  /\ start \in Nat /\ end \in Nat
             /\ end <= file.image.len <=> p + o + n <= file.image.len
             /\ end <= file.image.len => start = p + o /\ end = p + o + n
  BY WidthAssumption DEF IsFile, SaturatingAdd, Addr

(* logical_to_physical gives an address of the image's width, or None. *)
LEMMA PhysType ==
  ASSUME IsFile(file), NEW it, IsExtent(it)
  PROVE  MapLookup(file.map, it.disk_bytenr) \in Addr \cup {None}
  BY MapLookupType DEF IsFile, IsExtent

(* read_regular_extent: an error, or bytes that were all inside the image; *)
(* never more than the image holds.                                        *)
LEMMA RegularType ==
  ASSUME IsFile(file), NEW it, IsExtent(it)
  PROVE  LET phys == MapLookup(file.map, it.disk_bytenr)
             b == RegularBytes(it)
         IN  /\ b \in Seq(Nat) \cup {Failed}
             /\ b # Failed =>
                  /\ phys # None
                  /\ it.compression # "other"
                  /\ Len(b) <= it.num_bytes /\ it.num_bytes <= file.image.len
                  /\ it.compression = "none" =>
                       phys + it.ext_offset + it.num_bytes <= file.image.len
  <1> DEFINE phys == MapLookup(file.map, it.disk_bytenr)
             start == SaturatingAdd(phys, it.ext_offset)
             end == SaturatingAdd(start, it.num_bytes)
             whole == Decompress(it, <<>>, file.image.streams[phys], file.image.len - phys)
             b == RegularBytes(it)
  <1>1. /\ phys \in Addr \cup {None} /\ file.image.len \in Nat
        /\ it.num_bytes \in Nat /\ it.ext_offset \in Nat /\ it.ram_bytes \in Nat
    <2>1. phys \in Addr \cup {None}
      BY PhysType
    <2>2. file.image.len \in Nat
      BY WidthAssumption DEF IsFile
    <2>3. it.num_bytes \in Nat /\ it.ext_offset \in Nat /\ it.ram_bytes \in Nat
      BY WidthAssumption DEF IsExtent, Addr
    <2> QED
      BY <2>1, <2>2, <2>3
  <1>2. SUFFICES ASSUME b # Failed
                 PROVE  /\ b \in Seq(Nat)
                        /\ phys # None /\ it.compression # "other"
                        /\ Len(b) <= it.num_bytes /\ it.num_bytes <= file.image.len
                        /\ it.compression = "none" =>
                             phys + it.ext_offset + it.num_bytes <= file.image.len
    BY <1>2
  <1>3. phys # None /\ it.num_bytes <= file.image.len
    <2>1. phys # None /\ ~(it.num_bytes > file.image.len)
      BY <1>2 DEF RegularBytes
    <2> QED
      BY <1>1, <2>1
  <1>4. CASE it.compression = "none"
    <2>1. ~(end > file.image.len) /\ b = Slice(start, end)
      BY <1>2, <1>3, <1>4 DEF RegularBytes
    <2>2. /\ start \in Nat /\ end \in Nat
          /\ end <= file.image.len <=> phys + it.ext_offset + it.num_bytes <= file.image.len
          /\ end <= file.image.len =>
               start = phys + it.ext_offset /\ end = phys + it.ext_offset + it.num_bytes
      BY <1>1, <1>3, SaturationIsCaught DEF IsExtent
    <2> HIDE DEF start, end, phys, b
    <2>3. end <= file.image.len
      BY <1>1, <2>1, <2>2
    <2>4. start <= end /\ end - start = it.num_bytes
      BY <1>1, <1>3, <2>2, <2>3
    <2>5. b \in Seq(Nat) /\ Len(b) = it.num_bytes
      BY <2>1, <2>2, <2>3, <2>4, SliceProperties
    <2> QED
      BY <1>1, <1>3, <1>4, <2>2, <2>3, <2>5
  <1>5. CASE it.compression # "none"
    <2>1. /\ ~(phys > file.image.len) /\ whole # Failed
          /\ b = Window(whole, it.ext_offset, it.num_bytes)
      BY <1>2, <1>3, <1>5 DEF RegularBytes
    <2>2. phys \in 0 .. file.image.len
      BY <1>1, <1>3, <2>1 DEF Addr
    <2>3. IsStream(file.image.streams[phys]) /\ file.image.len - phys \in Int
      <3>1. \A p \in 0 .. file.image.len : IsStream(file.image.streams[p])
        BY DEF IsFile
      <3> HIDE DEF phys
      <3> QED
        BY <1>1, <2>2, <3>1
    <2>4. <<>> \in Seq(Nat)
      OBVIOUS
    <2>5. whole \in Seq(Nat) \cup {Failed} /\ (whole # Failed => it.compression # "other")
      BY <1>1, <1>5, <2>3, <2>4, DecompressType
    <2> HIDE DEF whole, b, phys
    <2>6. whole \in Seq(Nat) /\ it.compression # "other"
      BY <2>1, <2>5
    <2>7. b \in Seq(Nat) /\ Len(b) <= it.num_bytes
      BY <1>1, <2>1, <2>6, WindowProperties
    <2> QED
      BY <1>3, <1>5, <2>6, <2>7
  <1> QED
    BY <1>4, <1>5

(* guard_alloc's bound on a logical length is a number, and it admits at *)
(* least as much as the image holds.                                     *)
LEMMA LogicalBoundType ==
  ASSUME IsFile(file)
  PROVE  LogicalBound \in Nat /\ file.image.len <= LogicalBound /\ file.image.len \in Nat
  BY WidthAssumption, AllocAssumption DEF IsFile, LogicalBound

(* A run of zeros. *)
LEMMA HoleProperties ==
  ASSUME NEW n \in Nat
  PROVE  LET z == [k \in 1 .. n |-> 0]
         IN  z \in Seq(Nat) /\ Len(z) = n /\ \A k \in 1 .. n : z[k] = 0
  <1> DEFINE z == [k \in 1 .. n |-> 0]
  <1>1. z \in [1 .. n -> Nat] /\ \A k \in 1 .. n : z[k] = 0
    OBVIOUS
  <1>2. DOMAIN z = 1 .. n
    OBVIOUS
  <1> HIDE DEF z
  <1>3. z \in Seq(Nat)
    BY <1>1, SeqDef
  <1>4. Len(z) = n
    BY <1>2, <1>3, LenProperties
  <1> QED
    BY <1>1, <1>3, <1>4 DEF z

(* The longest contribution an inline extent's payload justifies. *)
InlineBound(it) == Len(it.payload) * Ratio + RatioFloor

(* One extent of any kind: an error, or bytes within the allocation        *)
(* bounds; a regular extent that is read was mapped and inside the image.  *)
LEMMA ExtentType ==
  ASSUME IsFile(file), NEW it, IsExtent(it)
  PROVE  LET b == ExtentBytes(it)
             phys == MapLookup(file.map, it.disk_bytenr)
         IN  /\ b \in Seq(Nat) \cup {Failed}
             /\ b # Failed =>
                  /\ it.type \in {"inline", "reg", "prealloc"}
                  /\ \/ Len(b) <= LogicalBound
                     \/ Len(b) <= Len(it.payload)
                     \/ it.type = "inline" /\ Len(b) <= InlineBound(it)
                  /\ it.type # "inline" /\ ~IsHole(it) =>
                       /\ phys # None
                       /\ it.compression # "other"
                       /\ it.compression = "none" =>
                            phys + it.ext_offset + it.num_bytes <= file.image.len
  <1> DEFINE b == ExtentBytes(it)
             phys == MapLookup(file.map, it.disk_bytenr)
             Goal == /\ b \in Seq(Nat) \cup {Failed}
                     /\ b # Failed =>
                          /\ it.type \in {"inline", "reg", "prealloc"}
                          /\ \/ Len(b) <= LogicalBound
                             \/ Len(b) <= Len(it.payload)
                             \/ it.type = "inline" /\ Len(b) <= InlineBound(it)
                          /\ it.type # "inline" /\ ~IsHole(it) =>
                               /\ phys # None
                               /\ it.compression # "other"
                               /\ it.compression = "none" =>
                                    phys + it.ext_offset + it.num_bytes <= file.image.len
  <1> SUFFICES Goal
    OBVIOUS
  <1>1. /\ it.ram_bytes \in Nat /\ it.num_bytes \in Nat
        /\ it.payload \in Seq(Nat) /\ IsStream(it.stream) /\ Len(it.payload) \in Nat
    BY WidthAssumption DEF IsExtent, Addr
  <1>2. LogicalBound \in Nat /\ file.image.len <= LogicalBound /\ file.image.len \in Nat
    BY LogicalBoundType
  <1>3. CASE it.type = "inline"
    <2>1. b = Decompress(it, it.payload, it.stream, Len(it.payload))
      BY <1>3 DEF ExtentBytes
    <2>2. InlineBound(it) \in Nat
      BY <1>1, AllocAssumption DEF InlineBound
    <2> DEFINE d == Decompress(it, it.payload, it.stream, Len(it.payload))
    <2>3. /\ d \in Seq(Nat) \cup {Failed}
          /\ d # Failed =>
               /\ it.compression = "none" => Len(d) <= Len(it.payload)
               /\ it.compression # "none" =>
                    Len(d) <= it.ram_bytes /\ it.ram_bytes <= InlineBound(it)
      BY <1>1, DecompressType DEF InlineBound
    <2> HIDE DEF d, b
    <2>4. d \in Seq(Nat) => Len(d) \in Nat
      OBVIOUS
    <2>5. d # Failed => Len(d) <= Len(it.payload) \/ Len(d) <= InlineBound(it)
      BY <1>1, <2>2, <2>3, <2>4
    <2>6. b = d
      BY <2>1 DEF d
    <2> QED
      BY <1>3, <2>3, <2>5, <2>6
  <1>4. CASE it.type \in {"reg", "prealloc"} /\ IsHole(it)
    <2>1. b = IF it.num_bytes > LogicalBound THEN Failed ELSE [k \in 1 .. it.num_bytes |-> 0]
      BY <1>4 DEF ExtentBytes
    <2> HIDE DEF b
    <2>2. CASE it.num_bytes > LogicalBound
      BY <1>4, <2>1, <2>2
    <2>3. CASE ~(it.num_bytes > LogicalBound)
      <3>1. b = [k \in 1 .. it.num_bytes |-> 0]
        BY <2>1, <2>3
      <3>2. b \in Seq(Nat) /\ Len(b) = it.num_bytes
        BY <1>1, <3>1, HoleProperties
      <3>3. Len(b) <= LogicalBound
        BY <1>1, <1>2, <2>3, <3>2
      <3> QED
        BY <1>4, <3>2, <3>3
    <2> QED
      BY <2>2, <2>3
  <1>5. CASE it.type \in {"reg", "prealloc"} /\ ~IsHole(it)
    <2>1. b = RegularBytes(it)
      BY <1>5 DEF ExtentBytes
    <2>2. /\ b \in Seq(Nat) \cup {Failed}
          /\ b # Failed =>
               /\ phys # None
               /\ it.compression # "other"
               /\ Len(b) <= it.num_bytes /\ it.num_bytes <= file.image.len
               /\ it.compression = "none" =>
                    phys + it.ext_offset + it.num_bytes <= file.image.len
      BY <2>1, RegularType
    <2> HIDE DEF b, phys
    <2>3. b # Failed => Len(b) <= LogicalBound
      <3>1. b \in Seq(Nat) => Len(b) \in Nat
        OBVIOUS
      <3> QED
        BY <1>1, <1>2, <2>2, <3>1
    <2> QED
      BY <1>5, <2>2, <2>3
  <1>6. CASE it.type \notin {"inline", "reg", "prealloc"}
    <2>1. b = Failed
      BY <1>6 DEF ExtentBytes
    <2> QED
      BY <2>1
  <1> HIDE DEF Goal
  <1> QED
    BY <1>3, <1>4, <1>5, <1>6

(* A sound extent contributes exactly its bytes, as many as it covers. *)
Exact(it, b) ==
  /\ b \in Seq(Nat)
  /\ Len(b) = Length(it)
  /\ \A k \in 1 .. Length(it) : b[k] = ByteOf(it, it.offset + k - 1)

(* A sound regular extent, compressed or not, is read exactly: the window *)
(* of read_regular_extent is the one the extent describes.                *)
LEMMA RegularSound ==
  ASSUME IsFile(file), NEW it, IsExtent(it), Sound(it), it.type = "reg", ~IsHole(it)
  PROVE  Exact(it, RegularBytes(it))
  <1> DEFINE phys == MapLookup(file.map, it.disk_bytenr)
             start == SaturatingAdd(phys, it.ext_offset)
             end == SaturatingAdd(start, it.num_bytes)
             data == file.image.streams[phys].data
             b == RegularBytes(it)
  <1>1. /\ file.image.len \in Nat /\ it.num_bytes \in Nat /\ it.ext_offset \in Nat
        /\ it.ram_bytes \in Nat /\ it.offset \in Nat
    <2>1. file.image.len \in Nat
      BY WidthAssumption DEF IsFile
    <2> QED
      BY <2>1, WidthAssumption DEF IsExtent, Addr
  <1>2. phys \in Addr \cup {None}
    BY PhysType
  <1>3. /\ phys # None /\ it.num_bytes <= file.image.len /\ Length(it) = it.num_bytes
        /\ IF it.compression = "none"
           THEN phys + it.ext_offset + it.num_bytes <= file.image.len
           ELSE /\ phys <= file.image.len
                /\ SoundStream(it, file.image.streams[phys], file.image.len - phys)
                /\ it.ext_offset + it.num_bytes <= it.ram_bytes
    BY DEF Sound, Length
  <1>4. phys \in Nat /\ ~(it.num_bytes > file.image.len)
    BY <1>1, <1>2, <1>3, WidthAssumption DEF Addr
  <1>5. \A k \in 1 .. it.num_bytes : (it.offset + k - 1) - it.offset = k - 1
    BY <1>1
  <1>6. CASE it.compression = "none"
    <2>1. phys + it.ext_offset + it.num_bytes <= file.image.len
      BY <1>3, <1>6
    <2>2. phys \in Addr /\ it.ext_offset \in Addr /\ it.num_bytes \in Addr
      BY <1>2, <1>3 DEF IsExtent
    <2>3. /\ start \in Nat /\ end \in Nat /\ end <= file.image.len
          /\ start = phys + it.ext_offset /\ end = phys + it.ext_offset + it.num_bytes
      BY <2>1, <2>2, SaturationIsCaught
    <2>4. b = Slice(start, end)
      <3>1. ~(end > file.image.len)
        <4> HIDE DEF end
        <4> QED
          BY <1>1, <2>3
      <3> QED
        BY <1>3, <1>4, <1>6, <3>1 DEF RegularBytes
    <2> HIDE DEF start, end, phys, b
    <2>5. start <= end /\ end - start = it.num_bytes
      BY <1>1, <1>4, <2>3
    <2>6. /\ b \in Seq(Nat) /\ Len(b) = it.num_bytes
          /\ \A k \in 1 .. it.num_bytes : b[k] = file.image.bytes[start + k - 1]
      BY <2>3, <2>4, <2>5, SliceProperties
    <2>7. ASSUME NEW k \in 1 .. it.num_bytes PROVE b[k] = ByteOf(it, it.offset + k - 1)
      <3>1. ByteOf(it, it.offset + k - 1) =
              file.image.bytes[phys + it.ext_offset + ((it.offset + k - 1) - it.offset)]
        BY <1>6 DEF ByteOf, phys
      <3>2. phys + it.ext_offset + ((it.offset + k - 1) - it.offset) = start + k - 1
        BY <1>1, <1>4, <2>3
      <3> QED
        BY <2>6, <3>1, <3>2
    <2> QED
      BY <1>3, <2>6, <2>7 DEF Exact, b
  <1>7. CASE it.compression # "none"
    <2>1. /\ phys <= file.image.len
          /\ SoundStream(it, file.image.streams[phys], file.image.len - phys)
          /\ it.ext_offset + it.num_bytes <= it.ram_bytes
      BY <1>3, <1>7
    <2>2. IsStream(file.image.streams[phys]) /\ file.image.len - phys \in Int
      <3>1. \A p \in 0 .. file.image.len : IsStream(file.image.streams[p])
        BY DEF IsFile
      <3> HIDE DEF phys
      <3> QED
        BY <1>1, <1>4, <2>1, <3>1
    <2>3. Decompress(it, <<>>, file.image.streams[phys], file.image.len - phys) = data
      BY <1>1, <1>7, <2>1, <2>2, DecompressSound
    <2>4. data \in Seq(Nat) /\ Len(data) = it.ram_bytes
      BY <2>1, <2>2 DEF IsStream, SoundStream
    <2>5. data # Failed /\ ~(phys > file.image.len)
      <3> HIDE DEF phys, data
      <3> QED
        BY <1>1, <1>4, <2>1, <2>4, FailedIsNoContent
    <2>6. b = Window(data, it.ext_offset, it.num_bytes)
      BY <1>3, <1>4, <1>7, <2>3, <2>5 DEF RegularBytes
    <2> HIDE DEF phys, data, b
    <2>7. /\ b \in Seq(Nat) /\ Len(b) = it.num_bytes
          /\ \A k \in 1 .. it.num_bytes : b[k] = data[it.ext_offset + k]
      <3>1. it.ext_offset + it.num_bytes <= Len(data)
        BY <2>1, <2>4
      <3>2. it.ext_offset \in Nat /\ it.num_bytes \in Nat /\ data \in Seq(Nat)
        BY <1>1, <2>4
      <3> DEFINE w == Window(data, it.ext_offset, it.num_bytes)
      <3>3. /\ w \in Seq(Nat)
            /\ it.ext_offset + it.num_bytes <= Len(data) => Len(w) = it.num_bytes
            /\ \A k \in 1 .. Len(w) : w[k] = data[it.ext_offset + k]
        BY <3>2, WindowProperties
      <3> HIDE DEF w
      <3>4. b = w
        BY <2>6 DEF w
      <3> QED
        BY <3>1, <3>3, <3>4
    <2>8. ASSUME NEW k \in 1 .. it.num_bytes PROVE b[k] = ByteOf(it, it.offset + k - 1)
      <3>1. ByteOf(it, it.offset + k - 1) = data[it.ext_offset + ((it.offset + k - 1) - it.offset) + 1]
        BY <1>7 DEF ByteOf, phys, data
      <3>2. it.ext_offset + ((it.offset + k - 1) - it.offset) + 1 = it.ext_offset + k
        BY <1>1
      <3> QED
        BY <2>7, <3>1, <3>2
    <2> QED
      BY <1>3, <2>7, <2>8 DEF Exact, b
  <1> QED
    BY <1>6, <1>7

(* The same for every kind of sound extent: inline, hole or regular. None *)
(* of them is empty, so that two sound extents never start together.      *)
LEMMA ExtentSound ==
  ASSUME IsFile(file), NEW it, IsExtent(it), Sound(it)
  PROVE  /\ Exact(it, ExtentBytes(it))
         /\ Length(it) \in Nat \ {0}
  <1>1. /\ it.ram_bytes \in Nat /\ it.num_bytes \in Nat /\ it.offset \in Nat
        /\ it.payload \in Seq(Nat) /\ IsStream(it.stream) /\ Len(it.payload) \in Nat
    BY WidthAssumption DEF IsExtent, Addr
  <1>2. Length(it) \in Nat \ {0}
    <2>1. Length(it) \in Nat
      BY <1>1 DEF Length
    <2>2. Length(it) > 0
      BY DEF Sound
    <2> QED
      BY <2>1, <2>2
  <1>3. CASE it.type = "inline"
    <2> DEFINE d == IF it.compression = "none" THEN it.payload ELSE it.stream.data
    <2>1. Length(it) = it.ram_bytes
      BY <1>3 DEF Length
    <2>2. ExtentBytes(it) = d /\ d \in Seq(Nat) /\ Len(d) = it.ram_bytes
      <3>1. ExtentBytes(it) = Decompress(it, it.payload, it.stream, Len(it.payload))
        BY <1>3 DEF ExtentBytes
      <3>2. CASE it.compression = "none"
        <4>1. Len(it.payload) = it.ram_bytes
          BY <1>3, <3>2 DEF Sound
        <4>2. Decompress(it, it.payload, it.stream, Len(it.payload)) = it.payload
          BY <1>1, <3>2, <4>1 DEF Decompress, Take
        <4> QED
          BY <1>1, <3>1, <3>2, <4>1, <4>2
      <3>3. CASE it.compression # "none"
        <4>1. SoundStream(it, it.stream, Len(it.payload))
          BY <1>3, <3>3 DEF Sound
        <4>2. Decompress(it, it.payload, it.stream, Len(it.payload)) = it.stream.data
          BY <1>1, <3>3, <4>1, DecompressSound
        <4>3. it.stream.data \in Seq(Nat) /\ Len(it.stream.data) = it.ram_bytes
          BY <1>1, <4>1 DEF IsStream, SoundStream
        <4> QED
          BY <3>1, <3>3, <4>2, <4>3
      <3> QED
        BY <3>2, <3>3
    <2>3. ASSUME NEW k \in 1 .. it.ram_bytes PROVE d[k] = ByteOf(it, it.offset + k - 1)
      <3>1. ByteOf(it, it.offset + k - 1) = d[((it.offset + k - 1) - it.offset) + 1]
        BY <1>3 DEF ByteOf
      <3>2. ((it.offset + k - 1) - it.offset) + 1 = k
        BY <1>1
      <3> QED
        BY <3>1, <3>2
    <2> HIDE DEF d
    <2> QED
      BY <1>2, <2>1, <2>2, <2>3 DEF Exact
  <1>4. CASE it.type \in {"reg", "prealloc"} /\ IsHole(it)
    <2>1. it.num_bytes <= LogicalBound /\ Length(it) = it.num_bytes
      BY <1>4 DEF Sound, Length
    <2>2. ExtentBytes(it) = [k \in 1 .. it.num_bytes |-> 0]
      <3>1. ~(it.num_bytes > LogicalBound)
        BY <1>1, <2>1, LogicalBoundType
      <3> QED
        BY <1>4, <3>1 DEF ExtentBytes
    <2>3. \A k \in 1 .. it.num_bytes : ByteOf(it, it.offset + k - 1) = 0
      BY <1>4 DEF ByteOf
    <2> QED
      BY <1>1, <1>2, <2>1, <2>2, <2>3, HoleProperties DEF Exact
  <1>5. CASE it.type = "reg" /\ ~IsHole(it)
    <2>1. ExtentBytes(it) = RegularBytes(it)
      BY <1>5 DEF ExtentBytes
    <2> QED
      BY <1>2, <1>5, <2>1, RegularSound
  <1>6. it.type = "inline" \/ (it.type \in {"reg", "prealloc"} /\ IsHole(it))
          \/ (it.type = "reg" /\ ~IsHole(it))
    BY DEF Sound
  <1> QED
    BY <1>3, <1>4, <1>5, <1>6

-----------------------------------------------------------------------------
(* The inductive invariant.                                                *)

(* The arguments of the call are fixed, and with them everything derived   *)
(* from them.                                                              *)
LEMMA Frozen ==
  ASSUME file' = file
  PROVE  /\ ExtentItems' = ExtentItems /\ InodeItems' = InodeItems
         /\ Leaf' = Leaf /\ LogicalBound' = LogicalBound
         /\ Wellformed' = Wellformed /\ AllSound' = AllSound
         /\ ExtentBound' = ExtentBound
         /\ \A i : ExtentBytes(Leaf[i])' = ExtentBytes(Leaf[i])
         /\ \A i : End(i)' = End(i)
         /\ \A o : FileByte(o)' = FileByte(o)
  <1>1. Leaf' = Leaf
    BY DEF Leaf
  <1>2. ExtentItems' = ExtentItems /\ InodeItems' = InodeItems /\ LogicalBound' = LogicalBound
    BY <1>1 DEF ExtentItems, InodeItems, LogicalBound
  <1>3. \A i : ExtentBytes(Leaf[i])' = ExtentBytes(Leaf[i])
    BY <1>1, <1>2 DEF ExtentBytes, RegularBytes, Slice
  <1>4. \A i : Sound(Leaf[i])' = Sound(Leaf[i])
    BY <1>1, <1>2 DEF Sound
  <1>5. AllSound' = AllSound /\ Disjoint' = Disjoint /\ Gapless' = Gapless
    BY <1>1, <1>2, <1>4 DEF AllSound, Disjoint, Gapless
  <1>6. \A i, o : ByteOf(Leaf[i], o)' = ByteOf(Leaf[i], o)
    BY <1>1 DEF ByteOf
  <1>7. \A o : FileByte(o)' = FileByte(o)
    BY <1>1, <1>2, <1>6 DEF FileByte
  <1>8. \A i : End(i)' = End(i)
    BY <1>1 DEF End
  <1>9. ExtentBound' = ExtentBound
    BY <1>1, <1>2 DEF ExtentBound
  <1> QED
    BY <1>1, <1>2, <1>3, <1>5, <1>7, <1>8, <1>9 DEF Wellformed

(* Every extent of a well-formed file has a place and a length. *)
LEMMA SpanType ==
  ASSUME IsFile(file), Wellformed, NEW i \in ExtentItems
  PROVE  /\ i \in Nat /\ IsExtent(Leaf[i]) /\ Sound(Leaf[i])
         /\ Leaf[i].offset \in Nat
         /\ Length(Leaf[i]) \in Nat \ {0}
         /\ End(i) = Leaf[i].offset + Length(Leaf[i])
         /\ End(i) \in Nat
  <1>1. i \in Nat /\ IsExtent(Leaf[i]) /\ Sound(Leaf[i])
    BY ExtentShape DEF Wellformed, AllSound
  <1>2. Length(Leaf[i]) \in Nat \ {0}
    BY <1>1, ExtentSound
  <1>3. Leaf[i].offset \in Nat
    BY <1>1, WidthAssumption DEF IsExtent, Addr
  <1> QED
    BY <1>1, <1>2, <1>3 DEF End

(* The next extent in the order of sort_by_key starts where the output     *)
(* ends, and the others start behind it.                                   *)
LEMMA NextFits ==
  ASSUME IsFile(file), Wellformed, extents \subseteq ExtentItems, out \in Seq(Nat),
         \A j \in Appended : End(j) <= Len(out),
         \A j \in extents : Len(out) <= Leaf[j].offset,
         NEW i \in extents, IsNext(i)
  PROVE  /\ Leaf[i].offset = Len(out)
         /\ \A j \in extents \ {i} : End(i) <= Leaf[j].offset
  <1>1. i \in ExtentItems /\ Len(out) \in Nat
    OBVIOUS
  <1>2. Leaf[i].offset \in Nat /\ End(i) \in Nat /\ i \in Nat
    BY <1>1, SpanType
  <1>3. Leaf[i].offset = Len(out)
    <2>1. Len(out) <= Leaf[i].offset
      OBVIOUS
    <2>2. CASE Leaf[i].offset = 0
      BY <1>1, <1>2, <2>1, <2>2
    <2>3. CASE Leaf[i].offset # 0
      <3>1. PICK j \in ExtentItems : Leaf[j].offset + Length(Leaf[j]) = Leaf[i].offset
        BY <1>1, <2>3 DEF Wellformed, Gapless
      <3>2. /\ j \in Nat /\ Leaf[j].offset \in Nat /\ Length(Leaf[j]) \in Nat \ {0}
            /\ End(j) = Leaf[i].offset
        BY <3>1, SpanType
      <3>3. Leaf[j].offset < Leaf[i].offset
        BY <1>2, <3>1, <3>2
      <3>4. j # i /\ ~Precedes(i, j)
        BY <1>2, <3>2, <3>3 DEF Precedes
      <3>5. j \notin extents
        BY <3>4 DEF IsNext
      <3>6. End(j) <= Len(out)
        BY <3>5 DEF Appended
      <3> QED
        BY <1>1, <1>2, <2>1, <3>2, <3>6
    <2> QED
      BY <2>2, <2>3
  <1>4. ASSUME NEW j \in extents \ {i} PROVE End(i) <= Leaf[j].offset
    <2>1. /\ j \in ExtentItems /\ j # i
          /\ Leaf[j].offset \in Nat /\ Length(Leaf[j]) \in Nat \ {0}
      BY SpanType
    <2>2. Leaf[i].offset <= Leaf[j].offset
      <3>1. Precedes(i, j)
        BY DEF IsNext
      <3>2. Leaf[i].offset < Leaf[j].offset \/ Leaf[i].offset = Leaf[j].offset
        BY <3>1 DEF Precedes
      <3> QED
        BY <1>2, <2>1, <3>2
    <2>3. \/ End(i) <= Leaf[j].offset
          \/ Leaf[j].offset + Length(Leaf[j]) <= Leaf[i].offset
      BY <1>1, <2>1 DEF Wellformed, Disjoint, End
    <2> QED
      BY <1>2, <2>1, <2>2, <2>3
  <1> QED
    BY <1>3, <1>4

(* A byte that an extent covers is that extent's; any other is zero. *)
LEMMA FileByteCovered ==
  ASSUME IsFile(file), Wellformed, NEW i \in ExtentItems,
         NEW o \in Nat, Leaf[i].offset <= o, o < End(i)
  PROVE  FileByte(o) = ByteOf(Leaf[i], o)
  <1> DEFINE C == {j \in ExtentItems : CoversByte(Leaf[j], o)}
  <1>1. i \in C
    BY DEF CoversByte, End
  <1>2. ASSUME NEW j \in C PROVE j = i
    <2>1. SUFFICES ASSUME j # i PROVE FALSE
      OBVIOUS
    <2>2. /\ Leaf[i].offset \in Nat /\ End(i) \in Nat
          /\ End(i) = Leaf[i].offset + Length(Leaf[i])
      BY SpanType
    <2>3. /\ Leaf[j].offset \in Nat /\ End(j) \in Nat
          /\ End(j) = Leaf[j].offset + Length(Leaf[j])
      BY SpanType
    <2>4. Leaf[j].offset <= o /\ o < End(j)
      BY DEF CoversByte, End
    <2>5. End(i) <= Leaf[j].offset \/ End(j) <= Leaf[i].offset
      BY <2>1, <2>2, <2>3 DEF Wellformed, Disjoint
    <2> QED
      BY <2>2, <2>3, <2>4, <2>5
  <1>3. C = {i} /\ i \in Nat
    BY <1>1, <1>2, SpanType
  <1>4. Min(C) = i
    BY <1>3, MinLemma
  <1> QED
    BY <1>1, <1>4 DEF FileByte

(* Behind the end of the last extent the file is zero. *)
LEMMA FileByteUncovered ==
  ASSUME IsFile(file), Wellformed, NEW n \in Nat, \A i \in ExtentItems : End(i) <= n,
         NEW o \in Nat, n <= o
  PROVE  FileByte(o) = 0
  <1>1. ASSUME NEW i \in ExtentItems PROVE ~CoversByte(Leaf[i], o)
    <2>1. End(i) = Leaf[i].offset + Length(Leaf[i]) /\ End(i) \in Nat /\ End(i) <= n
      BY SpanType
    <2>2. ~(o < End(i))
      BY <2>1
    <2> QED
      BY <2>1, <2>2 DEF CoversByte
  <1> QED
    BY <1>1 DEF FileByte

(* Before the first step nothing is appended. *)
LEMMA ReadInit == Init => ReadInv
  <1> SUFFICES ASSUME Init PROVE ReadInv
    OBVIOUS
  <1>1. IsFile(file)
    BY FilesAssumption DEF Init
  <1>2. TypeOK
    BY <1>1, WidthAssumption DEF Init, TypeOK, Addr
  <1>3. StatusExplained /\ Cut /\ ContentIsExact
    BY DEF Init, StatusExplained, Cut, ContentIsExact
  <1> QED
    BY <1>2, <1>3 DEF ReadInv

(* The early returns before the loop: nothing was assembled. *)
LEMMA RefuseStep ==
  ASSUME ReadInv, Refuse
  PROVE  ReadInv'
  <1>1. UNCHANGED <<file, size, extents, out>> /\ status = "start" /\ status' = "err"
    BY DEF Refuse
  <1>2. TypeOK'
    BY <1>1, Frozen DEF ReadInv, TypeOK
  <1>3. StatusExplained'
    BY <1>1, Frozen DEF StatusExplained, Refuse
  <1>4. Cut'
    BY <1>1 DEF Cut
  <1>5. ContentIsExact'
    BY <1>1, Frozen DEF ReadInv, ContentIsExact, Wellformed, StatusExplained
  <1> QED
    BY <1>2, <1>3, <1>4, <1>5 DEF ReadInv

(* The loop starts with every extent item of the leaf and with the size of *)
(* the first INODE_ITEM.                                                   *)
LEMMA BeginStep ==
  ASSUME ReadInv, Begin
  PROVE  ReadInv'
  <1>1. /\ UNCHANGED <<file, out>> /\ status = "start" /\ status' = "extents"
        /\ InodeItems # {} /\ extents' = ExtentItems
        /\ size' = Leaf[Min(InodeItems)].size /\ size' <= LogicalBound
    BY DEF Begin
  <1>2. out = <<>> /\ IsFile(file)
    BY <1>1 DEF ReadInv, StatusExplained, TypeOK
  <1>3. size' \in Addr
    <2>1. InodeItems \subseteq Nat
      BY <1>2 DEF InodeItems, Leaf, IsFile
    <2>2. Min(InodeItems) \in InodeItems
      BY <1>1, <2>1, MinLemma
    <2>3. PICK i \in InodeItems : i = Min(InodeItems)
      BY <2>2
    <2>4. IsItem(Leaf[i]) /\ Leaf[i].key_type = "INODE_ITEM"
      BY <1>2 DEF InodeItems, Leaf, IsFile
    <2> QED
      BY <1>1, <2>3, <2>4 DEF IsItem
  <1>4. TypeOK'
    BY <1>1, <1>2, <1>3, Frozen DEF TypeOK
  <1>5. Appended' = {}
    BY <1>1, Frozen DEF Appended
  <1>6. StatusExplained'
    BY <1>1, <1>5, Frozen DEF StatusExplained
  <1>7. Cut'
    <2> SUFFICES ASSUME Wellformed, NEW i \in ExtentItems PROVE 0 <= Leaf[i].offset
      BY <1>1, <1>2, <1>5, Frozen DEF Cut
    <2> QED
      BY <1>2, SpanType
  <1>8. ContentIsExact'
    BY <1>1, <1>2, Frozen DEF ContentIsExact, Wellformed
  <1> QED
    BY <1>4, <1>6, <1>7, <1>8 DEF ReadInv

(* The `?` on an extent ends the read with an error, which the failing *)
(* extent explains.                                                    *)
LEMMA ExtentFailsStep ==
  ASSUME ReadInv, ExtentFails
  PROVE  ReadInv'
  <1>1. UNCHANGED <<file, size, extents, out>> /\ status = "extents" /\ status' = "err"
    BY DEF ExtentFails
  <1>2. PICK i \in extents : ExtentBytes(Leaf[i]) = Failed
    BY DEF ExtentFails
  <1>3. i \in ExtentItems
    BY DEF ReadInv, TypeOK
  <1>4. TypeOK'
    BY <1>1, Frozen DEF ReadInv, TypeOK
  <1>5. StatusExplained'
    BY <1>1, <1>2, <1>3, Frozen DEF StatusExplained
  <1>6. Cut'
    BY <1>1 DEF Cut
  <1>7. ContentIsExact'
    BY <1>1, Frozen DEF ReadInv, ContentIsExact, Wellformed
  <1> QED
    BY <1>4, <1>5, <1>6, <1>7 DEF ReadInv

(* The extent appended goes where its file offset says, although the code  *)
(* does not look at it.                                                    *)
LEMMA AppendStep ==
  ASSUME ReadInv, AppendExtent
  PROVE  ReadInv'
  <1>1. UNCHANGED <<file, size, status>> /\ status = "extents"
    BY DEF AppendExtent
  <1>2. PICK i \in extents :
          /\ IsNext(i)
          /\ ExtentBytes(Leaf[i]) # Failed
          /\ out' = out \o ExtentBytes(Leaf[i])
          /\ extents' = extents \ {i}
    BY DEF AppendExtent
  <1> DEFINE b == ExtentBytes(Leaf[i])
  <1>3. IsFile(file) /\ extents \subseteq ExtentItems /\ out \in Seq(Nat) /\ i \in ExtentItems
    BY DEF ReadInv, TypeOK
  <1>4. b \in Seq(Nat)
    BY <1>2, <1>3, ExtentShape, ExtentType
  <1>5. /\ out' \in Seq(Nat) /\ Len(out') = Len(out) + Len(b)
        /\ \A k \in 1 .. Len(out) + Len(b) :
             out'[k] = IF k <= Len(out) THEN out[k] ELSE b[k - Len(out)]
    BY <1>2, <1>3, <1>4, ConcatProperties
  <1>6. TypeOK'
    BY <1>1, <1>2, <1>5, Frozen DEF ReadInv, TypeOK
  <1>7. Appended' = Appended \cup {i}
    BY <1>1, <1>2, <1>3, Frozen DEF Appended
  <1>8. StatusExplained'
    BY <1>1, <1>2, <1>7, Frozen DEF ReadInv, StatusExplained
  <1>9. CASE ~Wellformed
    <2>1. Cut' /\ ContentIsExact'
      BY <1>1, <1>9, Frozen DEF Cut, ContentIsExact, Wellformed
    <2> QED
      BY <1>6, <1>8, <2>1 DEF ReadInv
  <1>10. CASE Wellformed
    <2>1. /\ \A j \in Appended : End(j) <= Len(out)
          /\ \A j \in extents : Len(out) <= Leaf[j].offset
      BY <1>1, <1>10 DEF ReadInv, Cut
    <2>2. /\ Leaf[i].offset = Len(out)
          /\ \A j \in extents \ {i} : End(i) <= Leaf[j].offset
      BY <1>2, <1>3, <1>10, <2>1, NextFits
    <2>3. Exact(Leaf[i], b)
      BY <1>3, <1>10, SpanType, ExtentSound
    <2>4. /\ Len(b) = Length(Leaf[i]) /\ Len(b) \in Nat /\ Len(out) \in Nat
          /\ End(i) = Leaf[i].offset + Len(b)
          /\ \A k \in 1 .. Len(b) : b[k] = ByteOf(Leaf[i], Leaf[i].offset + k - 1)
      BY <1>3, <1>4, <2>3 DEF Exact, End
    <2> HIDE DEF b
    <2>5. Len(out') = End(i)
      BY <1>5, <2>2, <2>4
    <2>6. \A j \in Appended : End(j) <= Len(out')
      <3> SUFFICES ASSUME NEW j \in Appended PROVE End(j) <= Len(out')
        OBVIOUS
      <3>1. End(j) \in Nat /\ End(j) <= Len(out)
        BY <1>3, <1>10, <2>1, SpanType DEF Appended
      <3> QED
        BY <1>5, <2>4, <3>1
    <2>7. End(i) \in Nat
      BY <1>3, <1>10, SpanType
    <2>8. Cut'
      <3>1. \A j \in Appended' : End(j) <= Len(out')
        BY <1>7, <2>5, <2>6, <2>7
      <3>2. \A j \in extents' : Len(out') <= Leaf[j].offset
        BY <1>2, <2>2, <2>5
      <3> QED
        BY <1>1, <3>1, <3>2, Frozen DEF Cut
    <2>9. ASSUME NEW k \in 1 .. Len(out') PROVE out'[k] = FileByte(k - 1)
      <3>1. CASE k <= Len(out)
        <4>1. out'[k] = out[k] /\ k \in DOMAIN out
          BY <1>3, <1>5, <2>4, <3>1
        <4> QED
          BY <1>10, <4>1 DEF ReadInv, ContentIsExact, Wellformed
      <3>2. CASE ~(k <= Len(out))
        <4>1. k - Len(out) \in 1 .. Len(b) /\ out'[k] = b[k - Len(out)]
          BY <1>5, <2>4, <3>2
        <4>2. b[k - Len(out)] = ByteOf(Leaf[i], Leaf[i].offset + (k - Len(out)) - 1)
          BY <2>4, <4>1
        <4>3. Leaf[i].offset + (k - Len(out)) - 1 = k - 1
          BY <2>2, <2>4, <4>1
        <4>4. k - 1 \in Nat /\ Leaf[i].offset <= k - 1 /\ k - 1 < End(i)
          BY <2>2, <2>4, <2>5, <2>7, <3>2
        <4>5. FileByte(k - 1) = ByteOf(Leaf[i], k - 1)
          BY <1>3, <1>10, <4>4, FileByteCovered
        <4> QED
          BY <4>1, <4>2, <4>3, <4>5
      <3> QED
        BY <3>1, <3>2
    <2>10. ContentIsExact'
      <3>1. DOMAIN out' = 1 .. Len(out')
        BY <1>5
      <3> QED
        BY <1>1, <2>9, <3>1, Frozen DEF ContentIsExact
    <2> QED
      BY <1>6, <1>8, <2>8, <2>10 DEF ReadInv
  <1> QED
    BY <1>9, <1>10

(* Truncation keeps right bytes right; what is filled up is behind every   *)
(* extent, where the file reads as zeros.                                  *)
LEMMA FinishStep ==
  ASSUME ReadInv, Finish
  PROVE  ReadInv'
  <1>1. /\ UNCHANGED <<file, size, extents>> /\ status = "extents" /\ status' = "ok"
        /\ extents = {} /\ out' = [k \in 1 .. size |-> IF k <= Len(out) THEN out[k] ELSE 0]
    BY DEF Finish
  <1>2. IsFile(file) /\ size \in Nat /\ out \in Seq(Nat) /\ Len(out) \in Nat
    BY WidthAssumption DEF ReadInv, TypeOK, Addr
  <1>3. /\ out' \in Seq(Nat) /\ Len(out') = size /\ DOMAIN out' = 1 .. size
        /\ \A k \in 1 .. size : out'[k] = IF k <= Len(out) THEN out[k] ELSE 0
    <2> DEFINE f == [k \in 1 .. size |-> IF k <= Len(out) THEN out[k] ELSE 0]
    <2>1. ASSUME NEW k \in 1 .. size PROVE f[k] \in Nat
      BY <1>2
    <2>2. f \in [1 .. size -> Nat] /\ DOMAIN f = 1 .. size
      BY <2>1
    <2>3. \A k \in 1 .. size : f[k] = IF k <= Len(out) THEN out[k] ELSE 0
      OBVIOUS
    <2>4. out' = f
      BY <1>1
    <2> HIDE DEF f
    <2>5. f \in Seq(Nat)
      BY <1>2, <2>2, SeqDef
    <2>6. Len(f) = size
      BY <1>2, <2>2, <2>5, LenProperties
    <2> QED
      BY <2>2, <2>3, <2>4, <2>5, <2>6
  <1>4. TypeOK'
    BY <1>1, <1>3, Frozen DEF ReadInv, TypeOK
  <1>5. Appended = ExtentItems
    BY <1>1 DEF Appended
  <1>6. StatusExplained'
    BY <1>1, <1>5, Frozen DEF ReadInv, StatusExplained
  <1>7. Cut'
    BY <1>1 DEF Cut
  <1>8. ASSUME Wellformed, NEW k \in 1 .. size PROVE out'[k] = FileByte(k - 1)
    <2>1. CASE k <= Len(out)
      <3>1. out'[k] = out[k] /\ k \in DOMAIN out
        BY <1>2, <1>3, <2>1
      <3> QED
        BY <1>8, <3>1 DEF ReadInv, ContentIsExact, Wellformed
    <2>2. CASE ~(k <= Len(out))
      <3>1. \A i \in ExtentItems : End(i) <= Len(out)
        BY <1>1, <1>5, <1>8 DEF ReadInv, Cut
      <3>2. k - 1 \in Nat /\ Len(out) <= k - 1
        BY <1>2, <2>2
      <3>3. FileByte(k - 1) = 0
        BY <1>2, <1>8, <3>1, <3>2, FileByteUncovered
      <3> QED
        BY <1>3, <2>2, <3>3
    <2> QED
      BY <2>1, <2>2
  <1>9. ContentIsExact'
    BY <1>1, <1>3, <1>8, Frozen DEF ContentIsExact, Wellformed
  <1> QED
    BY <1>4, <1>6, <1>7, <1>9 DEF ReadInv

(* Every way through an iteration keeps the invariant. *)
LEMMA ReadStep == ReadInv /\ [Next]_vars => ReadInv'
  <1> SUFFICES ASSUME ReadInv, [Next]_vars PROVE ReadInv'
    OBVIOUS
  <1>1. CASE UNCHANGED vars
    <2>1. TypeOK'
      BY <1>1, Frozen DEF ReadInv, TypeOK, vars
    <2>2. StatusExplained'
      BY <1>1, Frozen DEF ReadInv, StatusExplained, Appended, vars
    <2>3. Cut' /\ ContentIsExact'
      BY <1>1, Frozen DEF ReadInv, Cut, ContentIsExact, Wellformed, Appended, vars
    <2> QED
      BY <2>1, <2>2, <2>3 DEF ReadInv
  <1>2. CASE Next
    BY <1>2, RefuseStep, BeginStep, AppendStep, ExtentFailsStep, FinishStep DEF Next
  <1> QED
    BY <1>1, <1>2

(* ReadInv holds throughout read_file_from_leaf: what was appended is a    *)
(* prefix of the extents in order, the bytes so far are the file's, and an *)
(* error has a cause in the leaf or the image.                             *)
THEOREM ReadInvariant == Spec => []ReadInv
  BY ReadInit, ReadStep, PTL DEF Spec

-----------------------------------------------------------------------------
(* What the invariant says.                                                *)

(* The variables of read_file_from_leaf keep their shapes: no length field *)
(* and no damaged stream makes it append anything but bytes.               *)
THEOREM ReadTypes == Spec => []TypeOK
  BY ReadInvariant, PTL DEF ReadInv

(* On a sound file without gaps no byte is out of place, at any moment of  *)
(* the loop and after the truncation to the inode's size.                  *)
THEOREM ReadExact == Spec => []ContentIsExact
  BY ReadInvariant, PTL DEF ReadInv

(* No guard of read_file_from_leaf turns a sound file away. *)
THEOREM ReadAccepts == Spec => []SoundFileIsRead
  <1>1. ReadInv => SoundFileIsRead
    <2> SUFFICES ASSUME ReadInv, status = "err", AllSound,
                        NEW i \in ExtentItems, ExtentBytes(Leaf[i]) = Failed
                 PROVE FALSE
      BY DEF ReadInv, StatusExplained, SoundFileIsRead
    <2>1. IsExtent(Leaf[i]) /\ Sound(Leaf[i]) /\ IsFile(file)
      BY ExtentShape DEF ReadInv, TypeOK, AllSound
    <2>2. ExtentBytes(Leaf[i]) \in Seq(Nat)
      BY <2>1, ExtentSound DEF Exact
    <2> QED
      BY <2>2, FailedIsNoContent
  <1> QED
    BY <1>1, ReadInvariant, PTL

(* When read_file_from_leaf returns Ok, every extent was of a known kind,  *)
(* and every one on disk was mapped and, if not compressed, read in full.  *)
THEOREM ReadIsComplete == Spec => []OkMeansEveryExtentRead
  <1>1. ReadInv => OkMeansEveryExtentRead
    <2> SUFFICES ASSUME ReadInv, status = "ok", NEW i \in ExtentItems
                 PROVE  LET phys == MapLookup(file.map, Leaf[i].disk_bytenr)
                        IN  /\ Leaf[i].type \in {"inline", "reg", "prealloc"}
                            /\ Leaf[i].type # "inline" /\ ~IsHole(Leaf[i]) =>
                                 /\ phys # None
                                 /\ Leaf[i].compression # "other"
                                 /\ Leaf[i].compression = "none" =>
                                      phys + Leaf[i].ext_offset + Leaf[i].num_bytes <= file.image.len
      BY DEF OkMeansEveryExtentRead
    <2>1. IsExtent(Leaf[i]) /\ IsFile(file)
      BY ExtentShape DEF ReadInv, TypeOK
    <2>2. ExtentBytes(Leaf[i]) # Failed
      BY DEF ReadInv, StatusExplained
    <2> QED
      BY <2>1, <2>2, ExtentType
  <1> QED
    BY <1>1, ReadInvariant, PTL

-----------------------------------------------------------------------------
(* How much is allocated.                                                  *)

(* A finite set of numbers has a largest one. *)
LEMMA MaxLemma ==
  ASSUME NEW S \in SUBSET Nat, IsFiniteSet(S), S # {}
  PROVE  Max(S) \in S /\ \A y \in S : y <= Max(S)
  <1> DEFINE HasMax(T) == \E x \in T : \A y \in T : x >= y
             Bad == {T \in SUBSET S : T # {} /\ ~HasMax(T)}
             Sizes == {Cardinality(T) : T \in Bad}
  <1>1. \A T \in SUBSET S : IsFiniteSet(T) /\ Cardinality(T) \in Nat
    BY FS_Subset, FS_CardinalityType
  <1>2. Bad = {}
    <2> SUFFICES ASSUME Bad # {} PROVE FALSE
      OBVIOUS
    <2>1. Sizes \in SUBSET Nat /\ Sizes # {}
      BY <1>1
    <2>2. Min(Sizes) \in Sizes /\ \A n \in Sizes : Min(Sizes) <= n
      <3> HIDE DEF Sizes
      <3> QED
        BY <2>1, MinLemma
    <2>3. PICK T \in Bad : Cardinality(T) = Min(Sizes)
      BY <2>2
    <2>4. PICK x \in T : TRUE
      OBVIOUS
    <2> DEFINE U == T \ {x}
    <2>5. Cardinality(U) = Cardinality(T) - 1
      BY <1>1, FS_RemoveElement
    <2>6. U \notin Bad
      <3>1. SUFFICES ASSUME U \in Bad PROVE FALSE
        OBVIOUS
      <3>2. Cardinality(U) \in Sizes
        BY <3>1
      <3>3. Cardinality(T) \in Nat
        BY <1>1
      <3> HIDE DEF U, Sizes
      <3> QED
        BY <2>2, <2>3, <2>5, <3>2, <3>3
    <2>7. CASE U = {}
      <3>1. T = {x}
        BY <2>7
      <3>2. HasMax(T)
        BY <3>1
      <3> QED
        BY <3>2
    <2>8. CASE U # {}
      <3>1. PICK m \in U : \A y \in U : m >= y
        BY <2>6, <2>8
      <3>2. m \in Nat /\ x \in Nat /\ T = U \cup {x}
        OBVIOUS
      <3>3. CASE m >= x
        BY <3>1, <3>2, <3>3
      <3>4. CASE ~(m >= x)
        <4>1. ASSUME NEW y \in T PROVE x >= y
          <5>1. y = x \/ (y \in Nat /\ m >= y)
            BY <3>1, <3>2
          <5> QED
            BY <3>2, <3>4, <5>1
        <4> QED
          BY <4>1
      <3> QED
        BY <3>3, <3>4
    <2> QED
      BY <2>7, <2>8
  <1>3. HasMax(S)
    BY <1>2
  <1>4. Max(S) \in S /\ \A y \in S : Max(S) >= y
    BY <1>3 DEF Max
  <1> QED
    BY <1>4

(* ExtentBound is a number, no smaller than what one extent contributes. *)
LEMMA ExtentBoundProperties ==
  ASSUME IsFile(file)
  PROVE  /\ ExtentBound \in Nat
         /\ IsFiniteSet(ExtentItems)
         /\ \A i \in ExtentItems :
              ExtentBytes(Leaf[i]) # Failed => Len(ExtentBytes(Leaf[i])) <= ExtentBound
  <1> DEFINE Inlines == {j \in ExtentItems : Leaf[j].type = "inline"}
             A == {InlineBound(Leaf[i]) : i \in Inlines}
             B == {Len(Leaf[i].payload) : i \in ExtentItems}
             S == {LogicalBound} \cup A \cup B
  <1>1. IsFiniteSet(ExtentItems) /\ IsFiniteSet(Inlines)
    <2>1. Len(file.leaf) \in Nat /\ ExtentItems \subseteq 1 .. Len(file.leaf)
      <3>1. DOMAIN file.leaf = 1 .. Len(file.leaf) /\ Len(file.leaf) \in Nat
        BY DEF IsFile
      <3> QED
        BY <3>1 DEF ExtentItems, Leaf
    <2>2. IsFiniteSet(1 .. Len(file.leaf))
      BY <2>1, FS_Interval
    <2>3. IsFiniteSet(ExtentItems)
      BY <2>1, <2>2, FS_Subset
    <2> QED
      BY <2>3, FS_Subset
  <1>2. IsFiniteSet(A)
    <2> DEFINE f == [i \in Inlines |-> InlineBound(Leaf[i])]
    <2>1. f \in Surjection(Inlines, A)
      BY DEF Surjection
    <2> HIDE DEF f, A, Inlines
    <2> QED
      BY <1>1, <2>1, FS_Surjection
  <1>3. IsFiniteSet(B)
    <2> DEFINE f == [i \in ExtentItems |-> Len(Leaf[i].payload)]
    <2>1. f \in Surjection(ExtentItems, B)
      BY DEF Surjection
    <2> HIDE DEF f, B
    <2> QED
      BY <1>1, <2>1, FS_Surjection
  <1>4. IsFiniteSet(S)
    <2> HIDE DEF A, B
    <2>1. IsFiniteSet({LogicalBound} \cup A)
      BY <1>2, FS_Singleton, FS_Union
    <2> QED
      BY <1>3, <2>1, FS_Union
  <1>5. \A i \in ExtentItems : Len(Leaf[i].payload) \in Nat /\ InlineBound(Leaf[i]) \in Nat
    <2> SUFFICES ASSUME NEW i \in ExtentItems
                 PROVE Len(Leaf[i].payload) \in Nat /\ InlineBound(Leaf[i]) \in Nat
      OBVIOUS
    <2>1. Leaf[i].payload \in Seq(Nat)
      BY ExtentShape DEF IsExtent
    <2>2. Len(Leaf[i].payload) \in Nat
      BY <2>1
    <2> QED
      BY <2>2, AllocAssumption DEF InlineBound
  <1>6. S \in SUBSET Nat /\ S # {}
    BY <1>5, LogicalBoundType
  <1>7. ExtentBound = Max(S)
    BY DEF ExtentBound, InlineBound
  <1>8. Max(S) \in S /\ \A y \in S : y <= Max(S)
    <2> HIDE DEF S
    <2> QED
      BY <1>4, <1>6, MaxLemma
  <1>9. /\ ExtentBound \in Nat /\ LogicalBound <= ExtentBound
        /\ \A i \in ExtentItems :
             /\ Len(Leaf[i].payload) <= ExtentBound
             /\ Leaf[i].type = "inline" => InlineBound(Leaf[i]) <= ExtentBound
    <2>1. LogicalBound \in S
      OBVIOUS
    <2>2. \A i \in ExtentItems : /\ Len(Leaf[i].payload) \in S
                                 /\ Leaf[i].type = "inline" => InlineBound(Leaf[i]) \in S
      OBVIOUS
    <2> HIDE DEF S
    <2> QED
      BY <1>6, <1>7, <1>8, <2>1, <2>2
  <1>10. ASSUME NEW i \in ExtentItems, ExtentBytes(Leaf[i]) # Failed
         PROVE  Len(ExtentBytes(Leaf[i])) <= ExtentBound
    <2> DEFINE b == ExtentBytes(Leaf[i])
    <2>1. /\ b \in Seq(Nat)
          /\ \/ Len(b) <= LogicalBound
             \/ Len(b) <= Len(Leaf[i].payload)
             \/ Leaf[i].type = "inline" /\ Len(b) <= InlineBound(Leaf[i])
      BY <1>10, ExtentShape, ExtentType
    <2> HIDE DEF b
    <2>2. Len(b) \in Nat /\ LogicalBound \in Nat
      BY <2>1, LogicalBoundType
    <2>3. Len(b) <= ExtentBound
      BY <1>5, <1>9, <2>1, <2>2
    <2> QED
      BY <2>3 DEF b
  <1> QED
    BY <1>1, <1>9, <1>10

(* More extents of the same bound need no less memory. *)
LEMMA TimesMonotonic ==
  ASSUME NEW m \in Nat, NEW n \in Nat, m <= n, NEW b \in Nat
  PROVE  m * b <= n * b /\ m * b \in Nat /\ n * b \in Nat
  <1>1. PICK d \in Nat : n = m + d
    <2>1. n - m \in Nat /\ n = m + (n - m)
      OBVIOUS
    <2> QED
      BY <2>1
  <1>2. n * b = m * b + d * b /\ d * b \in Nat /\ m * b \in Nat
    BY <1>1
  <1> QED
    BY <1>2

(* No iteration of read_file_from_leaf allocates more than its extent's      *)
(* share of the bound, and the final resize no more than guard_alloc let by. *)
LEMMA AllocStep == ReadInv /\ AllocationBounded /\ [Next]_vars => AllocationBounded'
  <1> SUFFICES ASSUME ReadInv, AllocationBounded, [Next]_vars PROVE AllocationBounded'
    OBVIOUS
  <1> DEFINE n == Cardinality(Appended)
             total == Cardinality(ExtentItems)
             B == ExtentBound
  <1>1. /\ IsFile(file) /\ size \in Nat /\ extents \subseteq ExtentItems /\ out \in Seq(Nat)
        /\ Len(out) \in Nat /\ LogicalBound \in Nat
    BY LogicalBoundType, WidthAssumption DEF ReadInv, TypeOK, Addr
  <1>2. B \in Nat /\ IsFiniteSet(ExtentItems) /\ IsFiniteSet(Appended)
    BY <1>1, ExtentBoundProperties, FS_Subset DEF Appended
  <1>3. n \in Nat /\ total \in Nat /\ n <= total
    BY <1>2, FS_CardinalityType, FS_Subset DEF Appended
  <1>4. n * B <= total * B /\ n * B \in Nat /\ total * B \in Nat
    BY <1>2, <1>3, TimesMonotonic
  <1>5. CASE UNCHANGED vars
    BY <1>5, Frozen DEF AllocationBounded, vars
  <1>6. CASE Refuse \/ ExtentFails
    <2>1. /\ file' = file /\ out' = out /\ status \in {"start", "extents"} /\ status' = "err"
      BY <1>6 DEF Refuse, ExtentFails
    <2>2. Len(out) <= n * B
      BY <2>1 DEF AllocationBounded, Appended
    <2>3. Len(out) <= total * B + LogicalBound
      <3> HIDE DEF n, total, B
      <3> QED
        BY <1>1, <1>3, <1>4, <2>2
    <2> QED
      BY <2>1, <2>3, Frozen DEF AllocationBounded
  <1>7. CASE Begin
    <2>1. /\ file' = file /\ out' = out /\ status = "start" /\ status' = "extents"
          /\ extents' = ExtentItems
      BY <1>7 DEF Begin
    <2>2. Len(out') = 0
      BY <2>1 DEF ReadInv, StatusExplained
    <2>3. Cardinality((ExtentItems \ extents)') = 0
      <3>1. (ExtentItems \ extents)' = {}
        BY <2>1, Frozen
      <3> QED
        BY <3>1, FS_EmptySet
    <2>4. 0 * B = 0
      BY <1>2
    <2> QED
      BY <2>1, <2>2, <2>3, <2>4, Frozen DEF AllocationBounded
  <1>8. CASE AppendExtent
    <2>1. file' = file /\ status' = status /\ status = "extents"
      BY <1>8 DEF AppendExtent
    <2>2. PICK i \in extents :
            /\ ExtentBytes(Leaf[i]) # Failed
            /\ out' = out \o ExtentBytes(Leaf[i])
            /\ extents' = extents \ {i}
      BY <1>8 DEF AppendExtent
    <2> DEFINE b == ExtentBytes(Leaf[i])
    <2>3. b \in Seq(Nat) /\ Len(b) <= B
      BY <1>1, <2>2, ExtentShape, ExtentType, ExtentBoundProperties
    <2>4. Len(out') = Len(out) + Len(b) /\ Len(b) \in Nat
      BY <1>1, <2>2, <2>3
    <2>5. Len(out) <= n * B
      BY <2>1 DEF AllocationBounded, Appended
    <2>6. Cardinality((ExtentItems \ extents)') = n + 1
      <3>1. (ExtentItems \ extents)' = Appended \cup {i} /\ i \notin Appended
        BY <1>1, <2>1, <2>2, Frozen DEF Appended
      <3> QED
        BY <1>2, <3>1, FS_AddElement
    <2> HIDE DEF n, B, b
    <2>7. (n + 1) * B = n * B + B
      BY <1>2, <1>3
    <2>8. Len(out') <= (n + 1) * B
      BY <1>1, <1>2, <1>4, <2>3, <2>4, <2>5, <2>7
    <2> QED
      BY <2>1, <2>6, <2>8, Frozen DEF AllocationBounded, B
  <1>9. CASE Finish
    <2>1. file' = file /\ size' = size /\ status = "extents" /\ status' = "ok"
      BY <1>9 DEF Finish
    <2>2. out' = [k \in 1 .. size |-> IF k <= Len(out) THEN out[k] ELSE 0]
      BY <1>9 DEF Finish
    <2>3. Len(out') = size
      <3>1. DOMAIN out' = 1 .. size
        BY <2>2
      <3>2. out' \in Seq(Nat)
        BY <1>9, FinishStep DEF ReadInv, TypeOK
      <3> QED
        BY <1>1, <3>1, <3>2, LenProperties
    <2>4. size <= LogicalBound
      BY <2>1 DEF ReadInv, StatusExplained
    <2>5. Len(out') <= total * B + LogicalBound
      <3> HIDE DEF total, B
      <3> QED
        BY <1>1, <1>4, <2>3, <2>4
    <2> QED
      BY <2>1, <2>5, Frozen DEF AllocationBounded
  <1> QED
    BY <1>5, <1>6, <1>7, <1>8, <1>9 DEF Next

(* Whatever the length fields claim, read_file_from_leaf holds no more     *)
(* than the extents read justify: guard_alloc and the codec's cap work.    *)
THEOREM ReadIsBounded == Spec => []AllocationBounded
  <1>1. Init => AllocationBounded
    <2> SUFFICES ASSUME Init PROVE AllocationBounded
      OBVIOUS
    <2>1. IsFile(file) /\ out = <<>> /\ status = "start" /\ extents = {}
      BY FilesAssumption DEF Init
    <2>2. ExtentBound \in Nat /\ Cardinality(ExtentItems) \in Nat
      BY <2>1, ExtentBoundProperties, FS_CardinalityType
    <2>3. 0 <= Cardinality(ExtentItems) * ExtentBound
      BY <2>2, TimesMonotonic
    <2>4. ExtentItems \ extents = ExtentItems /\ Len(out) = 0
      BY <2>1
    <2> QED
      BY <2>1, <2>3, <2>4 DEF AllocationBounded
  <1> QED
    BY <1>1, AllocStep, ReadInvariant, PTL DEF Spec
=============================================================================
