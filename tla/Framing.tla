-------------------------------- MODULE Framing --------------------------------
(***************************************************************************)
(* The cursor loops that cut a buffer of untrusted bytes into records:     *)
(*    array    SysChunk::parse_array, the sys_chunk_array                  *)
(*    xattr    list_xattrs, the records of one XATTR_ITEM                  *)
(*    ref      list_inode_refs, the records of one INODE_REF item          *)
(*    lzo      decompress_lzo_btrfs, the segments of an LZO extent         *)
(*    items, ptrs, stripes                                                 *)
(*             parse_items, parse_key_ptrs, Chunk::parse: records of a     *)
(*             fixed size and a declared count                             *)
(* One action is one turn of a loop, or one way to leave it.               *)
(*                                                                         *)
(* A call is a buffer of `len` bytes and the call's other arguments.       *)
(* `laid` lists the records that its writer put there, and `damaged` is    *)
(* the one among them whose header was overwritten (0: none).  A header is *)
(* the two numbers the loop reads from it: `len` (num_stripes, name_len,   *)
(* the segment length) and `extra` (data_len; for a segment, the number of *)
(* bytes it decodes to).  What stands where no header was laid is chosen   *)
(* when the cursor gets there: any bytes may, and no loop looks twice.     *)
(***************************************************************************)
EXTENDS Integers, Sequences, FiniteSetsExt

CONSTANTS
  Calls,         \* the calls that may be made
  Garbage,       \* the headers that stray bytes may look like
  EntryHeader,   \* DISK_KEY_SIZE + CHUNK_HEADER_SIZE
  StripeSize,    \* STRIPE_SIZE
  DirPrefix,     \* dir_off::NAME
  RefPrefix,     \* inode_ref_off::NAME
  ItemSize,      \* BTRFS_ITEM_SIZE
  PtrSize,       \* BTRFS_KEY_PTR_SIZE
  LzoLen,        \* LZO_LEN
  SegSlack       \* what seg_out_cap allows beyond a sector

(* The result of an LZO block that does not decode. *)
Failed == -1

Header == [len : Nat, extra : Nat]

Kinds == {"array", "xattr", "ref", "lzo", "items", "ptrs", "stripes"}

-----------------------------------------------------------------------------
(* The writer: mkfs and the kernel, which lay one record behind the other; *)
(* an LZO segment header is kept within one sector.                        *)

LaidSize(kind, h) ==
  CASE kind = "array" -> EntryHeader + h.len * StripeSize
    [] kind = "xattr" -> DirPrefix + h.len + h.extra
    [] kind = "ref" -> RefPrefix + h.len
    [] kind = "lzo" -> LzoLen + h.len

LaidFrom(kind, p, sector) ==
  IF kind = "lzo" /\ sector - (p % sector) < LzoLen THEN ((p \div sector) + 1) * sector ELSE p

(* Names and segments are not empty, and a segment is a sector's worth. *)
Writable(c, h) ==
  /\ c.kind # "array" => h.len # 0
  /\ c.kind = "lzo" => h.extra <= c.sector /\ LzoLen <= c.sector

(* Where the first i records end. *)
LaidEnd(c, i) == IF i = 0 THEN c.start ELSE c.laid[i].at + c.laid[i].size

IsLaid(c) ==
  /\ c.laid \in Seq([at : Nat, size : Nat, head : Header])
  /\ \A i \in DOMAIN c.laid :
       /\ c.laid[i].at = LaidFrom(c.kind, LaidEnd(c, i - 1), c.sector)
       /\ c.laid[i].size = LaidSize(c.kind, c.laid[i].head)
       /\ Writable(c, c.laid[i].head)

IsCall(c) ==
  /\ c.kind \in Kinds
  /\ {c.len, c.start, c.declared, c.cap, c.damaged, c.sector} \subseteq Nat
  /\ c.kind \in {"array", "xattr", "ref", "lzo"} => IsLaid(c)

ASSUME CallsAssumption == \A c \in Calls : IsCall(c)
ASSUME GarbageAssumption == Garbage \subseteq Header
ASSUME SizesAssumption ==
  /\ {EntryHeader, StripeSize, DirPrefix, RefPrefix, ItemSize, PtrSize, LzoLen} \subseteq Nat \ {0}
  /\ SegSlack \in Nat

VARIABLES
  call,      \* the arguments; never written
  cur,       \* the cursor: p, off, cur
  out,       \* where the records read so far lie: at, size
  produced,  \* the bytes decompressed so far (out.len() of the LZO loop)
  status     \* "running", then "ok" or "err"

vars == <<call, cur, out, produced, status>>

Init ==
  /\ call \in Calls
  /\ cur = call.start
  /\ out = <<>>
  /\ produced = 0
  /\ status = "running"

-----------------------------------------------------------------------------
Least(a, b) == IF a < b THEN a ELSE b

HeadersAt(p) ==
  LET Laid == {i \in DOMAIN call.laid : call.laid[i].at = p /\ i # call.damaged}
  IN IF Laid = {} THEN Garbage ELSE {call.laid[i].head : i \in Laid}

Running(kind) == status = "running" /\ call.kind = kind

(* A record of `size` bytes at `at` is pushed and the cursor moves on. *)
Push(at, size, next) ==
  /\ out' = Append(out, [at |-> at, size |-> size])
  /\ cur' = next
  /\ UNCHANGED <<call, status>>

Leave(result) ==
  /\ status' = result
  /\ UNCHANGED <<call, cur, out, produced>>

-----------------------------------------------------------------------------
(* parse_array.  Key, chunk header and stripes have to lie inside the      *)
(* declared size and inside the block.                                     *)
ArrayEnd == Least(call.start + call.declared, call.len)

EntrySize(h) == EntryHeader + h.len * StripeSize

(* Mutant: the stripes are not compared with the end. *)
ArrayEntryOverrun ==
  /\ Running("array")
  /\ cur + EntryHeader <= ArrayEnd
  /\ \E h \in HeadersAt(cur) : Push(cur, EntrySize(h), cur + EntrySize(h))
  /\ UNCHANGED produced

ArrayEntry ==
  /\ Running("array")
  /\ cur + EntryHeader <= ArrayEnd
  /\ \E h \in HeadersAt(cur) :
       /\ cur + EntrySize(h) <= ArrayEnd
       /\ Push(cur, EntrySize(h), cur + EntrySize(h))
  /\ UNCHANGED produced

ArrayStop ==
  /\ Running("array")
  /\ \/ cur + EntryHeader > ArrayEnd
     \/ \E h \in HeadersAt(cur) : cur + EntrySize(h) > ArrayEnd
  /\ Leave("ok")

-----------------------------------------------------------------------------
(* list_xattrs and list_inode_refs over one item.  A record with an empty  *)
(* name, or one that is not wholly there, ends the item.                   *)

(* Mutant: the value behind the name is not stepped over. *)
XattrSizeNameOnly(h) == DirPrefix + h.len

(* What parse_xattr_item consumes. *)
XattrSize(h) == DirPrefix + h.len + h.extra

(* What parse_inode_ref consumes. *)
RefSize(h) == RefPrefix + h.len

WholeRecord(h, size) == h.len # 0 /\ cur + size <= call.len

XattrRecord ==
  /\ Running("xattr")
  /\ cur + DirPrefix <= call.len
  /\ \E h \in HeadersAt(cur) :
       /\ WholeRecord(h, XattrSize(h))
       /\ Push(cur, XattrSize(h), cur + XattrSize(h))
  /\ UNCHANGED produced

XattrStop ==
  /\ Running("xattr")
  /\ \/ cur + DirPrefix > call.len
     \/ \E h \in HeadersAt(cur) : ~WholeRecord(h, XattrSize(h))
  /\ Leave("ok")

RefRecord ==
  /\ Running("ref")
  /\ cur + RefPrefix <= call.len
  /\ \E h \in HeadersAt(cur) :
       /\ WholeRecord(h, RefSize(h))
       /\ Push(cur, RefSize(h), cur + RefSize(h))
  /\ UNCHANGED produced

(* Mutant: a malformed record is tried again instead of ending the item. *)
RefStall ==
  /\ Running("ref")
  /\ \/ cur + RefPrefix > call.len
     \/ \E h \in HeadersAt(cur) : ~WholeRecord(h, RefSize(h))
  /\ UNCHANGED vars

RefStop ==
  /\ Running("ref")
  /\ \/ cur + RefPrefix > call.len
     \/ \E h \in HeadersAt(cur) : ~WholeRecord(h, RefSize(h))
  /\ Leave("ok")

-----------------------------------------------------------------------------
(* parse_items, parse_key_ptrs, Chunk::parse: the declared count is capped *)
(* by what fits, and a partial record at the end is left out.              *)
Capped(count, avail, size) == Least(count, avail \div size)

FixedSize == [items |-> ItemSize, ptrs |-> PtrSize, stripes |-> StripeSize]

Fixed ==
  /\ status = "running"
  /\ call.kind \in DOMAIN FixedSize
  /\ LET size == FixedSize[call.kind]
         avail == IF call.start <= call.len THEN call.len - call.start ELSE 0
         take == Capped(call.declared, avail, size)
     IN out' = [i \in 1 .. take |-> [at |-> call.start + (i - 1) * size, size |-> size]]
  /\ status' = "ok"
  /\ UNCHANGED <<call, cur, produced>>

-----------------------------------------------------------------------------
(* decompress_lzo_btrfs. *)
SectorSize == IF call.sector = 0 THEN 1 ELSE call.sector

(* A buffer too short for the total reads as 0 (le32_padded). *)
DeclaredTotal == IF call.len < LzoLen THEN 0 ELSE call.declared

Total ==
  LET t == Least(DeclaredTotal, call.len)
  IN IF t < LzoLen THEN LzoLen ELSE t

(* Where the next segment header is looked for: behind the padding, if the *)
(* rest of the sector is too short for it.                                 *)
Aligned(p, sector) == IF (p % sector) + LzoLen > sector THEN p + (sector - (p % sector)) ELSE p

HeaderPos == Aligned(cur, SectorSize)

SegmentPending == Running("lzo") /\ cur < Total /\ produced < call.cap

(* No header is read: past the total, or past the source. *)
HeaderMissing == (HeaderPos # cur /\ HeaderPos >= Total) \/ HeaderPos + LzoLen > call.len

(* The segment handed to the codec, cut at the end of the source. *)
SegmentSize(h) == Least(LzoLen + h.len, call.len - HeaderPos)

(* What lzo::decompress_into makes of it: a cut segment fails or yields    *)
(* less, and the output buffer is one sector and some slack.               *)
Decoded(h) ==
  IF SegmentSize(h) < LzoLen + h.len THEN {Failed} \cup 0 .. h.extra
  ELSE IF h.extra > SectorSize + SegSlack THEN {Failed} ELSE {h.extra}

(* Mutant: a segment's output is not cut at the cap. *)
LzoSegmentUncapped ==
  /\ SegmentPending /\ ~HeaderMissing
  /\ \E h \in HeadersAt(HeaderPos) :
       /\ h.len # 0
       /\ \E n \in Decoded(h) \ {Failed} :
            /\ produced' = produced + n
            /\ Push(HeaderPos, SegmentSize(h), HeaderPos + LzoLen + h.len)

LzoSegment ==
  /\ SegmentPending /\ ~HeaderMissing
  /\ \E h \in HeadersAt(HeaderPos) :
       /\ h.len # 0
       /\ \E n \in Decoded(h) \ {Failed} :
            /\ produced' = produced + Least(call.cap - produced, n)
            /\ Push(HeaderPos, SegmentSize(h), HeaderPos + LzoLen + h.len)

LzoFails ==
  /\ SegmentPending /\ ~HeaderMissing
  /\ \E h \in HeadersAt(HeaderPos) : h.len # 0 /\ Failed \in Decoded(h)
  /\ Leave("err")

(* The breaks of the loop, and its regular end. *)
LzoStop ==
  /\ Running("lzo")
  /\ \/ ~SegmentPending
     \/ SegmentPending /\ HeaderMissing
     \/ SegmentPending /\ ~HeaderMissing /\ \E h \in HeadersAt(HeaderPos) : h.len = 0
  /\ Leave("ok")

Next ==
  \/ ArrayEntry \/ ArrayStop
  \/ XattrRecord \/ XattrStop
  \/ RefRecord \/ RefStop
  \/ Fixed
  \/ LzoSegment \/ LzoFails \/ LzoStop

(* A sequential function: the next turn of the loop always runs. *)
Spec == Init /\ [][Next]_vars /\ WF_vars(Next)

-----------------------------------------------------------------------------
(* The end of what the loop may read. *)
Region ==
  CASE call.kind = "array" -> ArrayEnd
    [] call.kind = "lzo" -> Least(Total, call.len)
    [] OTHER -> call.len

(* The first k records are undamaged and wholly in the region. *)
Intact(k) ==
  \A i \in 1 .. k : i # call.damaged /\ call.laid[i].at + call.laid[i].size <= Region

IntactCount == Max({k \in 0 .. Len(call.laid) : Intact(k)})

AllLaidEnd == LaidEnd(call, Len(call.laid))

(* The shapes of the variables; the decompressed bytes never exceed cap. *)
TypeOK ==
  /\ IsCall(call)
  /\ cur \in Nat
  /\ out \in Seq([at : Nat, size : Nat])
  /\ produced \in 0 .. call.cap
  /\ status \in {"running", "ok", "err"}

(* Whatever the bytes declare, no record reaches past the buffer, nor past *)
(* the declared size of a sys_chunk_array, and no byte belongs to two      *)
(* records: a loop that steps too short or too far reads one record's      *)
(* bytes as part of another.                                               *)
RecordsApart ==
  \A i \in DOMAIN out :
    /\ out[i].at >= call.start
    /\ out[i].at + out[i].size <= call.len
    /\ call.kind = "array" => out[i].at + out[i].size <= call.start + call.declared
    /\ \A j \in DOMAIN out : i < j => out[i].at + out[i].size <= out[j].at

(* What the kernel wrote is read back by parse_array, list_xattrs,         *)
(* list_inode_refs and the LZO loop: every record in front of the first    *)
(* damaged or cut one, in order and at its place, LZO padding included;    *)
(* nothing more when nothing was damaged; and a whole frame never fails.   *)
WrittenIsReadBack ==
  /\ status = "ok" /\ call.kind \notin DOMAIN FixedSize =>
       /\ Len(out) >= IntactCount \/ (call.kind = "lzo" /\ produced = call.cap)
       /\ call.damaged = 0 /\ Region <= AllLaidEnd /\ call.kind # "lzo" => Len(out) = IntactCount
  /\ status # "running" /\ call.kind \notin DOMAIN FixedSize =>
       \A i \in 1 .. Least(Len(out), IntactCount) :
         out[i].at = call.laid[i].at /\ out[i].size = call.laid[i].size
  /\ status = "err" => IntactCount < Len(call.laid) \/ Region > AllLaidEnd

(* Every loop ends, on every header. *)
FramingReturns == <>(status # "running")
=============================================================================
